------------------------------ MODULE Members ------------------------------
(***************************************************************************)
(* The administration of members. Each open page of UserController lists   *)
(* detached copies of the rows of t_user; its dialog edits such a copy in  *)
(* place, and saving merges the whole copy into the row, the columns the   *)
(* dialog does not offer included. Meanwhile other pages save and remove   *)
(* members, and the payment service writes their balance.                  *)
(*                                                                         *)
(* Saving is two steps: the check for a free login in the snapshot of the  *)
(* transaction and the write, at which the database checks its unique key. *)
(* A payment is one step (Ledger is the module about payments). External:  *)
(* the browser, and EclipseLink, which writes the columns in which a copy  *)
(* differs from the row the transaction has read.                          *)
(***************************************************************************)
EXTENDS Integers, Sequences, FiniteSets

CONSTANTS
  Page,           \* open pages of the administration
  Login,          \* logins that can be typed
  NoLogin,        \* no login: nothing filled in yet, or blanks
  Administrator,  \* login of the first member
  MaxUsers,       \* bound: rows of t_user
  MaxEntries      \* bound: history entries of a member

ASSUME MembersAssumption ==
  /\ NoLogin \notin Login
  /\ Administrator \in Login
  /\ MaxUsers \in Nat
  /\ MaxEntries \in Nat

VARIABLES
  rows,      \* t_user: login, balance and enabled of each member
  entries,   \* number of history entries of each member
  items,     \* the copies each page lists
  dialog,    \* the dialog open on the page
  selected,  \* the id of the member it edits
  object,    \* the object behind it
  linked,    \* is that object the one in the list
  busy,      \* is a save under way, its check passed
  base       \* the row its transaction has read

table == <<rows, entries>>
form == <<dialog, selected, object>>
saving == <<busy, base>>
vars == <<rows, entries, items, dialog, selected, object, linked, busy, base>>

User == DOMAIN rows

\* The balance counts the entries it was last computed from.
Row(login, balance, enabled) ==
  [login |-> login, balance |-> balance, enabled |-> enabled]

NewUser == Row(NoLogin, 0, FALSE)

Init ==
  /\ rows = << Row(Administrator, 0, TRUE) >>
  /\ entries = << 0 >>
  /\ items = [p \in Page |-> << >>]
  /\ dialog = [p \in Page |-> "none"]
  /\ selected = [p \in Page |-> 0]
  /\ object = [p \in Page |-> NewUser]
  /\ linked = [p \in Page |-> FALSE]
  /\ busy = [p \in Page |-> FALSE]
  /\ base = [p \in Page |-> NewUser]

\* Slip: removed members are listed too.
FindAllRows(members) == [u \in DOMAIN members |-> members[u]]

\* UserDAOImpl.findAll
FindAll(members) ==
  [u \in {v \in DOMAIN members : members[v].enabled} |-> members[u]]

\* Slip: the object of the dialog is still taken for one of the list.
ReloadLinked(p) ==
  /\ items' = [items EXCEPT ![p] = FindAll(rows')]
  /\ linked' = linked

\* items = null, and getItems as the page is drawn: new copies of all rows.
Reload(p) ==
  /\ items' = [items EXCEPT ![p] = FindAll(rows')]
  /\ linked' = [linked EXCEPT ![p] = FALSE]

(***************************************************************************)
(* Opening pages and dialogs                                               *)
(***************************************************************************)
Idle(p) == dialog[p] = "none" /\ ~busy[p]

Open(p) ==
  /\ Idle(p)
  /\ UNCHANGED <<table, form, saving>>
  /\ Reload(p)

PrepareCreate(p) ==
  /\ Idle(p)
  /\ dialog' = [dialog EXCEPT ![p] = "create"]
  /\ selected' = [selected EXCEPT ![p] = 0]
  /\ object' = [object EXCEPT ![p] = NewUser]
  /\ linked' = [linked EXCEPT ![p] = FALSE]
  /\ UNCHANGED <<table, items, saving>>

PrepareEdit(p, u) ==
  /\ Idle(p)
  /\ u \in DOMAIN items[p]
  /\ dialog' = [dialog EXCEPT ![p] = "edit"]
  /\ selected' = [selected EXCEPT ![p] = u]
  /\ object' = [object EXCEPT ![p] = items[p][u]]
  /\ linked' = [linked EXCEPT ![p] = TRUE]
  /\ UNCHANGED <<table, items, saving>>

\* The dialog is closed. The page never looks at the object again: the next
\* dialog brings its own.
Close(p) ==
  /\ dialog' = [dialog EXCEPT ![p] = "none"]
  /\ selected' = [selected EXCEPT ![p] = 0]
  /\ object' = [object EXCEPT ![p] = NewUser]

\* What was typed and sent before stays in the list.
Cancel(p) ==
  /\ dialog[p] # "none" /\ ~busy[p]
  /\ Close(p)
  /\ linked' = [linked EXCEPT ![p] = FALSE]
  /\ UNCHANGED <<table, items, saving>>

(***************************************************************************)
(* Saving                                                                  *)
(***************************************************************************)
\* The values of the form go into the object, and into the list if the object
\* is one of it, whether or not they are saved afterwards.
Filled(p, login) == [object[p] EXCEPT !.login = login]

FillCopy(p, login) ==
  items' = IF linked[p] THEN [items EXCEPT ![p][selected[p]] = Filled(p, login)]
           ELSE items

Fill(p, login) ==
  /\ object' = [object EXCEPT ![p] = Filled(p, login)]
  /\ FillCopy(p, login)

\* checkUpdatePassword: the two passwords differ, nothing is saved.
RefusePassword(p, login) ==
  /\ dialog[p] # "none" /\ ~busy[p]
  /\ Fill(p, login)
  /\ UNCHANGED <<table, dialog, selected, linked, saving>>

\* A login of blanks: checkLogin, or persist for a new member, adds a message and
\* returns. It does not tell the browser that the form was refused, so the dialog
\* closes; the listed copy keeps the blanks.
RefuseBlank(p) ==
  /\ dialog[p] # "none" /\ ~busy[p]
  /\ FillCopy(p, NoLogin)
  /\ \/ Close(p) /\ linked' = [linked EXCEPT ![p] = FALSE]
     \/ /\ object' = [object EXCEPT ![p] = Filled(p, NoLogin)]
        /\ UNCHANGED <<dialog, selected, linked>>
  /\ UNCHANGED <<table, saving>>

\* checkUserConstraintLogin, in the snapshot of the transaction.
LoginFree(login, u) == \A v \in User \ {u} : rows[v].login # login

\* The check finds the login taken: an error message, and the list stays as
\* it is.
RefuseLogin(p, login) ==
  /\ dialog[p] # "none" /\ ~busy[p]
  /\ ~LoginFree(login, selected[p])
  /\ Fill(p, login)
  /\ UNCHANGED <<table, dialog, selected, linked, saving>>

Creating == {p \in Page : busy[p] /\ dialog[p] = "create"}

\* UserDAOImpl.save up to the check.
BeginSave(p, login) ==
  /\ dialog[p] # "none" /\ ~busy[p]
  /\ LoginFree(login, selected[p])
  /\ dialog[p] = "create" => Len(rows) + Cardinality(Creating) < MaxUsers
  /\ Fill(p, login)
  /\ busy' = [busy EXCEPT ![p] = TRUE]
  /\ base' = [base EXCEPT ![p] =
                IF dialog[p] = "edit" THEN rows[selected[p]] ELSE NewUser]
  /\ UNCHANGED <<table, dialog, selected, linked>>

\* Slip: the table has no unique key.
NoKey(login, u) == TRUE

\* The unique key of t_user, checked when the row is written.
KeyFree(login, u) == \A v \in User \ {u} : rows[v].login # login

\* Slip: only what the form holds is kept of the object.
MergedFromForm(p) ==
  LET new == object[p] old == base[p] row == rows[selected[p]]
  IN Row(IF new.login # old.login THEN new.login ELSE row.login,
         0,
         IF new.enabled # old.enabled THEN new.enabled ELSE row.enabled)

\* EntityManager.merge: the columns in which the copy differs from the row
\* that was read are written.
Merged(p) ==
  LET new == object[p] old == base[p] row == rows[selected[p]]
  IN Row(IF new.login # old.login THEN new.login ELSE row.login,
         IF new.balance # old.balance THEN new.balance ELSE row.balance,
         IF new.enabled # old.enabled THEN new.enabled ELSE row.enabled)

\* The transaction of p is over.
EndSave(p) ==
  /\ busy' = [busy EXCEPT ![p] = FALSE]
  /\ base' = [base EXCEPT ![p] = NewUser]

\* The dialog closes when the answer arrives; a second click on the save
\* button may come first.
Answered(p) == EndSave(p) /\ (Close(p) \/ UNCHANGED form)

Insert(p) ==
  /\ busy[p] /\ dialog[p] = "create"
  /\ KeyFree(object[p].login, 0)
  /\ rows' = Append(rows, Row(object[p].login, 0, TRUE))
  /\ entries' = Append(entries, 0)
  /\ Answered(p)
  /\ Reload(p)

Update(p) ==
  /\ busy[p] /\ dialog[p] = "edit"
  /\ KeyFree(Merged(p).login, selected[p])
  /\ rows' = [rows EXCEPT ![selected[p]] = Merged(p)]
  /\ entries' = entries
  /\ Answered(p)
  /\ Reload(p)

\* Another page took the login between check and write: the transaction is
\* rolled back, the dialog stays open and the list is read again.
ViolateKey(p) ==
  /\ busy[p]
  /\ IF dialog[p] = "create" THEN ~KeyFree(object[p].login, 0)
     ELSE ~KeyFree(Merged(p).login, selected[p])
  /\ EndSave(p)
  /\ UNCHANGED <<table, form>>
  /\ Reload(p)

(***************************************************************************)
(* Removing, and the payment service                                       *)
(***************************************************************************)
\* UserDAOImpl.remove disables the row; its id is all it takes from the page.
\* But persist removes nobody whose copy has a blank login.
Destroy(p, u) ==
  /\ Idle(p)
  /\ u \in DOMAIN items[p]
  /\ rows' = IF items[p][u].login = NoLogin THEN rows
             ELSE [rows EXCEPT ![u].enabled = FALSE]
  /\ UNCHANGED <<entries, form, saving>>
  /\ Reload(p)

\* A payment, usage or subscription of an enabled member: computeBalance
\* stores the sum of the whole history.
Pay(u) ==
  /\ rows[u].enabled
  /\ entries[u] < MaxEntries
  /\ entries' = [entries EXCEPT ![u] = @ + 1]
  /\ rows' = [rows EXCEPT ![u].balance = entries'[u]]
  /\ UNCHANGED <<items, form, linked, saving>>

-----------------------------------------------------------------------------
Step(p) ==
  \/ Open(p)
  \/ PrepareCreate(p)
  \/ \E u \in DOMAIN items[p] : PrepareEdit(p, u) \/ Destroy(p, u)
  \/ Cancel(p)
  \/ RefuseBlank(p)
  \/ \E login \in Login :
       RefusePassword(p, login) \/ RefuseLogin(p, login) \/ BeginSave(p, login)
  \/ Insert(p)
  \/ Update(p)
  \/ ViolateKey(p)

Next == (\E p \in Page : Step(p)) \/ (\E u \in User : Pay(u))

Spec == Init /\ [][Next]_vars

(***************************************************************************)
(* Properties                                                              *)
(***************************************************************************)
Stored == [login : Login, balance : Nat, enabled : BOOLEAN]
Object == [login : Login \cup {NoLogin}, balance : Nat, enabled : BOOLEAN]

TablesOK ==
  /\ rows \in Seq(Stored)
  /\ entries \in Seq(Nat) /\ Len(entries) = Len(rows)

ShapesOK ==
  /\ DOMAIN items = Page
  /\ dialog \in [Page -> {"none", "create", "edit"}]
  /\ selected \in [Page -> User \cup {0}]
  /\ object \in [Page -> Object] /\ base \in [Page -> Object]
  /\ linked \in [Page -> BOOLEAN] /\ busy \in [Page -> BOOLEAN]

PageOK(p) ==
  /\ items[p] \in [DOMAIN items[p] -> Object] /\ DOMAIN items[p] \subseteq User
  /\ linked[p] => selected[p] \in DOMAIN items[p]
  /\ dialog[p] # "edit" => selected[p] = 0
  /\ dialog[p] = "edit" => selected[p] \in User
  /\ busy[p] => dialog[p] # "none" /\ object[p].login \in Login

\* Every variable keeps its shape: copies are of existing members, a save
\* under way belongs to an open dialog with a login, and the object of the
\* dialog counts as one of the list only while the list has it.
TypeOK == TablesOK /\ ShapesOK /\ \A p \in Page : PageOK(p)

\* No two members ever have the same login, removed ones included, however
\* many pages save at once: what the check misses the key of the table stops.
LoginsUnique ==
  \A u, v \in User : u # v => rows[u].login # rows[v].login

\* The copies of member u that a page can still save.
CopiesOf(u) ==
  {items[p][u] : p \in {q \in Page : u \in DOMAIN items[q]}}
    \cup {object[p] : p \in {q \in Page : dialog[q] = "edit" /\ selected[q] = u}}

\* A removed member of whom no page holds a copy from before his removal is gone
\* for good: no page gets a copy of him again, and none can bring him back.
GoneForGood ==
  [][\A u \in User :
       ~rows[u].enabled /\ (\A c \in CopiesOf(u) : ~c.enabled)
         => ~rows'[u].enabled /\ CopiesOf(u)' = {}]_vars

Exact(u) == rows[u].balance = entries[u]

\* While no page holds a stale copy of a member, nothing that pages and the
\* payment service do makes his balance differ from his history.
ExactWhileFresh ==
  [][\A u \in User :
       Exact(u) /\ (\A c \in CopiesOf(u) : c.balance = rows[u].balance)
         => Exact(u)']_vars

\* A save changes what the dialog offers to edit: never the balance, which it
\* only displays, and not whether a member is removed. Nothing in the code
\* makes it so for a copy that is no longer fresh.
EditKeepsTheRest ==
  [][\A p \in Page : busy[p] /\ ~busy'[p] =>
       \A u \in User : /\ rows'[u].balance = rows[u].balance
                       /\ rows'[u].enabled = rows[u].enabled]_vars

=============================================================================
