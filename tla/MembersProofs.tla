--------------------------- MODULE MembersProofs ---------------------------
(***************************************************************************)
(* Proofs about Members, for any pages, logins and bounds: shapes, unique  *)
(* logins, removals that last, and fresh copies that do no harm.           *)
(*                                                                         *)
(* The inductive invariant adds to TypeOK and LoginsUnique that every copy *)
(* a page holds is of a member it took for enabled: lists only show such   *)
(* members and the dialog has no field to change it. It is why a member no *)
(* page holds an enabled copy of cannot come back.                         *)
(***************************************************************************)
EXTENDS Members, TLAPS

CopiesEnabled ==
  \A p \in Page :
    /\ \A u \in DOMAIN items[p] : items[p][u].enabled
    /\ dialog[p] = "edit" => object[p].enabled

IInv == TypeOK /\ LoginsUnique /\ CopiesEnabled

(***************************************************************************)
(* Lists, forms and rows                                                   *)
(***************************************************************************)
\* A list read from the table: copies of enabled members.
LEMMA FindAllType ==
  ASSUME NEW members \in Seq(Stored)
  PROVE  /\ FindAll(members) \in [DOMAIN FindAll(members) -> Object]
         /\ DOMAIN FindAll(members) \subseteq DOMAIN members
         /\ \A u \in DOMAIN FindAll(members) : FindAll(members)[u].enabled
<1>1. Stored \subseteq Object
  BY DEF Stored, Object
<1>2. QED
  BY <1>1 DEF FindAll

\* Drawing the list of page p again leaves the other pages alone, and no object
\* of p counts as one of its list.
LEMMA ReloadType ==
  ASSUME TypeOK, CopiesEnabled, NEW p \in Page, Reload(p),
         rows' \in Seq(Stored), User \subseteq User'
  PROVE  /\ DOMAIN items' = Page
         /\ linked' \in [Page -> BOOLEAN] /\ ~linked'[p]
         /\ \A q \in Page :
              /\ items'[q] \in [DOMAIN items'[q] -> Object]
              /\ DOMAIN items'[q] \subseteq User'
              /\ \A u \in DOMAIN items'[q] : items'[q][u].enabled
              /\ linked'[q] => linked[q] /\ items'[q] = items[q]
<1>1. /\ FindAll(rows') \in [DOMAIN FindAll(rows') -> Object]
      /\ DOMAIN FindAll(rows') \subseteq User'
      /\ \A u \in DOMAIN FindAll(rows') : FindAll(rows')[u].enabled
  BY FindAllType DEF User
<1>2. DOMAIN items' = Page /\ linked' \in [Page -> BOOLEAN] /\ ~linked'[p]
  BY DEF Reload, TypeOK, ShapesOK
<1>3. ASSUME NEW q \in Page
      PROVE  /\ items'[q] \in [DOMAIN items'[q] -> Object]
             /\ DOMAIN items'[q] \subseteq User'
             /\ \A u \in DOMAIN items'[q] : items'[q][u].enabled
             /\ linked'[q] => linked[q] /\ items'[q] = items[q]
  <2>1. CASE q = p
    <3>1. items'[q] = FindAll(rows') /\ ~linked'[q]
      BY <2>1 DEF Reload, TypeOK, ShapesOK
    <3>2. QED BY <1>1, <3>1
  <2>2. CASE q # p
    <3>1. items'[q] = items[q] /\ linked'[q] = linked[q]
      BY <2>2 DEF Reload, TypeOK, ShapesOK
    <3>2. QED BY <3>1 DEF TypeOK, PageOK, CopiesEnabled
  <2>3. QED BY <2>1, <2>2
<1>4. QED BY <1>2, <1>3

\* The values of a form keep the shape of the list, and the flag that the form
\* does not offer.
LEMMA FillCopyType ==
  ASSUME TypeOK, CopiesEnabled, NEW p \in Page, NEW login \in Login \cup {NoLogin},
         dialog[p] # "none", FillCopy(p, login)
  PROVE  /\ Filled(p, login) \in Object
         /\ Filled(p, login).login = login
         /\ dialog[p] = "edit" => Filled(p, login).enabled
         /\ DOMAIN items' = Page
         /\ \A q \in Page :
              /\ items'[q] \in [DOMAIN items'[q] -> Object]
              /\ DOMAIN items'[q] = DOMAIN items[q]
              /\ \A u \in DOMAIN items'[q] : items'[q][u].enabled
<1> DEFINE filled == Filled(p, login)
<1>1. object[p] \in Object /\ filled \in Object /\ filled.login = login
  BY DEF TypeOK, ShapesOK, Object, Filled
<1>2. ASSUME dialog[p] = "edit" PROVE filled.enabled
  <2>1. object[p].enabled
    BY <1>2 DEF CopiesEnabled
  <2>2. QED BY <1>1, <2>1 DEF Object, Filled
<1>3. items' = IF linked[p] THEN [items EXCEPT ![p][selected[p]] = filled] ELSE items
  BY DEF FillCopy
<1>4. linked[p] => selected[p] \in DOMAIN items[p] /\ selected[p] # 0 /\ dialog[p] = "edit"
  <2>1. linked[p] => selected[p] \in DOMAIN items[p] /\ selected[p] \in User
    BY DEF TypeOK, PageOK
  <2>2. 0 \notin User
    BY DEF TypeOK, TablesOK, User
  <2>3. QED BY <2>1, <2>2 DEF TypeOK, PageOK
<1> HIDE DEF filled
<1>5. DOMAIN items' = Page
  BY <1>3 DEF TypeOK, ShapesOK
<1>6. ASSUME NEW q \in Page
      PROVE  /\ items'[q] \in [DOMAIN items'[q] -> Object]
             /\ DOMAIN items'[q] = DOMAIN items[q]
             /\ \A u \in DOMAIN items'[q] : items'[q][u].enabled
  <2>1. /\ items[q] \in [DOMAIN items[q] -> Object]
        /\ \A u \in DOMAIN items[q] : items[q][u].enabled
    BY DEF TypeOK, PageOK, CopiesEnabled
  <2>2. CASE linked[p] /\ q = p
    <3>1. items'[q] = [items[q] EXCEPT ![selected[p]] = filled]
      BY <1>3, <2>2 DEF TypeOK, ShapesOK
    <3>2. QED BY <1>1, <1>2, <1>4, <2>1, <2>2, <3>1
  <2>3. CASE ~(linked[p] /\ q = p)
    <3>1. items'[q] = items[q]
      BY <1>3, <2>3 DEF TypeOK, ShapesOK
    <3>2. QED BY <2>1, <3>1
  <2>4. QED BY <2>2, <2>3
<1>7. QED BY <1>1, <1>2, <1>5, <1>6 DEF filled

\* So do those of the object.
LEMMA FillType ==
  ASSUME TypeOK, CopiesEnabled, NEW p \in Page, NEW login \in Login \cup {NoLogin},
         dialog[p] # "none", Fill(p, login)
  PROVE  /\ object' \in [Page -> Object]
         /\ object'[p].login = login
         /\ DOMAIN items' = Page
         /\ \A q \in Page :
              /\ q # p => object'[q] = object[q]
              /\ dialog[q] = "edit" => object'[q].enabled
              /\ items'[q] \in [DOMAIN items'[q] -> Object]
              /\ DOMAIN items'[q] = DOMAIN items[q]
              /\ \A u \in DOMAIN items'[q] : items'[q][u].enabled
<1>1. /\ object' = [object EXCEPT ![p] = Filled(p, login)]
      /\ FillCopy(p, login)
  BY DEF Fill
<1>2. /\ Filled(p, login) \in Object
      /\ Filled(p, login).login = login
      /\ dialog[p] = "edit" => Filled(p, login).enabled
      /\ DOMAIN items' = Page
      /\ \A q \in Page :
           /\ items'[q] \in [DOMAIN items'[q] -> Object]
           /\ DOMAIN items'[q] = DOMAIN items[q]
           /\ \A u \in DOMAIN items'[q] : items'[q][u].enabled
  BY <1>1, FillCopyType
<1>3. object' \in [Page -> Object] /\ object'[p] = Filled(p, login)
  BY <1>1, <1>2 DEF TypeOK, ShapesOK
<1>4. ASSUME NEW q \in Page
      PROVE  /\ q # p => object'[q] = object[q]
             /\ dialog[q] = "edit" => object'[q].enabled
  <2>1. q # p => object'[q] = object[q]
    BY <1>1 DEF TypeOK, ShapesOK
  <2>2. QED BY <1>2, <1>3, <2>1 DEF CopiesEnabled
<1>5. QED BY <1>2, <1>3, <1>4

\* The row a save of an open edit dialog writes.
LEMMA MergedType ==
  ASSUME TypeOK, NEW p \in Page, busy[p], dialog[p] = "edit"
  PROVE  selected[p] \in User /\ Merged(p) \in Stored
<1>1. selected[p] \in User /\ object[p] \in Object /\ object[p].login \in Login
  BY DEF TypeOK, ShapesOK, PageOK
<1>2. rows[selected[p]] \in Stored
  BY <1>1 DEF TypeOK, TablesOK, User
<1>3. QED BY <1>1, <1>2 DEF Merged, Row, Stored, Object

(***************************************************************************)
(* Steps that leave the tables alone                                       *)
(***************************************************************************)
LEMMA InitIInv == Init => IInv
<1> SUFFICES ASSUME Init PROVE IInv
  OBVIOUS
<1>1. Row(Administrator, 0, TRUE) \in Stored
  BY MembersAssumption DEF Row, Stored
<1>2. NewUser \in Object
  BY MembersAssumption DEF NewUser, Row, Object
<1>3. TablesOK
  <2>1. ASSUME NEW r \in Stored PROVE << r >> \in Seq(Stored)
    OBVIOUS
  <2>2. rows \in Seq(Stored)
    BY <1>1, <2>1 DEF Init
  <2>3. entries \in Seq(Nat) /\ Len(entries) = 1 /\ Len(rows) = 1
    BY DEF Init
  <2>4. QED BY <2>2, <2>3 DEF TablesOK
<1>4. User = {1}
  BY <1>1 DEF Init, User
<1>5. ShapesOK
  BY <1>2 DEF Init, ShapesOK
<1>6. \A p \in Page : PageOK(p)
  BY DEF Init, PageOK
<1>7. LoginsUnique /\ CopiesEnabled
  BY <1>4 DEF Init, LoginsUnique, CopiesEnabled
<1>8. QED BY <1>3, <1>5, <1>6, <1>7 DEF IInv, TypeOK

LEMMA OpenIInv ==
  ASSUME IInv, NEW p \in Page, Open(p)
  PROVE  IInv'
<1>1. UNCHANGED <<rows, entries, dialog, selected, object, busy, base>> /\ Reload(p)
  BY DEF Open, table, form, saving
<1>2. User' = User
  BY <1>1 DEF User
<1>3. /\ DOMAIN items' = Page
      /\ linked' \in [Page -> BOOLEAN]
      /\ \A q \in Page :
           /\ items'[q] \in [DOMAIN items'[q] -> Object]
           /\ DOMAIN items'[q] \subseteq User'
           /\ \A u \in DOMAIN items'[q] : items'[q][u].enabled
           /\ linked'[q] => linked[q] /\ items'[q] = items[q]
  BY <1>1, <1>2, ReloadType DEF IInv, TypeOK, TablesOK
<1>4. TablesOK' /\ ShapesOK'
  BY <1>1, <1>2, <1>3 DEF IInv, TypeOK, TablesOK, ShapesOK
<1>5. \A q \in Page : PageOK(q)'
  BY <1>1, <1>2, <1>3 DEF IInv, TypeOK, PageOK
<1>6. LoginsUnique' /\ CopiesEnabled'
  BY <1>1, <1>2, <1>3 DEF IInv, LoginsUnique, CopiesEnabled
<1>7. QED BY <1>4, <1>5, <1>6 DEF IInv, TypeOK

LEMMA PrepareCreateIInv ==
  ASSUME IInv, NEW p \in Page, PrepareCreate(p)
  PROVE  IInv'
<1>1. UNCHANGED <<rows, entries, items, busy, base>> /\ ~busy[p]
  BY DEF PrepareCreate, Idle, table, saving
<1>2. User' = User
  BY <1>1 DEF User
<1>3. NewUser \in Object
  BY MembersAssumption DEF NewUser, Row, Object
<1>4. TablesOK' /\ ShapesOK'
  BY <1>1, <1>2, <1>3 DEF PrepareCreate, IInv, TypeOK, TablesOK, ShapesOK
<1>5. \A q \in Page : PageOK(q)'
  BY <1>1, <1>2 DEF PrepareCreate, IInv, TypeOK, ShapesOK, PageOK
<1>6. LoginsUnique' /\ CopiesEnabled'
  BY <1>1, <1>2
  DEF PrepareCreate, IInv, TypeOK, ShapesOK, LoginsUnique, CopiesEnabled
<1>7. QED BY <1>4, <1>5, <1>6 DEF IInv, TypeOK

LEMMA PrepareEditIInv ==
  ASSUME IInv, NEW p \in Page, NEW u \in DOMAIN items[p], PrepareEdit(p, u)
  PROVE  IInv'
<1>1. UNCHANGED <<rows, entries, items, busy, base>> /\ ~busy[p]
  BY DEF PrepareEdit, Idle, table, saving
<1>2. User' = User
  BY <1>1 DEF User
<1>3. u \in User /\ items[p][u] \in Object /\ items[p][u].enabled
  BY DEF IInv, TypeOK, PageOK, CopiesEnabled
<1>4. TablesOK' /\ ShapesOK'
  BY <1>1, <1>2, <1>3
  DEF PrepareEdit, IInv, TypeOK, TablesOK, ShapesOK
<1>5. \A q \in Page : PageOK(q)'
  BY <1>1, <1>2, <1>3 DEF PrepareEdit, IInv, TypeOK, ShapesOK, PageOK
<1>6. LoginsUnique' /\ CopiesEnabled'
  BY <1>1, <1>2, <1>3
  DEF PrepareEdit, IInv, TypeOK, ShapesOK, LoginsUnique, CopiesEnabled
<1>7. QED BY <1>4, <1>5, <1>6 DEF IInv, TypeOK

LEMMA CancelIInv ==
  ASSUME IInv, NEW p \in Page, Cancel(p)
  PROVE  IInv'
<1>1. UNCHANGED <<rows, entries, items, busy, base>> /\ ~busy[p] /\ Close(p)
  BY DEF Cancel, table, saving
<1>2. User' = User
  BY <1>1 DEF User
<1>3. NewUser \in Object
  BY MembersAssumption DEF NewUser, Row, Object
<1>4. TablesOK' /\ ShapesOK'
  BY <1>1, <1>2, <1>3 DEF Cancel, Close, IInv, TypeOK, TablesOK, ShapesOK
<1>5. \A q \in Page : PageOK(q)'
  BY <1>1, <1>2 DEF Cancel, Close, IInv, TypeOK, ShapesOK, PageOK
<1>6. LoginsUnique' /\ CopiesEnabled'
  BY <1>1, <1>2
  DEF Cancel, Close, IInv, TypeOK, ShapesOK, LoginsUnique, CopiesEnabled
<1>7. QED BY <1>4, <1>5, <1>6 DEF IInv, TypeOK

\* A form that is filled in and not saved, or whose save begins.
LEMMA FilledIInv ==
  ASSUME IInv, NEW p \in Page, NEW login \in Login \cup {NoLogin}, dialog[p] # "none",
         Fill(p, login), UNCHANGED <<table, dialog, selected, linked>>,
         busy' \in [Page -> BOOLEAN], base' \in [Page -> Object],
         \A q \in Page : q # p => busy'[q] = busy[q],
         busy'[p] => login \in Login
  PROVE  IInv'
<1>1. UNCHANGED <<rows, entries, dialog, selected, linked>> /\ User' = User
  BY DEF table, User
<1>2. /\ object' \in [Page -> Object]
      /\ object'[p].login = login
      /\ DOMAIN items' = Page
      /\ \A q \in Page :
           /\ q # p => object'[q] = object[q]
           /\ dialog[q] = "edit" => object'[q].enabled
           /\ items'[q] \in [DOMAIN items'[q] -> Object]
           /\ DOMAIN items'[q] = DOMAIN items[q]
           /\ \A u \in DOMAIN items'[q] : items'[q][u].enabled
  BY FillType DEF IInv
<1>3. TablesOK' /\ ShapesOK'
  BY <1>1, <1>2 DEF IInv, TypeOK, TablesOK, ShapesOK
<1>4. ASSUME NEW q \in Page PROVE PageOK(q)'
  <2>1. PageOK(q) BY DEF IInv, TypeOK
  <2>2. busy'[q] => dialog[q] # "none" /\ object'[q].login \in Login
    BY <1>2, <2>1 DEF PageOK
  <2>3. QED BY <1>1, <1>2, <2>1, <2>2 DEF PageOK
<1>5. LoginsUnique' /\ CopiesEnabled'
  BY <1>1, <1>2 DEF IInv, LoginsUnique, CopiesEnabled
<1>6. QED BY <1>3, <1>4, <1>5 DEF IInv, TypeOK

LEMMA RefuseIInv ==
  ASSUME IInv, NEW p \in Page, NEW login \in Login,
         RefusePassword(p, login) \/ RefuseLogin(p, login)
  PROVE  IInv'
<1>1. /\ dialog[p] # "none" /\ Fill(p, login)
      /\ UNCHANGED <<table, dialog, selected, linked, busy, base>>
  BY DEF RefusePassword, RefuseLogin, saving
<1>2. busy' \in [Page -> BOOLEAN] /\ base' \in [Page -> Object]
  BY <1>1 DEF IInv, TypeOK, ShapesOK
<1>3. \A q \in Page : q # p => busy'[q] = busy[q]
  BY <1>1
<1>4. QED BY <1>1, <1>2, <1>3, FilledIInv

\* Blanks stay in the list, and in the object unless the dialog closes.
LEMMA RefuseBlankIInv ==
  ASSUME IInv, NEW p \in Page, RefuseBlank(p)
  PROVE  IInv'
<1>1. /\ dialog[p] # "none" /\ ~busy[p] /\ FillCopy(p, NoLogin)
      /\ UNCHANGED <<rows, entries, table, busy, base>>
  BY DEF RefuseBlank, saving, table
<1>2. CASE Close(p) /\ linked' = [linked EXCEPT ![p] = FALSE]
  <2>1. User' = User
    BY <1>1 DEF User
  <2>2. NewUser \in Object
    BY MembersAssumption DEF NewUser, Row, Object
  <2>3. /\ DOMAIN items' = Page
        /\ \A q \in Page :
             /\ items'[q] \in [DOMAIN items'[q] -> Object]
             /\ DOMAIN items'[q] = DOMAIN items[q]
             /\ \A u \in DOMAIN items'[q] : items'[q][u].enabled
    BY <1>1, FillCopyType DEF IInv
  <2>4. TablesOK' /\ ShapesOK'
    BY <1>1, <1>2, <2>1, <2>2, <2>3 DEF Close, IInv, TypeOK, TablesOK, ShapesOK
  <2>5. \A q \in Page : PageOK(q)'
    BY <1>1, <1>2, <2>1, <2>3 DEF Close, IInv, TypeOK, ShapesOK, PageOK
  <2>6. LoginsUnique' /\ CopiesEnabled'
    BY <1>1, <1>2, <2>1, <2>3
    DEF Close, IInv, TypeOK, ShapesOK, LoginsUnique, CopiesEnabled
  <2>7. QED BY <2>4, <2>5, <2>6 DEF IInv, TypeOK
<1>3. CASE Fill(p, NoLogin) /\ UNCHANGED <<dialog, selected, linked>>
  <2>1. busy' \in [Page -> BOOLEAN] /\ base' \in [Page -> Object]
    BY <1>1 DEF IInv, TypeOK, ShapesOK
  <2>2. QED BY <1>1, <1>3, <2>1, FilledIInv
<1>4. QED BY <1>1, <1>2, <1>3 DEF RefuseBlank, Fill

LEMMA BeginSaveIInv ==
  ASSUME IInv, NEW p \in Page, NEW login \in Login, BeginSave(p, login)
  PROVE  IInv'
<1>1. /\ dialog[p] # "none" /\ Fill(p, login)
      /\ UNCHANGED <<table, dialog, selected, linked>>
  BY DEF BeginSave
<1>2. NewUser \in Object
  BY MembersAssumption DEF NewUser, Row, Object
<1>3. dialog[p] = "edit" => rows[selected[p]] \in Object
  <2>1. dialog[p] = "edit" => selected[p] \in User
    BY DEF IInv, TypeOK, PageOK
  <2>2. dialog[p] = "edit" => rows[selected[p]] \in Stored
    BY <2>1 DEF IInv, TypeOK, TablesOK, User
  <2>3. QED BY <2>2 DEF Stored, Object
<1>4. busy' \in [Page -> BOOLEAN] /\ base' \in [Page -> Object]
  BY <1>2, <1>3 DEF BeginSave, IInv, TypeOK, ShapesOK
<1>5. \A q \in Page : q # p => busy'[q] = busy[q]
  BY DEF BeginSave, IInv, TypeOK, ShapesOK
<1>6. QED BY <1>1, <1>4, <1>5, FilledIInv

(***************************************************************************)
(* Steps that write the tables                                             *)
(***************************************************************************)
\* A request of page p that ends with its list drawn again, whatever it did to
\* the tables: a save answered or refused by the key, or a removal.
LEMMA RedrawnIInv ==
  ASSUME IInv, NEW p \in Page, Reload(p), TablesOK', User \subseteq User',
         LoginsUnique',
         \/ EndSave(p) /\ (Close(p) \/ UNCHANGED form)
         \/ UNCHANGED <<form, saving>>
  PROVE  IInv'
<1>1. /\ DOMAIN items' = Page
      /\ linked' \in [Page -> BOOLEAN] /\ ~linked'[p]
      /\ \A q \in Page :
           /\ items'[q] \in [DOMAIN items'[q] -> Object]
           /\ DOMAIN items'[q] \subseteq User'
           /\ \A u \in DOMAIN items'[q] : items'[q][u].enabled
           /\ linked'[q] => linked[q] /\ items'[q] = items[q]
  BY ReloadType DEF IInv, TablesOK
<1>2. NewUser \in Object
  BY MembersAssumption DEF NewUser, Row, Object
<1>3. /\ busy' \in [Page -> BOOLEAN] /\ base' \in [Page -> Object]
      /\ \A q \in Page : busy'[q] => busy[q]
      /\ \A q \in Page : busy'[q] => \/ q # p
                                    \/ UNCHANGED form
  BY <1>2 DEF EndSave, saving, IInv, TypeOK, ShapesOK
<1>4. /\ dialog' \in [Page -> {"none", "create", "edit"}]
      /\ selected' \in [Page -> User \cup {0}]
      /\ object' \in [Page -> Object]
  BY <1>2 DEF Close, form, IInv, TypeOK, ShapesOK
<1>5. ASSUME NEW q \in Page
      PROVE  \/ /\ dialog'[q] = dialog[q] /\ selected'[q] = selected[q]
                /\ object'[q] = object[q]
             \/ /\ q = p /\ ~busy'[p]
                /\ dialog'[q] = "none" /\ selected'[q] = 0
  BY DEF Close, EndSave, form, IInv, TypeOK, ShapesOK
<1>6. ShapesOK'
  BY <1>1, <1>3, <1>4 DEF ShapesOK
<1>7. ASSUME NEW q \in Page PROVE PageOK(q)'
  <2>1. PageOK(q) BY DEF IInv, TypeOK
  <2>2. linked'[q] => selected'[q] \in DOMAIN items'[q]
    BY <1>1, <1>5, <2>1 DEF PageOK
  <2>3. /\ dialog'[q] # "edit" => selected'[q] = 0
        /\ dialog'[q] = "edit" => selected'[q] \in User'
        /\ busy'[q] => dialog'[q] # "none" /\ object'[q].login \in Login
    BY <1>3, <1>5, <2>1 DEF PageOK
  <2>4. QED BY <1>1, <2>2, <2>3 DEF PageOK
<1>8. CopiesEnabled'
  BY <1>1, <1>5 DEF IInv, CopiesEnabled
<1>9. QED BY <1>6, <1>7, <1>8 DEF IInv, TypeOK

LEMMA InsertIInv ==
  ASSUME IInv, NEW p \in Page, Insert(p)
  PROVE  IInv'
<1> DEFINE row == Row(object[p].login, 0, TRUE)
<1>1. row \in Stored /\ row.login = object[p].login
  BY DEF Insert, IInv, TypeOK, PageOK, Row, Stored
<1>2. rows' = Append(rows, row) /\ entries' = Append(entries, 0)
  BY DEF Insert
<1>3. rows \in Seq(Stored) /\ entries \in Seq(Nat) /\ Len(entries) = Len(rows)
  BY DEF IInv, TypeOK, TablesOK
<1>4. \A u \in User : rows[u].login # row.login
  <2>1. 0 \notin User
    BY <1>3 DEF User
  <2>2. QED BY <1>1, <2>1 DEF Insert, KeyFree
<1> HIDE DEF row
<1>5. TablesOK' /\ User \subseteq User'
  BY <1>1, <1>2, <1>3 DEF TablesOK, User
<1>6. ASSUME NEW u \in User', NEW v \in User', u # v
      PROVE  rows'[u].login # rows'[v].login
  <2>1. \A w \in User' : IF w \in User THEN rows'[w] = rows[w]
                          ELSE w = Len(rows) + 1 /\ rows'[w] = row
    BY <1>1, <1>2, <1>3 DEF User
  <2>2. QED BY <1>4, <1>6, <2>1 DEF IInv, LoginsUnique
<1>7. LoginsUnique'
  BY <1>6 DEF LoginsUnique
<1>8. QED BY <1>5, <1>7, RedrawnIInv DEF Insert, Answered

LEMMA UpdateIInv ==
  ASSUME IInv, NEW p \in Page, Update(p)
  PROVE  IInv'
<1> DEFINE u == selected[p]
           row == Merged(p)
<1>1. u \in User /\ row \in Stored
  BY MergedType DEF Update, IInv
<1>2. rows' = [rows EXCEPT ![u] = row] /\ entries' = entries
  BY DEF Update
<1>3. rows \in Seq(Stored) /\ entries \in Seq(Nat) /\ Len(entries) = Len(rows)
  BY DEF IInv, TypeOK, TablesOK
<1>4. \A v \in User \ {u} : rows[v].login # row.login
  BY DEF Update, KeyFree
<1> HIDE DEF u, row
<1>5. TablesOK' /\ User' = User
  BY <1>1, <1>2, <1>3 DEF TablesOK, User
<1>6. LoginsUnique'
  <2>1. \A v \in User : rows'[v] = IF v = u THEN row ELSE rows[v]
    BY <1>2, <1>3 DEF User
  <2>2. QED BY <1>4, <1>5, <2>1 DEF IInv, LoginsUnique
<1>7. QED BY <1>5, <1>6, RedrawnIInv DEF Update, Answered

LEMMA ViolateKeyIInv ==
  ASSUME IInv, NEW p \in Page, ViolateKey(p)
  PROVE  IInv'
<1>1. UNCHANGED <<rows, entries, form>> /\ EndSave(p) /\ Reload(p)
  BY DEF ViolateKey, table
<1>2. TablesOK' /\ User' = User /\ LoginsUnique'
  BY <1>1 DEF IInv, TypeOK, TablesOK, User, LoginsUnique
<1>3. QED BY <1>1, <1>2, RedrawnIInv

\* Steps that change a row but not its login.
LEMMA SameLogins ==
  ASSUME IInv, NEW u \in User, NEW row \in Stored, row.login = rows[u].login,
         rows' = [rows EXCEPT ![u] = row]
  PROVE  rows' \in Seq(Stored) /\ User' = User /\ Len(rows') = Len(rows)
         /\ LoginsUnique'
<1>1. rows \in Seq(Stored)
  BY DEF IInv, TypeOK, TablesOK
<1>2. rows' \in Seq(Stored) /\ User' = User /\ Len(rows') = Len(rows)
  BY <1>1 DEF User
<1>3. \A v \in User : rows'[v].login = rows[v].login
  BY <1>1 DEF User
<1>4. QED BY <1>2, <1>3 DEF IInv, LoginsUnique

LEMMA DestroyIInv ==
  ASSUME IInv, NEW p \in Page, NEW u \in DOMAIN items[p], Destroy(p, u)
  PROVE  IInv'
<1> DEFINE row == [rows[u] EXCEPT !.enabled = FALSE]
<1>1. u \in User
  BY DEF IInv, TypeOK, PageOK
<1>2. rows[u] \in Stored
  BY <1>1 DEF IInv, TypeOK, TablesOK, User
<1>3. row \in Stored /\ row.login = rows[u].login
  BY <1>2 DEF Stored
<1>4. rows' = rows \/ rows' = [rows EXCEPT ![u] = row]
  BY DEF Destroy
<1> HIDE DEF row
<1>5. UNCHANGED <<entries, form, saving>> /\ Reload(p)
  BY DEF Destroy
<1>6. TablesOK' /\ User' = User /\ LoginsUnique'
  <2>1. CASE rows' = rows
    BY <1>5, <2>1 DEF IInv, TypeOK, TablesOK, User, LoginsUnique
  <2>2. CASE rows' = [rows EXCEPT ![u] = row]
    BY <1>1, <1>3, <1>5, <2>2, SameLogins DEF IInv, TypeOK, TablesOK
  <2>3. QED BY <1>4, <2>1, <2>2
<1>7. QED BY <1>5, <1>6, RedrawnIInv

LEMMA PayIInv ==
  ASSUME IInv, NEW u \in User, Pay(u)
  PROVE  IInv'
<1> DEFINE row == [rows[u] EXCEPT !.balance = entries'[u]]
<1>1. /\ rows[u] \in Stored
      /\ entries \in Seq(Nat) /\ u \in DOMAIN entries
  BY DEF IInv, TypeOK, TablesOK, User
<1>2. entries' = [entries EXCEPT ![u] = entries[u] + 1]
  BY DEF Pay
<1>3. entries' \in Seq(Nat) /\ Len(entries') = Len(entries) /\ entries'[u] \in Nat
  BY <1>1, <1>2
<1>4. row \in Stored /\ row.login = rows[u].login
  BY <1>1, <1>3 DEF Stored
<1>5. rows' = [rows EXCEPT ![u] = row]
  BY DEF Pay
<1> HIDE DEF row
<1>6. TablesOK' /\ User' = User /\ LoginsUnique'
  BY <1>3, <1>4, <1>5, SameLogins DEF IInv, TypeOK, TablesOK
<1>7. UNCHANGED <<items, dialog, selected, object, linked, busy, base>>
  BY DEF Pay, form, saving
<1>8. ShapesOK' /\ CopiesEnabled'
  BY <1>6, <1>7 DEF IInv, TypeOK, ShapesOK, CopiesEnabled
<1>9. \A q \in Page : PageOK(q)'
  BY <1>6, <1>7 DEF IInv, TypeOK, PageOK
<1>10. QED BY <1>6, <1>8, <1>9 DEF IInv, TypeOK

LEMMA NextIInv ==
  ASSUME IInv, [Next]_vars
  PROVE  IInv'
<1>1. CASE UNCHANGED vars
  BY <1>1 DEF vars, IInv, TypeOK, TablesOK, ShapesOK, PageOK, LoginsUnique,
              CopiesEnabled, User
<1>2. ASSUME NEW p \in Page, Step(p) PROVE IInv'
  <2>1. CASE Open(p) BY <2>1, OpenIInv
  <2>2. CASE PrepareCreate(p) BY <2>2, PrepareCreateIInv
  <2>3. CASE \E u \in DOMAIN items[p] : PrepareEdit(p, u) \/ Destroy(p, u)
    BY <2>3, PrepareEditIInv, DestroyIInv
  <2>4. CASE Cancel(p) BY <2>4, CancelIInv
  <2>5. CASE \E login \in Login :
               RefusePassword(p, login) \/ RefuseLogin(p, login) \/ BeginSave(p, login)
    BY <2>5, RefuseIInv, BeginSaveIInv
  <2>6. CASE Insert(p) BY <2>6, InsertIInv
  <2>7. CASE Update(p) BY <2>7, UpdateIInv
  <2>8. CASE ViolateKey(p) BY <2>8, ViolateKeyIInv
  <2>9. CASE RefuseBlank(p) BY <2>9, RefuseBlankIInv
  <2>10. QED
    BY <1>2, <2>1, <2>2, <2>3, <2>4, <2>5, <2>6, <2>7, <2>8, <2>9 DEF Step
<1>3. ASSUME NEW u \in User, Pay(u) PROVE IInv'
  BY <1>3, PayIInv
<1>4. QED BY <1>1, <1>2, <1>3 DEF Next

\* The inductive invariant holds in every reachable state.
THEOREM Invariance == Spec => []IInv
<1>1. Init => IInv
  BY InitIInv
<1>2. IInv /\ [Next]_vars => IInv'
  BY NextIInv
<1>3. QED BY <1>1, <1>2, PTL DEF Spec

\* Every variable keeps its shape.
THEOREM TypeCorrect == Spec => []TypeOK
<1>1. IInv => TypeOK
  BY DEF IInv
<1>2. QED BY <1>1, Invariance, PTL

\* No two members ever have the same login: the check before the write may be
\* out of date, the key of the table is not.
THEOREM OneLoginOneMember == Spec => []LoginsUnique
<1>1. IInv => LoginsUnique
  BY DEF IInv
<1>2. QED BY <1>1, Invariance, PTL

(***************************************************************************)
(* Removals last                                                           *)
(***************************************************************************)
Forgotten(u) ==
  \A p \in Page : u \notin DOMAIN items[p] /\ ~(dialog[p] = "edit" /\ selected[p] = u)

LEMMA ForgottenHasNoCopies ==
  ASSUME NEW u PROVE Forgotten(u) => CopiesOf(u) = {}
  BY DEF Forgotten, CopiesOf

LEMMA OnlyDisabledCopies ==
  ASSUME IInv, NEW u, \A c \in CopiesOf(u) : ~c.enabled
  PROVE  Forgotten(u)
<1> SUFFICES ASSUME NEW p \in Page
             PROVE  u \notin DOMAIN items[p] /\ ~(dialog[p] = "edit" /\ selected[p] = u)
  BY DEF Forgotten
<1>1. u \in DOMAIN items[p] => items[p][u] \in CopiesOf(u)
  BY DEF CopiesOf
<1>2. dialog[p] = "edit" /\ selected[p] = u => object[p] \in CopiesOf(u)
  BY DEF CopiesOf
<1>3. QED BY <1>1, <1>2 DEF IInv, CopiesEnabled

\* A list that is drawn again does not show a member who is not enabled.
LEMMA RedrawnForgets ==
  ASSUME IInv, NEW p \in Page, NEW u, Reload(p), Forgotten(u),
         u \in User', ~rows'[u].enabled,
         Close(p) \/ UNCHANGED form
  PROVE  Forgotten(u)'
<1>1. u \notin DOMAIN FindAll(rows')
  BY DEF FindAll
<1>2. \A q \in Page : items'[q] = IF q = p THEN FindAll(rows') ELSE items[q]
  BY DEF Reload, IInv, TypeOK, ShapesOK
<1>3. \A q \in Page : dialog'[q] = "edit" => dialog[q] = "edit" /\ selected'[q] = selected[q]
  BY DEF Close, form, IInv, TypeOK, ShapesOK
<1>4. QED BY <1>1, <1>2, <1>3 DEF Forgotten

\* What no step can do to a removed member nobody has a copy of.
LEMMA GoneStep ==
  ASSUME IInv, [Next]_vars, NEW u \in User, ~rows[u].enabled, Forgotten(u)
  PROVE  ~rows'[u].enabled /\ Forgotten(u)'
<1> USE DEF Forgotten
<1>1. rows \in Seq(Stored) /\ u \in DOMAIN rows
  BY DEF IInv, TypeOK, TablesOK, User
<1>2. CASE UNCHANGED vars
  BY <1>2 DEF vars
<1>3. ASSUME NEW p \in Page, Step(p)
      PROVE  ~rows'[u].enabled /\ Forgotten(u)'
  <2>1. CASE Open(p)
    <3>1. UNCHANGED <<rows, form>> /\ Reload(p)
      BY <2>1 DEF Open, table
    <3>2. QED BY <1>1, <3>1, RedrawnForgets DEF User
  <2>2. CASE PrepareCreate(p) \/ Cancel(p)
    <3>1. UNCHANGED <<rows, items>>
      BY <2>2 DEF PrepareCreate, Cancel, table
    <3>2. \A q \in Page : dialog'[q] = "edit" =>
                             dialog[q] = "edit" /\ selected'[q] = selected[q]
      BY <2>2 DEF PrepareCreate, Cancel, Close, IInv, TypeOK, ShapesOK
    <3>3. QED BY <3>1, <3>2
  <2>3. ASSUME NEW v \in DOMAIN items[p], PrepareEdit(p, v)
        PROVE  ~rows'[u].enabled /\ Forgotten(u)'
    <3>1. UNCHANGED <<rows, items>> /\ v # u
      BY <2>3 DEF PrepareEdit, table
    <3>2. \A q \in Page : selected'[q] = IF q = p THEN v ELSE selected[q]
      BY <2>3 DEF PrepareEdit, IInv, TypeOK, ShapesOK
    <3>3. \A q \in Page : q # p => dialog'[q] = dialog[q]
      BY <2>3 DEF PrepareEdit, IInv, TypeOK, ShapesOK
    <3>4. QED BY <3>1, <3>2, <3>3
  <2>4. ASSUME NEW v \in DOMAIN items[p], Destroy(p, v)
        PROVE  ~rows'[u].enabled /\ Forgotten(u)'
    <3>1. /\ rows' = rows \/ rows' = [rows EXCEPT ![v].enabled = FALSE]
          /\ UNCHANGED form /\ Reload(p)
      BY <2>4 DEF Destroy
    <3>2. v # u
      BY <2>4
    <3>3. rows'[u] = rows[u] /\ u \in User'
      BY <1>1, <3>1, <3>2 DEF User
    <3>4. QED BY <3>1, <3>3, RedrawnForgets
  <2>5. ASSUME NEW login \in Login,
               RefusePassword(p, login) \/ RefuseLogin(p, login) \/ BeginSave(p, login)
        PROVE  ~rows'[u].enabled /\ Forgotten(u)'
    <3>1. UNCHANGED <<rows, dialog, selected>> /\ Fill(p, login) /\ dialog[p] # "none"
      BY <2>5 DEF RefusePassword, RefuseLogin, BeginSave, table
    <3>2. \A q \in Page : DOMAIN items'[q] = DOMAIN items[q]
      BY <3>1, FillType DEF IInv
    <3>3. QED BY <3>1, <3>2
  <2>6. CASE Insert(p)
    <3>1. PICK row \in Stored : rows' = Append(rows, row)
      <4>1. Row(object[p].login, 0, TRUE) \in Stored
        BY <2>6 DEF Insert, IInv, TypeOK, PageOK, Row, Stored
      <4>2. QED BY <2>6, <4>1 DEF Insert
    <3>2. Reload(p) /\ (Close(p) \/ UNCHANGED form)
      BY <2>6 DEF Insert, Answered
    <3>3. rows'[u] = rows[u] /\ u \in User'
      BY <1>1, <3>1 DEF User
    <3>4. QED BY <3>2, <3>3, RedrawnForgets
  <2>7. CASE Update(p)
    <3>1. /\ rows' = [rows EXCEPT ![selected[p]] = Merged(p)]
          /\ Reload(p) /\ (Close(p) \/ UNCHANGED form)
          /\ dialog[p] = "edit"
      BY <2>7 DEF Update, Answered
    <3>2. selected[p] # u
      BY <3>1
    <3>3. rows'[u] = rows[u] /\ u \in User'
      BY <1>1, <3>1, <3>2 DEF User
    <3>4. QED BY <3>1, <3>3, RedrawnForgets
  <2>8. CASE ViolateKey(p)
    <3>1. UNCHANGED <<rows, form>> /\ Reload(p)
      BY <2>8 DEF ViolateKey, table
    <3>2. QED BY <1>1, <3>1, RedrawnForgets DEF User
  <2>9. CASE RefuseBlank(p)
    <3>1. UNCHANGED rows /\ FillCopy(p, NoLogin) /\ dialog[p] # "none"
      BY <2>9 DEF RefuseBlank, table
    <3>2. \A q \in Page : DOMAIN items'[q] = DOMAIN items[q]
      BY <3>1, FillCopyType DEF IInv
    <3>3. \A q \in Page : dialog'[q] = "edit" =>
                             dialog[q] = "edit" /\ selected'[q] = selected[q]
      BY <2>9 DEF RefuseBlank, Close, IInv, TypeOK, ShapesOK
    <3>4. QED BY <3>1, <3>2, <3>3
  <2>10. QED
    BY <1>3, <2>1, <2>2, <2>3, <2>4, <2>5, <2>6, <2>7, <2>8, <2>9 DEF Step
<1>4. ASSUME NEW v \in User, Pay(v)
      PROVE  ~rows'[u].enabled /\ Forgotten(u)'
  <2>1. v # u /\ UNCHANGED <<items, dialog, selected>>
    BY <1>4 DEF Pay, form
  <2>2. rows'[u] = rows[u]
    BY <1>1, <1>4, <2>1 DEF Pay
  <2>3. QED BY <2>1, <2>2
<1>5. QED BY <1>2, <1>3, <1>4 DEF Next

\* A removed member of whom no page holds a copy from before his removal never
\* comes back, and no page gets a copy of him again.
THEOREM RemovalsLast == Spec => GoneForGood
<1> DEFINE Last == \A u \in User :
      ~rows[u].enabled /\ (\A c \in CopiesOf(u) : ~c.enabled)
        => ~rows'[u].enabled /\ CopiesOf(u)' = {}
<1>1. IInv /\ [Next]_vars => Last
  <2> SUFFICES ASSUME IInv, [Next]_vars, NEW u \in User, ~rows[u].enabled,
                      \A c \in CopiesOf(u) : ~c.enabled
               PROVE  ~rows'[u].enabled /\ CopiesOf(u)' = {}
    OBVIOUS
  <2>1. Forgotten(u)
    BY OnlyDisabledCopies
  <2>2. ~rows'[u].enabled /\ Forgotten(u)'
    BY <2>1, GoneStep
  <2>3. CopiesOf(u)' = {}
    BY <2>2 DEF Forgotten, CopiesOf
  <2>4. QED BY <2>2, <2>3
<1>2. Spec => [][Last]_vars
  BY <1>1, Invariance, PTL DEF Spec
<1>3. QED BY <1>2 DEF GoneForGood

(***************************************************************************)
(* Fresh copies do no harm                                                 *)
(***************************************************************************)
Fresh(u) == \A c \in CopiesOf(u) : c.balance = rows[u].balance

LEMMA ExactStep ==
  ASSUME IInv, [Next]_vars, NEW u \in User, Exact(u), Fresh(u)
  PROVE  Exact(u)'
<1>1. /\ rows \in Seq(Stored) /\ u \in DOMAIN rows
      /\ entries \in Seq(Nat) /\ u \in DOMAIN entries
  BY DEF IInv, TypeOK, TablesOK, User
<1>2. CASE UNCHANGED table
  BY <1>2 DEF table, Exact
<1>3. ASSUME NEW p \in Page, NEW v \in DOMAIN items[p], Destroy(p, v)
      PROVE  Exact(u)'
  <2>1. /\ entries' = entries
        /\ rows' = rows \/ rows' = [rows EXCEPT ![v].enabled = FALSE]
    BY <1>3 DEF Destroy
  <2>2. rows'[u] = rows[u] \/ rows'[u] = [rows[u] EXCEPT !.enabled = FALSE]
    BY <1>1, <2>1
  <2>3. rows[u] \in Stored
    BY <1>1
  <2>4. rows'[u].balance = rows[u].balance
    BY <2>2, <2>3 DEF Stored
  <2>5. QED BY <2>1, <2>4 DEF Exact
<1>4. ASSUME NEW p \in Page, Insert(p) PROVE Exact(u)'
  <2>1. PICK row \in Stored : rows' = Append(rows, row)
    <3>1. Row(object[p].login, 0, TRUE) \in Stored
      BY <1>4 DEF Insert, IInv, TypeOK, PageOK, Row, Stored
    <3>2. QED BY <1>4, <3>1 DEF Insert
  <2>2. rows'[u] = rows[u]
    BY <1>1, <2>1
  <2>3. entries'[u] = entries[u]
    BY <1>1, <1>4 DEF Insert
  <2>4. QED BY <2>2, <2>3 DEF Exact
<1>5. ASSUME NEW p \in Page, Update(p) PROVE Exact(u)'
  <2>1. /\ rows' = [rows EXCEPT ![selected[p]] = Merged(p)] /\ entries' = entries
        /\ dialog[p] = "edit"
    BY <1>5 DEF Update
  <2>2. CASE selected[p] = u
    <3>1. object[p].balance = rows[u].balance
      BY <2>1, <2>2 DEF Fresh, CopiesOf
    <3>2. Merged(p).balance = rows[u].balance
      BY <2>2, <3>1 DEF Merged, Row
    <3>3. rows'[u] = Merged(p)
      BY <1>1, <2>1, <2>2
    <3>4. QED BY <2>1, <3>2, <3>3 DEF Exact
  <2>3. CASE selected[p] # u
    BY <1>1, <2>1, <2>3 DEF Exact
  <2>4. QED BY <2>2, <2>3
<1>6. ASSUME NEW v \in User, Pay(v) PROVE Exact(u)'
  <2>1. /\ entries' = [entries EXCEPT ![v] = entries[v] + 1]
        /\ rows' = [rows EXCEPT ![v].balance = entries'[v]]
    BY <1>6 DEF Pay
  <2>2. CASE v = u
    <3>1. rows[u] \in Stored /\ rows'[u] = [rows[u] EXCEPT !.balance = entries'[u]]
      BY <1>1, <2>1, <2>2
    <3>2. QED BY <3>1 DEF Exact, Stored
  <2>3. CASE v # u
    BY <1>1, <2>1, <2>3 DEF Exact
  <2>4. QED BY <2>2, <2>3
<1>7. \/ UNCHANGED table
      \/ \E p \in Page : \/ \E v \in DOMAIN items[p] : Destroy(p, v)
                         \/ Insert(p) \/ Update(p)
      \/ \E v \in User : Pay(v)
  BY DEF Next, Step, vars, table, Open, PrepareCreate, PrepareEdit, Cancel,
         RefusePassword, RefuseBlank, RefuseLogin, BeginSave, ViolateKey
<1>8. QED BY <1>2, <1>3, <1>4, <1>5, <1>6, <1>7

\* While every copy of a member that a page holds shows his stored balance, no
\* save of a page and no payment separates the balance from the history.
THEOREM FreshCopiesKeepBalances == Spec => ExactWhileFresh
<1> DEFINE Kept == \A u \in User :
      Exact(u) /\ (\A c \in CopiesOf(u) : c.balance = rows[u].balance) => Exact(u)'
<1>1. IInv /\ [Next]_vars => Kept
  BY ExactStep DEF Fresh
<1>2. Spec => [][Kept]_vars
  BY <1>1, Invariance, PTL DEF Spec
<1>3. QED BY <1>2 DEF ExactWhileFresh

=============================================================================
