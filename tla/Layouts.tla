------------------------------ MODULE Layouts ------------------------------
(***************************************************************************)
(* What the gestures leave on the screen of the reservations page: Gestures *)
(* with the columns its timed events are placed in.                        *)
(***************************************************************************)
EXTENDS Gestures, SlotColumns

Column(c) == ColumnOf(TimedEvents(events), DateOf([row |-> 0, col |-> c]))

\* Every event can be seen and taken with the mouse: up to eight of them in a column,
\* what is drawn over one, and shares time with it, starts further right; up to five
\* stand side by side. With six computeSlotSegCoords may leave one wider than what
\* stands in front of it allows, with nine it may begin one behind the left edge of
\* what is drawn over it.
LeftEdgeFree ==
  Mouse = "none" /\ ~ IsMonth =>
    \A c \in 0..Grid.colCnt - 1 :
      LET column == Column(c)
          box(i) == Box(column[i], RowPx)
      IN  \A i, j \in DOMAIN column :
            i < j /\ IsSlotSegCollision(column[i].seg, column[j].seg) =>
              /\ 0 <= box(i).left /\ (Len(column) <= 8 => box(i).left < box(j).left)
              /\ box(i).top < box(i).bottom
              /\ Len(column) <= 5 => column[i].coords.forward <= column[j].coords.backward

=============================================================================
