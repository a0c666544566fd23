----------------------------- MODULE Attendance -----------------------------
(***************************************************************************)
(* The staff's attendance sheet and the outlet's weekly meal plan (khaja). *)
(* Both are grids that several people edit on screens that may be out of   *)
(* date, and send again what was not answered: an entry is written only    *)
(* from the revision its editor saw.                                       *)
(*                                                                         *)
(* row[x]       the value of entry x, its revision (0: no row), and who    *)
(*              wrote it last; an entry is a cell of the sheet or a day    *)
(* trail[c]     the StaffAttendanceChange rows of a cell                   *)
(* working      the cells whose employee is active at the outlet           *)
(* offered      products that are not archived                             *)
(* editor[e]    what an editor saw, and what it asks for                   *)
(***************************************************************************)
EXTENDS Naturals, Sequences

CONSTANTS
  Cells, Days, Editors, Products,
  Statuses, Unmarked,  \* of a cell; none is a set
  Nobody,
  MaxRevision          \* bound: writes of an entry

ASSUME AttendanceAssumption ==
  Unmarked \in Statuses /\ Nobody \notin Editors \cup Cells \cup Days /\ MaxRevision \in Nat

Entries == Cells \cup Days
Values(x) == IF x \in Cells THEN Statuses ELSE SUBSET Products

VARIABLES row, trail, working, offered, editor

sheetVars == <<row, trail, working, offered, editor>>

Unwritten(x) == [value |-> IF x \in Cells THEN Unmarked ELSE {}, revision |-> 0, by |-> Nobody]
Away == [entry |-> Nobody, value |-> Unmarked, revision |-> 0, wanted |-> Unmarked]

SheetTypeOK ==
  /\ \A x \in Entries :
       row[x] \in [value: Values(x), revision: 0..MaxRevision, by: Editors \cup {Nobody}]
  /\ \A c \in Cells :
       trail[c] \in Seq([previous: Statuses, status: Statuses, by: Editors])
  /\ working \subseteq Cells /\ offered \subseteq Products
  /\ \A e \in Editors : editor[e] = Away \/ editor[e].entry \in Entries

SheetInit ==
  /\ row = [x \in Entries |-> Unwritten(x)]
  /\ trail = [c \in Cells |-> <<>>]
  /\ working = Cells /\ offered = Products
  /\ editor = [e \in Editors |-> Away]

-----------------------------------------------------------------------------

\* schedule_data: an entry without a row has revision 0.
Seen(x, wanted) ==
  [entry |-> x, value |-> row[x].value, revision |-> row[x].revision, wanted |-> wanted]

\* The screen is loaded (month_data), and what the editor then asks for.
Look(e, x, wanted) ==
  /\ editor[e] = Away
  /\ editor' = [editor EXCEPT ![e] = Seen(x, wanted)]
  /\ UNCHANGED <<row, trail, working, offered>>

\* A request that was carried out already is answered as such.
Repeats(e) ==
  LET x == editor[e].entry IN row[x].revision > 0 /\ row[x].value = editor[e].wanted

Fault_AnyRevision(e) == TRUE

Current(e) == editor[e].revision = row[editor[e].entry].revision

\* A first mark needs an active employee of the outlet; a product is put on the plan only
\* from the menu, and may stay on it once it is archived.
Choosable(e) ==
  LET x == editor[e].entry IN
  IF x \in Cells THEN row[x].revision > 0 \/ x \in working
                 ELSE editor[e].wanted \ row[x].value \subseteq offered

Writable(e) == ~Repeats(e) /\ Current(e) /\ Choosable(e)

\* save_attendance and save_day, under the outlet's lock.  Without an answer the editor
\* sends the same request again.
WriteEntry(e, answered) ==
  LET x == editor[e].entry
      wanted == editor[e].wanted IN
  /\ x # Nobody /\ Writable(e) /\ row[x].revision < MaxRevision
  /\ row' = [row EXCEPT ![x] = [value |-> wanted, revision |-> @.revision + 1, by |-> e]]
  /\ trail' = IF x \notin Cells THEN trail
              ELSE [trail EXCEPT ![x] = Append(@,
                     [previous |-> row[x].value, status |-> wanted, by |-> e])]
  /\ editor' = IF answered THEN [editor EXCEPT ![e] = Away] ELSE editor
  /\ UNCHANGED <<working, offered>>

\* The request is refused or answered from the row, or the editor is closed.
Leave(e) ==
  /\ editor[e] # Away
  /\ editor' = [editor EXCEPT ![e] = Away]
  /\ UNCHANGED <<row, trail, working, offered>>

\* Employees leave and return; products are archived and restored.
Staffed(c) ==
  /\ working' = IF c \in working THEN working \ {c} ELSE working \cup {c}
  /\ UNCHANGED <<row, trail, offered, editor>>

Archived(p) ==
  /\ offered' = IF p \in offered THEN offered \ {p} ELSE offered \cup {p}
  /\ UNCHANGED <<row, trail, working, editor>>

SheetNext ==
  \/ \E e \in Editors :
       \/ \E x \in Entries : \E wanted \in Values(x) : Look(e, x, wanted)
       \/ \E answered \in BOOLEAN : WriteEntry(e, answered)
       \/ Leave(e)
  \/ \E c \in Cells : Staffed(c)
  \/ \E p \in Products : Archived(p)

SheetSpec == SheetInit /\ [][SheetNext]_sheetVars

-----------------------------------------------------------------------------
(* Properties.                                                             *)

\* The changes of a cell lead from unmarked to what it says, without a gap.
TrailLeadsHere ==
  \A c \in Cells :
    LET Before(i) == IF i = 1 THEN Unmarked ELSE trail[c][i - 1].status IN
    /\ \A i \in 1..Len(trail[c]) : trail[c][i].previous = Before(i)
    /\ row[c].value = Before(Len(trail[c]) + 1)

\* Nobody overwrites what they did not see: an entry is changed only from the value that
\* its editor was shown, also by a request that is sent again after others have edited
\* the entry; and the trail of a cell leads to what it says (save_attendance, save_day).
EditsSeen ==
  /\ []TrailLeadsHere
  /\ [][\A x \in Entries : row'[x] # row[x] =>
          LET e == row'[x].by IN editor[e].entry = x /\ editor[e].value = row[x].value]_sheetVars
=============================================================================
