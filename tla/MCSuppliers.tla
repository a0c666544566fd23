----------------------------- MODULE MCSuppliers -----------------------------
(* The daybook's app: one supplier's account beside a daybook with the      *)
(* payments of one order, and the attendance sheet and the meal plan.  The  *)
(* two share no state, so a behaviour is of the one or of the other.        *)
EXTENDS Suppliers, Attendance

Owing == {-1, 0, 1}

BooksOnly == SheetInit /\ UNCHANGED sheetVars
SheetOnly == BooksInit /\ UNCHANGED booksVars

BooksStep == BooksNext /\ BooksOnly

LookStep == SheetOnly /\ \E e \in Editors, x \in Entries : \E wanted \in Values(x) : Look(e, x, wanted)
WriteStep == SheetOnly /\ \E e \in Editors, answered \in BOOLEAN : WriteEntry(e, answered)
LeaveStep == SheetOnly /\ \E e \in Editors : Leave(e)
StaffedStep == SheetOnly /\ \E c \in Cells : Staffed(c)
ArchivedStep == SheetOnly /\ \E p \in Products : Archived(p)

MCNext == BooksStep \/ LookStep \/ WriteStep \/ LeaveStep \/ StaffedStep \/ ArchivedStep

MCInit == BooksInit /\ SheetInit

MCSpec == MCInit /\ [][MCNext]_<<booksVars, sheetVars>>
=============================================================================
