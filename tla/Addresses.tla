----------------------------- MODULE Addresses -----------------------------
(***************************************************************************)
(* The delivery addresses of one customer.  Every change holds the         *)
(* customer's row, so it is one step; what makes it delicate is that the   *)
(* same creation may arrive again, early or late, and that one address is  *)
(* the default while others come and go.                                   *)
(*                                                                         *)
(* address      the rows of CustomerAddress in the order of their ids:     *)
(*              where it is (label, text and coordinates together),        *)
(*              whether it is the default and, a ghost, whether it was     *)
(*              ever edited                                                *)
(* declined     ghost: a request said that the default shall not be the    *)
(*              default, and there has been none since                     *)
(***************************************************************************)
EXTENDS Naturals, SequencesExt

CONSTANTS
  Places,
  MaxAddresses      \* 20 in the code

ASSUME AddressesAssumption == MaxAddresses \in Nat

VARIABLES address, declined

book == <<address, declined>>

AddressRow == [place: Places, default: BOOLEAN, edited: BOOLEAN]

\* What a request says of is_default; a field it leaves out keeps its value.
Wish == {"yes", "no", "unsaid"}

AddressesTypeOK ==
  /\ Len(address) <= MaxAddresses /\ Range(address) \subseteq AddressRow
  /\ declined \in BOOLEAN

AddressesInit == address = <<>> /\ declined = FALSE

HasDefault(rows) == \E n \in DOMAIN rows : rows[n].default

\* The first row as the database orders them: the default, then by id.
Foremost(rows) ==
  CHOOSE n \in rows : \A m \in rows \ {n} :
    IF address[n].default # address[m].default THEN address[n].default ELSE n < m

Twins(place) == {n \in DOMAIN address : address[n].place = place}

Becomes(was, wish) == address = <<>> \/ wish = "yes" \/ (wish = "unsaid" /\ was)

\* A new default takes over from the old one.
Written(n, row) ==
  [m \in DOMAIN address |-> IF m = n THEN row
                            ELSE IF row.default THEN [address[m] EXCEPT !.default = FALSE]
                            ELSE address[m]]

SaveAddress(n, place, wish) ==
  /\ address' = Written(n, [place |-> place, default |-> Becomes(address[n].default, wish),
                            edited |-> address[n].edited \/ place # address[n].place])
  /\ declined' = ((declined \/ address[n].default) /\ ~HasDefault(address'))

Fault_TwinsIgnored(place) == TRUE

\* Whether a creation makes a row, or finds the one an earlier copy of it made.
IsNewPlace(place) == Twins(place) = {}

\* POST, save_address without an id.
AddAddress(place, wish) ==
  \/ /\ IsNewPlace(place)
     /\ Len(address) < MaxAddresses
     /\ LET row == [place |-> place, default |-> Becomes(FALSE, wish), edited |-> FALSE]
        IN /\ address' = Append(Written(0, row), row)
           /\ declined' = (declined /\ ~row.default)
  \/ /\ ~IsNewPlace(place)
     /\ SaveAddress(Foremost(Twins(place)), place, wish)

\* PATCH, save_address with an id.
EditAddress(n, place, wish) ==
  /\ n \in DOMAIN address
  /\ SaveAddress(n, place, wish)

\* What is left without n: the foremost row inherits the default.
Without(n) ==
  LET rest == DOMAIN address \ {n}
      heirs == IF address[n].default /\ rest # {} THEN {Foremost(rest)} ELSE {}
  IN RemoveAt([m \in DOMAIN address |-> [address[m] EXCEPT !.default = @ \/ m \in heirs]], n)

DeleteAddress(n) ==
  /\ n \in DOMAIN address
  /\ address' = Without(n)
  /\ declined' = (declined /\ Len(address) > 1)

AddressesNext ==
  \/ \E place \in Places, wish \in Wish : AddAddress(place, wish)
  \/ \E n \in DOMAIN address :
       DeleteAddress(n) \/ \E place \in Places, wish \in Wish : EditAddress(n, place, wish)

-----------------------------------------------------------------------------

\* However often a creation arrives, its address is there once, unless the customer made
\* another one equal to it.  There are never two defaults, which the database would refuse,
\* and one as long as there is an address, unless a request declined it (save_address,
\* delete_address, customer_one_default_address).
AddedOnce ==
  /\ \A n, m \in DOMAIN address : n # m =>
       /\ address[n].place = address[m].place => address[n].edited \/ address[m].edited
       /\ ~(address[n].default /\ address[m].default)
  /\ HasDefault(address) \/ address = <<>> \/ declined
=============================================================================
