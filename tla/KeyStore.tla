------------------------------ MODULE KeyStore ------------------------------
(***************************************************************************)
(* What the components of the middleware may expect of the configuration   *)
(* file, and nothing about files: each has a key of its own, a value put   *)
(* under it is taken at one moment or not at all, and whoever is told that *)
(* it was stored finds it stored; nobody's key changes but by its own      *)
(* doing, and a process that dies changes none.                            *)
(*                                                                         *)
(* The promise has three exceptions.  Who is misled was told of a value    *)
(* that a failure kept from being stored, and may have lost its old one.   *)
(* A process that dies after a value was taken and before that was said    *)
(* leaves the store adrift: everything is still there, but the next value  *)
(* starts the store anew.  And nothing is promised any more once two       *)
(* components have got in each other's way, or a failure cost other keys.  *)
(***************************************************************************)
CONSTANTS
  Components,
  Values,
  Erased      (* the value of a key that was erased, or never stored       *)

VARIABLES
  keys,       (* the value stored under each component's key               *)
  asked,      (* each component's call: there is none, asked, or taken     *)
  wish,       (* the value it asked for                                    *)
  told,       (* the value it was last told is stored                      *)
  misled,     (* those who were told so although it is not                 *)
  adrift,     (* what is stored will be lost with the next value           *)
  collided    (* two components got in each other's way, or all is lost    *)

keyVars == <<keys, asked, wish, told, misled, adrift, collided>>

Init ==
  /\ keys = [c \in Components |-> Erased]
  /\ asked = [c \in Components |-> "none"]
  /\ wish = [c \in Components |-> Erased]
  /\ told = [c \in Components |-> Erased]
  /\ misled = {} /\ adrift = FALSE /\ collided = FALSE

Ask(c, v) ==
  /\ asked[c] = "none"
  /\ asked' = [asked EXCEPT ![c] = "asked"] /\ wish' = [wish EXCEPT ![c] = v]
  /\ UNCHANGED <<keys, told, misled, adrift>>

Take(c) ==
  /\ asked[c] = "asked" /\ ~adrift
  /\ keys' = [keys EXCEPT ![c] = wish[c]]
  /\ asked' = [asked EXCEPT ![c] = "taken"]
  /\ UNCHANGED <<wish, told, misled, adrift>>

Answered(c) == asked' = [asked EXCEPT ![c] = "none"] /\ wish' = [wish EXCEPT ![c] = Erased]
Tell(c) == Answered(c) /\ told' = [told EXCEPT ![c] = wish[c]]

\* The answer that the value is stored: it was taken, or is at this moment.
Stored(c) ==
  /\ asked[c] # "none" /\ ~adrift
  /\ keys' = IF asked[c] = "asked" THEN [keys EXCEPT ![c] = wish[c]] ELSE keys
  /\ Tell(c) /\ misled' = misled \ {c}
  /\ UNCHANGED adrift

\* The answer that it is not: nothing was taken.
NotStored(c) ==
  /\ asked[c] = "asked" /\ Answered(c)
  /\ UNCHANGED <<keys, told, misled, adrift>>

\* The same answer for a value that is not, or not all of it.
Mislead(c) ==
  /\ asked[c] = "asked"
  /\ \/ UNCHANGED keys
     \/ ~adrift /\ \E v \in Values \cup {Erased} : keys' = [keys EXCEPT ![c] = v]
  /\ Tell(c) /\ misled' = misled \cup {c}
  /\ UNCHANGED adrift

\* Adrift, the store is started anew for a value.
Renew(c) ==
  /\ adrift /\ asked[c] = "asked" /\ wish[c] # Erased
  /\ keys' = [d \in Components |-> Erased]
  /\ adrift' = FALSE
  /\ UNCHANGED <<asked, wish, told, misled>>

Die ==
  /\ asked' = [c \in Components |-> "none"]
  /\ wish' = [c \in Components |-> Erased]
  /\ adrift' = (adrift \/ \E c \in Components : asked[c] = "taken")
  /\ UNCHANGED <<keys, told, misled>>

Step(c) ==
  \/ \E v \in Values \cup {Erased} : Ask(c, v)
  \/ Take(c) \/ Stored(c) \/ NotStored(c) \/ Mislead(c) \/ Renew(c)

Next ==
  \/ (Die \/ \E c \in Components : Step(c)) /\ UNCHANGED collided
  \/ collided' = TRUE

Spec == Init /\ [][Next]_keyVars

=============================================================================
