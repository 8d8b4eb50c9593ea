--------------------------- MODULE HandlerRegistry ---------------------------
(***************************************************************************)
(* What the handler registry promises (spec.md 4.2): register(pattern,     *)
(* handler) is one atomic step that creates the pattern's entry, at the    *)
(* end of the registration order, if it has none, and appends the handler *)
(* to the entry's list.  Entries are never removed and handlers never      *)
(* reordered.                                                              *)
(***************************************************************************)
EXTENDS Naturals, Sequences

CONSTANTS Patterns, Handlers

VARIABLES keys,      \* the registered patterns, in registration order
          handlers   \* pattern -> its handlers, in registration order

regVars == <<keys, handlers>>

RegInit ==
    /\ keys = <<>>
    /\ handlers = [p \in Patterns |-> <<>>]

Register(p, h) ==
    /\ IF \E i \in 1..Len(keys) : keys[i] = p
       THEN UNCHANGED keys
       ELSE keys' = Append(keys, p)
    /\ handlers' = [handlers EXCEPT ![p] = Append(@, h)]

RegNext == \E p \in Patterns, h \in Handlers : Register(p, h)

RegSpec == RegInit /\ [][RegNext]_regVars
=============================================================================
