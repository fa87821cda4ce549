----------------------------- MODULE StreamSpec -----------------------------
(***************************************************************************)
(* What a stream promises, without its representation: IDs only grow,      *)
(* entries leave and never come back, a group hands out the entries after  *)
(* its position in order and none twice, and remembers what it handed out  *)
(* until it is acknowledged.                                               *)
(***************************************************************************)
EXTENDS Integers, FiniteSets

CONSTANTS Keys, None

VARIABLE val   \* key -> [entries, last, groups : name -> [last, pend]] or None

Init == \A k \in Keys : val[k] # None => \A id \in val[k].entries : id <= val[k].last

Created(x, y) ==
    /\ x = None /\ y # None
    /\ Cardinality(y.entries) <= 1 /\ \A id \in y.entries : id <= y.last
    /\ \A g \in DOMAIN y.groups : y.groups[g].pend = {}

\* Entries and references to entries leave.
Shed(x, y) ==
    /\ DOMAIN y.groups = DOMAIN x.groups
    /\ \A g \in DOMAIN x.groups : /\ y.groups[g].last = x.groups[g].last
                                  /\ y.groups[g].pend \subseteq x.groups[g].pend

Add(x, y) == y.last > x.last /\ y.entries \subseteq x.entries \cup {y.last} /\ Shed(x, y)

Remove(x, y) == y.last = x.last /\ y.entries \subseteq x.entries /\ Shed(x, y)

Deliver(x, a, b) ==
    LET new == {id \in x.entries : a.last < id /\ id <= b.last}
    IN  /\ new # {} /\ b.last \in new
        /\ b.pend = a.pend \/ (b.pend = a.pend \cup new /\ a.pend \cap new = {})

Claim(x, a, b) == b.last = a.last /\ b.pend \ a.pend \subseteq x.entries /\ (a.pend \ b.pend) \cap x.entries = {}

GroupStep(x, y) ==
    /\ y.entries = x.entries /\ y.last = x.last
    /\ \E g \in DOMAIN x.groups \cup DOMAIN y.groups :
         /\ \A h \in (DOMAIN x.groups \cup DOMAIN y.groups) \ {g} :
              h \in DOMAIN x.groups /\ h \in DOMAIN y.groups /\ x.groups[h] = y.groups[h]
         /\ \/ g \notin DOMAIN x.groups /\ y.groups[g].pend = {}
            \/ g \notin DOMAIN y.groups
            \/ /\ g \in DOMAIN x.groups /\ g \in DOMAIN y.groups
               /\ \/ x.groups[g].pend = y.groups[g].pend
                  \/ Deliver(x, x.groups[g], y.groups[g])
                  \/ Claim(x, x.groups[g], y.groups[g])

Step(x, y) ==
    \/ y = None
    \/ Created(x, y)
    \/ x # None /\ y # None /\ (Add(x, y) \/ Remove(x, y) \/ GroupStep(x, y))

Moved ==
    \E k, to \in Keys : /\ k # to /\ val[k] # None
                        /\ val' = [val EXCEPT ![to] = val[k], ![k] = None]

Next == (\A k \in Keys : LET x == val[k]
                              y == val'[k]
                          IN  x = y \/ Step(x, y))
        \/ Moved

Spec == Init /\ [][Next]_val
=============================================================================
