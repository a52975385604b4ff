----------------------------- MODULE MCCarriers -----------------------------
\* Carriers on a small instance: see the .cfg file for the bounds.
EXTENDS Carriers

CONSTANTS c1, c2, u1, u2, u3, r1, r2

MCCarrier == {c1, c2}
MCUser == {u1, u2, u3}
MCRequest == {r1, r2}

\* An administrator, an owner, and API tokens that may write one carrier each.
MCCaller ==
    {[user |-> u1, admin |-> TRUE, full |-> FALSE, write |-> {}],
     [user |-> u2, admin |-> FALSE, full |-> FALSE, write |-> {}],
     [user |-> u3, admin |-> FALSE, full |-> FALSE, write |-> {c1}],
     [user |-> u3, admin |-> FALSE, full |-> FALSE, write |-> {c2}]}

Body(market, name, callsign, services, access, fuel, owner) ==
    [marketID |-> market, name |-> name, callsign |-> callsign, location |-> "Sol",
     services |-> services, access |-> access, fuel |-> fuel, owner |-> owner]

\* Bodies that compete for market ids and callsigns and differ in the rest.
MCNewCarriers ==
    {Body("m1", "A", "k1", <<"Refuel", "Refuel">>, "all", 500, u2),
     Body("m2", "B", "k2", <<>>, "all", 900, Nobody)}

\* PUT leaves the history, PATCH gives it; a PATCH looks for its market id only.
MCOverrides == {Body("m1", "B", "k2", <<"Refuel">>, "none", 900, Nobody)}
MCPatches ==
    {[marketID |-> "m2", services |-> <<>>, owner |-> u2, access |-> "all",
      history |-> <<"Achenar">>]}

MCLocation == {"Sol", "Achenar"}
MCAccess == {"all"}
MCService == {"Refuel"}

\* The carriers are alike: no body names one, and each has its token.
MCSymmetry == Permutations(Request) \cup Permutations(Carrier)
==============================================================================
