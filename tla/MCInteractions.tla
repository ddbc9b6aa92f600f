--------------------------- MODULE MCInteractions ---------------------------
(* Interactions for TLC: two interactions at a time, an administrator and an  *)
(* officer with one of the server's two roles.  A scenario is a small set of  *)
(* buttons and forms: for every write of every feature one where the grants   *)
(* of its key change meanwhile, then the ones of the stores, where only the   *)
(* administrator acts, and the arrival of the server.                        *)
EXTENDS Interactions, TLC

CONSTANTS i1, i2, r1, r2, c1, c2

MCClients == {c1, c2}
MCItems == {i1, i2}
MCRoles == {r1, r2}
MCRolesOf == "admin" :> {} @@ "officer" :> {r1}

(* What to press for seg to be reached, and by whom.                         *)
Around(seg) == IF seg \in Forms THEN {o \in Openers : <<o, seg>> \in OpensForm} ELSE {seg}
Presses(segs, who) == [seg : UNION {Around(seg) : seg \in segs}, who : {who}]

Granting(segs, bound) ==
  [acts |-> Presses(segs, "officer") \cup Presses({"set"}, "admin"), server |-> {"approved"},
   listed |-> FALSE, roles |-> {{r1}}, faults |-> bound]
Storing(segs) ==
  [acts |-> Presses(segs, "admin"), server |-> {"approved"},
   listed |-> FALSE, roles |-> {{}}, faults |-> 1]
Viewing ==
  [acts |-> Presses(Views, "officer"), server |-> {"approved"},
   listed |-> FALSE, roles |-> {{}, {r1}}, faults |-> 0]
Joining(listed) ==
  [acts |-> Presses({"guild", "crepub"}, "admin"), server |-> {"absent", "pending"},
   listed |-> listed, roles |-> {{}}, faults |-> 1]

MCMixes ==
  {Granting({seg}, 0) : seg \in Writes}
  \cup {Granting({seg}, 1) : seg \in {"crepub", "m_create", "set"}}
  \cup {Storing(segs) : segs \in
         {{"m_new", "m_slimit"}, {"m_bqty", "m_slimit"},
          {"m_bqty", "tidels", "m_tdel", "m_tuse"}, Bases}}
  \cup {Viewing} \cup {Joining(listed) : listed \in BOOLEAN}

(* Members who register bases, with no fault at all.                         *)
MCBaseMixes == {[Storing({"register"}) EXCEPT !.faults = 0]}

MCLibrary == {{i1}}
Symmetric == Permutations(MCClients)
=============================================================================
