---------------------------- MODULE Interactions ----------------------------
(* What the handlers do once they are let in (Access): the operations whose   *)
(* checks and writes are separate statements, of several members at once.     *)
(*   supply.Create        a member's open requests, counted under an advisory *)
(*                        lock of the member                                  *)
(*   bases.Register       a member's bases, counted under no lock             *)
(*   bases.addEquipment   a base's extractors, counted under a lock of the row*)
(*   templates            items added, removed, the template deleted, and     *)
(*                        used: copied by value into a new contract           *)
(* Every other write of the console is a step that concerns its own contract  *)
(* only; what it does is in ContractLedger, ContractPost and ContractPayout.  *)
EXTENDS Access

CONSTANTS
  Items,       \* game items a template can list
  Library,     \* item sets the template may start with
  BaseLimit,   \* bases of a member
  GearLimit,   \* extractors of a base
  MaxBases     \* bound: registrations there can be

(* The template that is there at first was made under the default limit.     *)
ASSUME InteractionsAssumption ==
  /\ IsFiniteSet(Clients) /\ Clients # {}
  /\ {BaseLimit, GearLimit, MaxBases} \subseteq Nat
  /\ \A items \in Library :
       items \subseteq Items /\ IsFiniteSet(items) /\ Cardinality(items) <= DefaultLimit

VARIABLES
  open,     \* open supply requests of the member
  bases,    \* number -> "none", "live" or "gone" (deleted_at is set)
  gear,     \* number -> extractors of that base
  tpl,      \* the template: [exists, items]
  history   \* item sets the template has had while it existed

storeVars == <<open, bases, gear, tpl, history>>
vars == <<accessVars, storeVars>>

Init ==
  /\ AccessInit
  /\ open = 0
  /\ bases = [b \in 1..MaxBases |-> "none"]
  /\ gear = [b \in 1..MaxBases |-> 0]
  /\ tpl \in [exists : {TRUE}, items : Library]
  /\ history = {tpl.items}

Live == {b \in DOMAIN bases : bases[b] = "live"}
Doing(c, seg) == At(c, "act") /\ clients[c].seg = seg
AccessOnly(c) == UNCHANGED <<mix, row, cache, behind, stale, faults>>

(* Between its check and its commit a transaction holds its lock: on the      *)
(* member's supply requests, on the base, on the template.                   *)
Counted(seg) == {c \in Clients : At(c, "counted") /\ clients[c].seg = seg}

(* Writes with nothing to race for here.                                     *)
Plain == Writes \ (Bases \cup {"set", "m_slimit", "m_new", "m_bqty", "tidels", "m_tdel", "m_tuse"})

WriteAlone(c) ==
  /\ At(c, "act") /\ clients[c].seg \in Plain
  /\ Move(c, "done")
  /\ AccessOnly(c) /\ UNCHANGED storeVars

(* supply.Create, with pg_advisory_xact_lock left out.                       *)
CountOpenUnlocked(c) ==
  /\ At(c, "limited") /\ clients[c].seg = "m_new"
  /\ IF open >= clients[c].limit THEN Finish(c) ELSE Move(c, "counted")
  /\ AccessOnly(c) /\ UNCHANGED storeVars

(* supply.Create: the lock is of the server and the member.                   *)
CountOpen(c) ==
  /\ At(c, "limited") /\ clients[c].seg = "m_new"
  /\ Counted("m_new") = {}
  /\ IF open >= clients[c].limit THEN Finish(c) ELSE Move(c, "counted")
  /\ AccessOnly(c) /\ UNCHANGED storeVars

InsertRequest(c) ==
  /\ c \in Counted("m_new")
  /\ open' = open + 1
  /\ Move(c, "done")
  /\ AccessOnly(c) /\ UNCHANGED <<bases, gear, tpl, history>>

(* A request is completed or cancelled.                                      *)
CloseRequest ==
  /\ open > 0 /\ open' = open - 1
  /\ UNCHANGED <<accessVars, bases, gear, tpl, history>>

(* bases.Register: the count takes no lock.                                  *)
CountBases(c) ==
  /\ Doing(c, "register")
  /\ IF Cardinality(Live) >= BaseLimit THEN Finish(c) ELSE Move(c, "counted")
  /\ AccessOnly(c) /\ UNCHANGED storeVars

InsertBase(c) ==
  /\ c \in Counted("register")
  /\ \E b \in DOMAIN bases :
       /\ bases[b] = "none" /\ \A a \in 1..(b - 1) : bases[a] # "none"
       /\ bases' = [bases EXCEPT ![b] = "live"]
  /\ Move(c, "done")
  /\ AccessOnly(c) /\ UNCHANGED <<open, gear, tpl, history>>

(* bases.DeleteOne and DeleteAll: live rows of the member, one or all that are  *)
(* there as the statement begins; a row that addEquipment has locked is waited *)
(* for.                                                                      *)
Locked(b) == \E c \in Counted("add-extractor") : clients[c].base = b

Unregister(c, gone) ==
  /\ \A b \in gone : ~Locked(b)
  /\ bases' = [b \in DOMAIN bases |-> IF b \in gone THEN "gone" ELSE bases[b]]
  /\ Move(c, "done")
  /\ AccessOnly(c) /\ UNCHANGED <<open, gear, tpl, history>>

DeleteOne(c) ==
  /\ Doing(c, "unregister")
  /\ \E b \in DOMAIN bases : Unregister(c, {b} \cap Live)

ScanBases(c) ==
  /\ Doing(c, "unregister")
  /\ \E last \in 0..MaxBases :
       /\ \A b \in DOMAIN bases : bases[b] # "none" <=> b <= last
       /\ clients' = [clients EXCEPT ![c].pc = "scanned", ![c].base = last]
  /\ AccessOnly(c) /\ UNCHANGED storeVars

DeleteAll(c) ==
  /\ At(c, "scanned")
  /\ Unregister(c, {b \in Live : b <= clients[c].base})

(* bases.addEquipment: lock the live base (FOR UPDATE), count, insert.        *)
LockBase(c) ==
  /\ Doing(c, "add-extractor")
  /\ \E b \in DOMAIN bases :
       /\ ~Locked(b)
       /\ IF b \in Live /\ gear[b] < GearLimit
          THEN clients' = [clients EXCEPT ![c].pc = "counted", ![c].base = b]
          ELSE Finish(c)
  /\ AccessOnly(c) /\ UNCHANGED storeVars

InsertExtractor(c) ==
  /\ c \in Counted("add-extractor")
  /\ gear' = [gear EXCEPT ![clients[c].base] = @ + 1]
  /\ Move(c, "done")
  /\ AccessOnly(c) /\ UNCHANGED <<open, bases, tpl, history>>

RemoveExtractor(c) ==
  /\ Doing(c, "remove-extractor")
  /\ \E b \in Live : gear[b] > 0 /\ gear' = [gear EXCEPT ![b] = @ - 1]
  /\ Move(c, "done")
  /\ AccessOnly(c) /\ UNCHANGED <<open, bases, tpl, history>>

(* AddTemplateItem: lock the template, count its items, look for this one.   *)
LockTemplate(c) ==
  /\ At(c, "limited") /\ clients[c].seg = "m_bqty"
  /\ Counted("m_bqty") = {}
  /\ \E i \in Items :
       IF tpl.exists /\ Cardinality(tpl.items) < clients[c].limit /\ i \notin tpl.items
       THEN clients' = [clients EXCEPT ![c].pc = "counted", ![c].item = {i}]
       ELSE Finish(c)
  /\ AccessOnly(c) /\ UNCHANGED storeVars

Relist(items) ==
  /\ tpl' = [tpl EXCEPT !.items = items]
  /\ history' = history \cup {items}

InsertTemplateItem(c) ==
  /\ c \in Counted("m_bqty")
  /\ Relist(tpl.items \cup clients[c].item)
  /\ Move(c, "done")
  /\ AccessOnly(c) /\ UNCHANGED <<open, bases, gear>>

(* RemoveTemplateItem: the item is found, then its template is waited for; by  *)
(* then the item may be gone, which the delete does not mind.                *)
FindTemplateItem(c) ==
  /\ Doing(c, "tidels")
  /\ \E i \in tpl.items : clients' = [clients EXCEPT ![c].pc = "found", ![c].item = {i}]
  /\ AccessOnly(c) /\ UNCHANGED storeVars

RemoveTemplateItem(c) ==
  /\ At(c, "found") /\ Counted("m_bqty") = {}
  /\ IF tpl.exists
     THEN Relist(tpl.items \ clients[c].item) /\ Move(c, "done")
     ELSE Finish(c) /\ UNCHANGED <<tpl, history>>
  /\ AccessOnly(c) /\ UNCHANGED <<open, bases, gear>>

(* DeleteTemplate: the items, then the row, in one transaction.              *)
Deleted == [exists |-> FALSE, items |-> {}]

(* The row alone deleted, its items left behind.                             *)
DeleteRowOnly(c) ==
  /\ Doing(c, "m_tdel") /\ Counted("m_bqty") = {}
  /\ IF tpl.exists THEN tpl' = [tpl EXCEPT !.exists = FALSE] /\ Move(c, "done")
     ELSE Finish(c) /\ UNCHANGED tpl
  /\ AccessOnly(c) /\ UNCHANGED <<open, bases, gear, history>>

DeleteTemplate(c) ==
  /\ Doing(c, "m_tdel") /\ Counted("m_bqty") = {}
  /\ IF tpl.exists THEN tpl' = Deleted /\ Move(c, "done") ELSE Finish(c) /\ UNCHANGED tpl
  /\ AccessOnly(c) /\ UNCHANGED <<open, bases, gear, history>>

(* submitUseTemplate: TemplateByID reads the row and then the items, Create   *)
(* inserts the contract with a reference to the template.                    *)
ReadTemplate(c) ==
  /\ Doing(c, "m_tuse")
  /\ IF tpl.exists THEN Move(c, "reading") ELSE Finish(c)
  /\ AccessOnly(c) /\ UNCHANGED storeVars

ReadItems(c) ==
  /\ At(c, "reading")
  /\ clients' = [clients EXCEPT ![c].pc = "copied", ![c].item = tpl.items]
  /\ AccessOnly(c) /\ UNCHANGED storeVars

(* The contract inserted without the reference: only the values are copied.  *)
CreateByValue(c) ==
  /\ At(c, "copied") /\ Move(c, "done")
  /\ AccessOnly(c) /\ UNCHANGED storeVars

(* The foreign key waits for a locked template and refuses a deleted one.     *)
CreateFromTemplate(c) ==
  /\ At(c, "copied") /\ Counted("m_bqty") = {}
  /\ IF tpl.exists THEN Move(c, "done") ELSE Finish(c)
  /\ AccessOnly(c) /\ UNCHANGED storeVars

Next ==
  \/ AccessNext /\ UNCHANGED storeVars
  \/ \E c \in Clients :
       \/ WriteAlone(c) \/ CountOpen(c) \/ InsertRequest(c)
       \/ CountBases(c) \/ InsertBase(c)
       \/ DeleteOne(c) \/ ScanBases(c) \/ DeleteAll(c)
       \/ LockBase(c) \/ InsertExtractor(c) \/ RemoveExtractor(c)
       \/ LockTemplate(c) \/ InsertTemplateItem(c)
       \/ FindTemplateItem(c) \/ RemoveTemplateItem(c) \/ DeleteTemplate(c)
       \/ ReadTemplate(c) \/ ReadItems(c) \/ CreateFromTemplate(c)
  \/ CloseRequest

Spec == Init /\ [][Next]_vars

(* Types; a base that was never registered has no equipment, and a deleted    *)
(* template has left no items behind.                                        *)
TypeOK ==
  /\ row \in [server : {"absent", "pending", "approved"}, roles : SUBSET Roles,
              limit : 0..MaxLimit]
  /\ cache.server \subseteq {"pending", "approved"} /\ Cardinality(cache.server) <= 1
  /\ cache.roles \subseteq SUBSET Roles /\ Cardinality(cache.roles) <= 1
  /\ cache.limit \subseteq 0..MaxLimit /\ Cardinality(cache.limit) <= 1
  /\ \A c \in Clients :
       /\ clients[c].seg \in Segments
       /\ clients[c].who \in Members
       /\ clients[c].roles \cup clients[c].drop \subseteq Roles
       /\ clients[c].item \subseteq Items
  /\ open \in Nat
  /\ \A b \in DOMAIN bases : bases[b] = "none" => gear[b] = 0
  /\ tpl.items \subseteq Items /\ (tpl.exists \/ tpl.items = {})

(* A step that makes a change of the client durable.                         *)
Commits(c) ==
  /\ clients[c].pc \notin {"forget", "done"}
  /\ clients'[c].pc \in {"forget", "done"}

(* A change is made only on an approved server and only for a member who was   *)
(* entitled to it at some moment since they pressed the button or submitted    *)
(* the form: a form left open, a button of an old message or a cached grant    *)
(* gives nobody what has been taken from them.  Excused are the two windows    *)
(* the cache has: a check made after the commit of a change of the grants and  *)
(* before its invalidation, and one on a mapping that a fill begun before the  *)
(* change, or a commit whose answer was lost, left in the cache.             *)
RevokedCannotAct ==
  [][\A c \in Clients : Commits(c) =>
       /\ row.server = "approved"
       /\ clients[c].held \/ clients[c].excused]_vars

(* What a handler adds stays within the limit in force when it asked for it,   *)
(* whoever else is adding, and whatever the settings become: the lock keeps    *)
(* its count current, and the cache hands out no limit from before a change.   *)
(* Excused are the cache's two windows, as above, and a failed read, for which *)
(* the default is documented (settings/cache.go:57-60).                       *)
LimitsHold ==
  [][\A c \in Clients : Commits(c) =>
       /\ clients[c].seg = "m_new" => open' <= clients[c].bar
       /\ clients[c].seg = "m_bqty" => Cardinality(tpl'.items) <= clients[c].bar
       /\ clients[c].seg = "add-extractor" => gear'[clients[c].base] <= GearLimit]_vars

(* "Count + insert in one transaction so the limit can't be raced past"        *)
(* (bases/postgres.go:53), "checked atomically against the live-base count"    *)
(* (bases/bases.go:137-138).                                                 *)
BasesWithinLimit == Cardinality(Live) <= BaseLimit

(* What is deleted while a handler is between its steps is not built upon: a   *)
(* contract made from a template has items the template has had, never what a  *)
(* delete left of them, and no equipment is added to an unregistered base.    *)
NothingOnTheDeleted ==
  [][/\ \A c \in Clients : Commits(c) /\ clients[c].seg = "m_tuse" =>
          clients[c].item \in history
     /\ \A b \in DOMAIN bases : gear'[b] > gear[b] => bases[b] = "live"]_vars
=============================================================================
