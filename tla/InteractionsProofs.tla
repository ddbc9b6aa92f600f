------------------------- MODULE InteractionsProofs -------------------------
(* Proofs about Interactions, for any number of concurrent interactions, any   *)
(* roles, grants and scenarios, any limits: what the caches can be behind by,  *)
(* what an interaction still knows when it commits, and what the locks of the  *)
(* stores keep true between a check and its write.                            *)
EXTENDS Interactions, FiniteSetTheorems, TLAPS

(* Where an interaction is: being let in, past its check and not yet through,  *)
(* or anywhere on an approved server.                                        *)
Early == {"server", "serverFill", "gate"}
Working ==
  {"passed", "act", "insert", "limitFill", "limited", "counted", "found", "reading", "copied",
   "scanned"}
Beyond == Working \cup {"gate", "gateFill", "forget", "done"}
Client ==
  [pc : Early \cup Beyond \cup {"idle", "form", "upsert", "prime"}, seg : Segments,
   who : Members, server : {"absent", "pending", "approved"}, roles : SUBSET Roles,
   drop : SUBSET Roles, limit : Nat, bar : Nat, item : SUBSET Items, base : Nat,
   held : BOOLEAN, excused : BOOLEAN, late : BOOLEAN]

(* At most one value of S.                                                   *)
AtMostOne(S) == {{}} \cup {{x} : x \in S}

Typed ==
  /\ row \in [server : {"absent", "pending", "approved"}, roles : SUBSET Roles,
              limit : 0..MaxLimit]
  /\ cache \in [server : AtMostOne({"pending", "approved"}), roles : AtMostOne(SUBSET Roles),
                limit : AtMostOne(0..MaxLimit)]
  /\ behind \in BOOLEAN
  /\ stale \in BOOLEAN
  /\ clients \in [Clients -> Client]
  /\ mix \in Mixes
  /\ open \in Nat
  /\ bases \in [1..MaxBases -> {"none", "live", "gone"}]
  /\ gear \in [1..MaxBases -> Nat]
  /\ \A b \in 1..MaxBases : bases[b] = "none" => gear[b] = 0
  /\ tpl \in [exists : BOOLEAN, items : SUBSET Items] /\ IsFiniteSet(tpl.items)
  /\ tpl.exists \/ tpl.items = {}

(* What is cached of the server has been true; the grants and the limit are     *)
(* those of the row, but in the two windows the properties excuse.            *)
CacheHolds ==
  /\ "approved" \in cache.server => row.server = "approved"
  /\ \A limit \in cache.limit : stale \/ Forgetting("m_slimit") \/ limit = row.limit
  /\ \A granted \in cache.roles : behind \/ Forgetting("set") \/ granted = row.roles

(* An interaction k, with the row r: each step of it belongs to certain         *)
(* segments; what it carries of the server has been true; from its start on it *)
(* remembers if the member was entitled, and no further than the check it goes *)
(* without; its limit is within its bar.                                     *)
Admission(k, r) ==
  /\ k.pc = "insert" => k.seg = "set"
  /\ k.pc \in {"limitFill", "limited"} => k.seg \in {"m_new", "m_bqty"}
  /\ k.pc = "limitFill" =>
       /\ k.limit <= MaxLimit /\ Effective(k.limit) <= k.bar
       /\ k.late \/ k.limit = r.limit
  /\ k.pc \in {"limited", "counted"} /\ k.seg \in {"m_new", "m_bqty"} => k.limit <= k.bar
  /\ k.pc \in {"serverFill", "prime"} => k.server # "absent"
  /\ k.pc = "counted" => k.seg \in {"m_new", "m_bqty", "register", "add-extractor"}
  /\ k.pc = "found" => k.seg = "tidels"
  /\ k.pc = "scanned" => k.seg = "unregister"
  /\ k.pc \in {"reading", "copied"} => k.seg = "m_tuse"
  /\ k.server = "approved" \/ k.pc \in Beyond => r.server = "approved"
  /\ k.pc \in Early \cup {"form"} => ~k.late
  /\ k.pc \in Early /\ Entitled(k.seg, k.who, r.roles) => k.held
  /\ k.pc = "gateFill" =>
       /\ RolesOf[k.who] \cap k.roles # {} => k.held
       /\ k.late \/ k.roles = r.roles
  /\ k.pc \in Working => k.held \/ k.excused

(* What it has read of the stores under a lock still holds, and the items it   *)
(* copied of a template that still exists are items the template has had.     *)
Stock(k, o, b, g, t, h) ==
  /\ k.pc = "counted" /\ k.seg = "m_new" => o < k.limit
  /\ k.pc = "counted" /\ k.seg = "m_bqty" =>
       /\ t.exists /\ Cardinality(t.items) < k.limit
       /\ \E i \in Items : k.item = {i}
  /\ k.pc = "counted" /\ k.seg = "add-extractor" =>
       k.base \in 1..MaxBases /\ b[k.base] = "live" /\ g[k.base] < GearLimit
  /\ k.pc = "copied" /\ t.exists => k.item \in h

Admissions == \A c \in Clients : Admission(clients[c], row)
Stocks ==
  /\ \A c \in Clients : Stock(clients[c], open, bases, gear, tpl, history)
  /\ tpl.exists => tpl.items \in history

(* The locks: one at a time counts the member's requests, the template's items, *)
(* or the extractors of a base.                                              *)
LocksHold ==
  /\ \A seg \in {"m_new", "m_bqty"} : \A c, d \in Counted(seg) : c = d
  /\ \A c, d \in Counted("add-extractor") : clients[c].base = clients[d].base => c = d

(* Registrations under way are counted as bases.                             *)
RoomForBases ==
  Cardinality(Live) + Cardinality(Counted("register")) <= BaseLimit + Cardinality(Clients) - 1

Limits == \A b \in 1..MaxBases : gear[b] <= GearLimit

IInv ==
  /\ Typed
  /\ CacheHolds
  /\ Admissions
  /\ Stocks
  /\ LocksHold
  /\ RoomForBases
  /\ Limits

-----------------------------------------------------------------------------
(* Routes.                                                                   *)

(* What asks for no access key changes nothing that is protected by one.      *)
LEMMA OpenWritesUnprotected ==
  ASSUME NEW seg \in Writes, KeysOf(seg) = {} PROVE seg \notin Protected
BY DEF Writes, KeysOf, Protected, gatedSegments, GatedButtons, SelfGated, ContractWrites,
   PayoutWrites, TemplateWrites, PickerWrites, Bases

(* Every form is submitted to a handler there is.                            *)
LEMMA FormsAreSegments == Forms \subseteq Segments
<1>1. ASSUME NEW opens \in OpensForm
      PROVE  opens[2] \in
               {"m_create", "m_cedit", "m_iedit", "m_crew", "m_ilink", "m_cancel", "m_idel",
                "m_pedit", "m_tsearch", "m_tnew", "m_tedit", "m_trew", "m_tiedit", "m_tdel",
                "m_tuse", "m_bqty", "m_cadd", "m_tadd", "qty", "m_new", "m_slimit"}
  <2>1. CASE opens \in DetailForms \cup QuantityForms \cup AmendForms \cup ConfirmForms
    BY <2>1 DEF DetailForms, QuantityForms, AmendForms, ConfirmForms
  <2>2. CASE opens \in ParticipantForms \cup TemplateForms \cup TemplateItemForms
    BY <2>2 DEF ParticipantForms, TemplateForms, TemplateItemForms
  <2>3. CASE opens \in PickerForms \cup PanelForms \cup RequestForms \cup LimitForms
    BY <2>3 DEF PickerForms, PanelForms, RequestForms, LimitForms
  <2> QED BY <2>1, <2>2, <2>3 DEF OpensForm
<1>2. {"m_create", "m_cedit", "m_iedit", "m_crew", "m_ilink", "m_cancel", "m_idel",
       "m_pedit", "m_tnew", "m_tedit", "m_trew", "m_tiedit", "m_tdel",
       "m_tuse", "m_bqty", "qty", "m_new", "m_slimit"} \subseteq Writes
  BY DEF Writes, ContractWrites, TemplateWrites, PickerWrites
<1>3. {"m_tsearch", "m_cadd", "m_tadd"} \subseteq Views
  BY DEF Views, TemplateListViews, BrowserViews
<1>4. \A opens \in OpensForm : opens[2] \in Segments
  BY <1>1, <1>2, <1>3 DEF Segments
<1> QED BY <1>4 DEF Forms

LEMMA HomeIsSegment == "home" \in Segments
BY DEF Segments, Views, ListViews

-----------------------------------------------------------------------------
(* Steps of the interactions.                                                *)

(* An interaction that is over.                                              *)
LEMMA QuietFits ==
  ASSUME Typed, NEW r PROVE Quiet \in Client /\ Admission(Quiet, r)
<1>1. /\ Quiet.pc = "idle" /\ Quiet.server = "absent" /\ Quiet.limit = 0 /\ ~Quiet.late
      /\ Quiet \in Client
  BY HomeIsSegment, AccessAssumption DEF Quiet, Client
<1> QED BY <1>1 DEF Admission, Early, Working, Beyond

(* One interaction moves on.                                                 *)
LEMMA OneMoves ==
  ASSUME clients \in [Clients -> Client], NEW c \in Clients, NEW k \in Client,
         clients' = [clients EXCEPT ![c] = k]
  PROVE  /\ clients' \in [Clients -> Client] /\ clients'[c] = k
         /\ \A d \in Clients : d # c => clients'[d] = clients[d]
OBVIOUS

(* The server's approval changes, and only one way: what was so remains so.     *)
LEMMA AdmissionKept ==
  ASSUME Typed, row'.roles = row.roles, row'.limit = row.limit,
         row.server = "approved" => row'.server = "approved",
         NEW k \in Client, Admission(k, row)
  PROVE  Admission(k, row')
BY DEF Admission

(* Who is between a check of the stores and its write.                       *)
StillCounting(k, l) ==
  \/ l.pc \notin {"counted", "copied"}
  \/ l.pc = k.pc /\ l.seg = k.seg /\ l.limit = k.limit /\ l.item = k.item /\ l.base = k.base

(* Steps of Access: what they leave to show is what they are about.           *)
LEMMA AccessStep ==
  ASSUME IInv, clients' \in [Clients -> Client],
         \A d \in Clients : StillCounting(clients[d], clients'[d]),
         UNCHANGED <<mix, storeVars>>,
         row' \in [server : {"absent", "pending", "approved"}, roles : SUBSET Roles,
                   limit : 0..MaxLimit],
         cache' \in [server : AtMostOne({"pending", "approved"}),
                     roles : AtMostOne(SUBSET Roles), limit : AtMostOne(0..MaxLimit)],
         behind' \in BOOLEAN, stale' \in BOOLEAN,
         CacheHolds', Admissions'
  PROVE  IInv'
<1> USE DEF IInv, storeVars
<1>1. Typed'
  BY AccessAssumption DEF Typed
<1>2. ASSUME NEW seg PROVE Counted(seg)' \subseteq Counted(seg)
  BY DEF Counted, At, StillCounting
<1>3. \A d \in Clients : Stock(clients'[d], open, bases, gear, tpl, history)
  BY DEF Stocks, Stock, StillCounting
<1>4. Stocks'
  BY <1>3 DEF Stocks
<1>5. LocksHold'
  BY <1>2 DEF LocksHold, Counted, At, StillCounting
<1>6. RoomForBases'
  <2>1. IsFiniteSet(Counted("register")) /\ IsFiniteSet(Counted("register")')
    BY InteractionsAssumption, FS_Subset DEF Counted
  <2>2. Cardinality(Counted("register")') <= Cardinality(Counted("register"))
    BY <1>2, <2>1, FS_Subset
  <2>3. IsFiniteSet(Live) /\ Live' = Live
    <3>1. Live \subseteq 1..MaxBases /\ IsFiniteSet(1..MaxBases)
      BY FS_Interval, InteractionsAssumption DEF Live, Typed
    <3> QED BY <3>1, FS_Subset DEF Live
  <2> QED BY <2>1, <2>2, <2>3, InteractionsAssumption, FS_CardinalityType DEF RoomForBases
<1>7. Limits'
  BY FS_CardinalityType DEF Limits, Typed
<1> QED BY <1>1, <1>4, <1>5, <1>6, <1>7

(* Most steps are of one interaction that leaves rows and caches alone.       *)
LEMMA OneAdmitted ==
  ASSUME IInv, NEW c \in Clients, NEW k \in Client, clients' = [clients EXCEPT ![c] = k],
         k.pc \notin {"counted", "copied"}, Admission(k, row),
         clients[c].pc # "forget",
         UNCHANGED <<mix, row, cache, behind, stale, storeVars>>
  PROVE  IInv'
<1> USE DEF IInv
<1>1. /\ clients' \in [Clients -> Client] /\ clients'[c] = k
      /\ \A d \in Clients : d # c => clients'[d] = clients[d]
  BY OneMoves DEF Typed
<1>2. \A d \in Clients : StillCounting(clients[d], clients'[d])
  BY <1>1 DEF StillCounting
<1>3. Admissions'
  BY <1>1 DEF Admissions
<1>4. CacheHolds'
  BY <1>1 DEF CacheHolds, Forgetting, At
<1> QED BY <1>1, <1>2, <1>3, <1>4, AccessStep DEF Typed

LEMMA FinishInv ==
  ASSUME IInv, NEW c \in Clients, Finish(c), clients[c].pc # "forget",
         UNCHANGED <<mix, row, cache, behind, stale, storeVars>>
  PROVE  IInv'
<1>1. Quiet \in Client /\ Admission(Quiet, row) /\ Quiet.pc = "idle"
  BY QuietFits DEF IInv, Typed, Quiet
<1> QED BY <1>1, OneAdmitted DEF Finish

(* Where an interaction may get from where it is, with nothing else changed.  *)
LEMMA Moves ==
  ASSUME IInv, NEW c \in Clients,
         NEW pc \in (Early \cup Beyond \cup {"upsert"})
                   \ {"serverFill", "gateFill", "insert", "limitFill", "limited", "scanned"},
         pc = "counted" =>
           \/ clients[c].pc = "limited"
           \/ clients[c].seg \in {"register", "add-extractor"},
         pc = "found" => clients[c].seg = "tidels",
         pc \in {"reading", "copied"} => clients[c].seg = "m_tuse",
         pc \in Beyond => row.server = "approved",
         pc \in Early => clients[c].pc \in Early,
         pc \in Working => clients[c].held \/ clients[c].excused
  PROVE  /\ [clients[c] EXCEPT !.pc = pc] \in Client
         /\ [clients[c] EXCEPT !.pc = pc].pc = pc
         /\ Admission([clients[c] EXCEPT !.pc = pc], row)
<1> DEFINE k == [clients[c] EXCEPT !.pc = pc]
<1>1. clients[c] \in Client /\ Admission(clients[c], row)
  BY DEF IInv, Typed, Admissions
<1>2. /\ k \in Client /\ k.pc = pc
      /\ k.seg = clients[c].seg /\ k.who = clients[c].who /\ k.server = clients[c].server
      /\ k.limit = clients[c].limit /\ k.held = clients[c].held
      /\ k.bar = clients[c].bar
      /\ k.excused = clients[c].excused /\ k.late = clients[c].late
  BY <1>1 DEF Client
<1> HIDE DEF k
<1>3. pc \notin {"form", "prime", "serverFill", "gateFill", "insert", "limitFill", "limited",
                 "scanned"}
  BY DEF Early, Beyond, Working
<1>4. Admission(k, row)
  BY <1>1, <1>2, <1>3 DEF Admission, Early
<1> QED BY <1>2, <1>4 DEF k

(* Coming in, and being shown or refused.                                    *)
LEMMA PressInv ==
  ASSUME IInv, NEW c \in Clients, Press(c), UNCHANGED storeVars PROVE IInv'
<1>1. PICK act \in mix.acts :
        clients' = [clients EXCEPT ![c] =
          [Quiet EXCEPT !.pc = "server", !.seg = act.seg, !.who = act.who,
                        !.held = Entitled(act.seg, act.who, row.roles)]]
  BY DEF Press
<1> DEFINE k == [Quiet EXCEPT !.pc = "server", !.seg = act.seg, !.who = act.who,
                        !.held = Entitled(act.seg, act.who, row.roles)]
<1>2. act.seg \in Segments /\ act.who \in Members
  BY AccessAssumption DEF IInv, Typed
<1>3. Entitled(act.seg, act.who, row.roles) \in BOOLEAN
  BY DEF Entitled
<1>4. /\ k \in Client /\ k.pc = "server" /\ k.seg = act.seg /\ k.who = act.who
      /\ k.held = Entitled(act.seg, act.who, row.roles)
      /\ ~k.late /\ k.server = "absent" /\ k.limit = 0
  BY <1>2, <1>3 DEF Quiet, Client, Early
<1> HIDE DEF k
<1>5. Admission(k, row)
  BY <1>4 DEF Admission, Early, Working, Beyond, IInv, Typed
<1> QED BY <1>1, <1>4, <1>5, OneAdmitted DEF k, Press, At

LEMMA SubmitFormInv ==
  ASSUME IInv, NEW c \in Clients, SubmitForm(c), UNCHANGED storeVars PROVE IInv'
<1> DEFINE held == Entitled(clients[c].seg, clients[c].who, row.roles)
           k == [clients[c] EXCEPT !.pc = "server", !.held = held]
<1>1. clients[c] \in Client /\ Admission(clients[c], row) /\ held \in BOOLEAN
  BY DEF IInv, Typed, Admissions, Entitled
<1>2. clients' = [clients EXCEPT ![c] = k]
  BY <1>1 DEF SubmitForm, IInv, Typed
<1> HIDE DEF held
<1>3. /\ k \in Client /\ k.pc = "server" /\ k.seg = clients[c].seg /\ k.who = clients[c].who
      /\ k.held = held /\ k.late = clients[c].late /\ k.server = clients[c].server
      /\ k.limit = clients[c].limit
  BY <1>1 DEF Client, Early
<1> HIDE DEF k
<1>4. Admission(k, row)
  BY <1>1, <1>3 DEF Admission, Early, Working, Beyond, SubmitForm, At, held
<1> QED BY <1>2, <1>3, <1>4, OneAdmitted DEF SubmitForm, At

(* An interaction whose server is known to be approved goes on to its check.  *)
LEMMA WithServerFits ==
  ASSUME IInv, NEW c \in Clients, clients[c].pc \in {"server", "serverFill"},
         NEW server, server = "approved" => row.server = "approved", WithServer(c, server)
  PROVE  \E k \in Client : /\ clients' = [clients EXCEPT ![c] = k]
                           /\ k.pc \notin {"counted", "copied"} /\ Admission(k, row)
<1>1. CASE Finish(c)
  BY <1>1, QuietFits DEF Finish, IInv, Typed, Quiet
<1>2. CASE Move(c, "upsert")
  BY <1>2, Moves DEF Move, Early, Beyond, Working
<1>3. CASE Move(c, "gate") /\ server = "approved"
  BY <1>3, Moves DEF Move, Early, Beyond, Working
<1> QED BY <1>1, <1>2, <1>3 DEF WithServer

LEMMA ServerStepsInv ==
  ASSUME IInv, NEW c \in Clients, ServerHit(c) \/ ServerRead(c), UNCHANGED storeVars PROVE IInv'
<1>1. CASE ServerHit(c)
  <2>1. PICK server \in cache.server : WithServer(c, server)
    BY <1>1 DEF ServerHit
  <2>2. server = "approved" => row.server = "approved"
    BY <2>1 DEF IInv, CacheHolds
  <2>3. clients[c].pc = "server"
    BY <1>1 DEF ServerHit, At
  <2> QED BY <1>1, <2>1, <2>2, <2>3, WithServerFits, OneAdmitted DEF ServerHit
<1>2. CASE ServerRead(c) /\ row.server = "absent"
  BY <1>2, WithServerFits, OneAdmitted DEF ServerRead, At
<1>3. CASE ServerRead(c) /\ row.server # "absent"
  <2> DEFINE k == [clients[c] EXCEPT !.pc = "serverFill", !.server = row.server]
  <2>1. clients[c] \in Client /\ Admission(clients[c], row) /\ clients[c].pc = "server"
    BY <1>3 DEF IInv, Typed, Admissions, ServerRead, At
  <2>2. clients' = [clients EXCEPT ![c] = k]
    BY <1>3, <2>1 DEF ServerRead, IInv, Typed
  <2>3. /\ k \in Client /\ k.pc = "serverFill" /\ k.server = row.server
        /\ k.seg = clients[c].seg /\ k.who = clients[c].who /\ k.limit = clients[c].limit
        /\ k.held = clients[c].held /\ k.late = clients[c].late
    BY <2>1 DEF Client, IInv, Typed, Early
  <2> HIDE DEF k
  <2>4. Admission(k, row)
    BY <1>3, <2>1, <2>3 DEF Admission, Early, Working, Beyond
  <2> QED BY <1>3, <2>1, <2>2, <2>3, <2>4, OneAdmitted DEF ServerRead
<1> QED BY <1>1, <1>2, <1>3

(* The caches: what an interaction adds, writes through or drops.              *)
LEMMA OneCaches ==
  ASSUME IInv, NEW c \in Clients, NEW k \in Client, clients' = [clients EXCEPT ![c] = k],
         k.pc \notin {"counted", "copied"}, Admission(k, row),
         UNCHANGED <<mix, row, storeVars>>,
         cache' \in [server : AtMostOne({"pending", "approved"}),
                     roles : AtMostOne(SUBSET Roles), limit : AtMostOne(0..MaxLimit)],
         behind' \in BOOLEAN, stale' \in BOOLEAN, CacheHolds'
  PROVE  IInv'
<1> USE DEF IInv
<1>1. /\ clients' \in [Clients -> Client] /\ clients'[c] = k
      /\ \A d \in Clients : d # c => clients'[d] = clients[d]
  BY OneMoves DEF Typed
<1>2. \A d \in Clients : StillCounting(clients[d], clients'[d])
  BY <1>1 DEF StillCounting
<1>3. Admissions'
  BY <1>1 DEF Admissions
<1> QED BY <1>1, <1>2, <1>3, AccessStep DEF Typed

(* No one but an interaction that has just changed something is to drop it.    *)
LEMMA StillForgetting ==
  ASSUME IInv, NEW c \in Clients, NEW k \in Client, clients' = [clients EXCEPT ![c] = k]
  PROVE  \A seg : (clients[c].pc # "forget" \/ clients[c].seg # seg) /\ Forgetting(seg)
                   => Forgetting(seg)'
BY OneMoves DEF Forgetting, At, IInv, Typed

LEMMA ServerAddInv ==
  ASSUME IInv, NEW c \in Clients, ServerAdd(c), UNCHANGED storeVars PROVE IInv'
<1>1. /\ clients[c] \in Client /\ clients[c].pc = "serverFill"
      /\ clients[c].server = "approved" => row.server = "approved"
  BY DEF IInv, Typed, Admissions, Admission, ServerAdd, At
<1>2. PICK k \in Client : /\ clients' = [clients EXCEPT ![c] = k]
                          /\ k.pc \notin {"counted", "copied"} /\ Admission(k, row)
  BY <1>1, WithServerFits DEF ServerAdd
<1>3. clients[c].server \in {"pending", "approved"}
  BY <1>1 DEF IInv, Admissions, Admission, Client
<1>4. cache' = [cache EXCEPT !.server = {clients[c].server}] /\ UNCHANGED <<row, behind, stale>>
  BY DEF ServerAdd
<1>5. cache' \in [server : AtMostOne({"pending", "approved"}), roles : AtMostOne(SUBSET Roles),
                  limit : AtMostOne(0..MaxLimit)]
  BY <1>3, <1>4 DEF IInv, Typed, AtMostOne
<1>6. /\ cache'.server = {clients[c].server}
      /\ cache'.roles = cache.roles /\ cache'.limit = cache.limit
  BY <1>4 DEF IInv, Typed
<1>7. \A seg : Forgetting(seg) => Forgetting(seg)'
  BY <1>1, <1>2, StillForgetting
<1>8. CacheHolds'
  BY <1>1, <1>4, <1>6, <1>7 DEF IInv, CacheHolds
<1> QED BY <1>2, <1>5, <1>8, OneCaches DEF ServerAdd, IInv, Typed

(* A server that is approved stays so.                                       *)
LEMMA UpsertInv ==
  ASSUME IInv, NEW c \in Clients, Upsert(c), UNCHANGED storeVars PROVE IInv'
<1> DEFINE server == IF mix.listed \/ row.server = "approved" THEN "approved" ELSE "pending"
           k == [clients[c] EXCEPT !.pc = "prime", !.server = server]
<1>1. /\ row' = [row EXCEPT !.server = server]
      /\ clients' = [clients EXCEPT ![c] = k] \/ Finish(c)
      /\ UNCHANGED <<mix, cache, behind, stale>> /\ clients[c].pc = "upsert"
  <2>1. clients' = [clients EXCEPT ![c].pc = "prime", ![c].server = server] \/ Finish(c)
    BY DEF Upsert
  <2> QED BY <2>1 DEF Upsert, At, IInv, Typed
<1>2. server \in {"pending", "approved"} /\ (row.server = "approved" => server = "approved")
  OBVIOUS
<1> HIDE DEF server
<1>3. /\ row' \in [server : {"absent", "pending", "approved"}, roles : SUBSET Roles,
                   limit : 0..MaxLimit]
      /\ row'.server = server /\ row'.roles = row.roles /\ row'.limit = row.limit
  BY <1>1, <1>2 DEF IInv, Typed
<1>4. clients[c] \in Client /\ Admission(clients[c], row)
  BY DEF IInv, Typed, Admissions
<1>5. /\ k \in Client /\ k.pc = "prime" /\ k.server = server /\ k.limit = clients[c].limit
  BY <1>2, <1>4 DEF Client
<1> HIDE DEF k
<1>6. Admission(k, row') /\ Admission(Quiet, row') /\ Quiet \in Client
      /\ Quiet.pc = "idle"
  <2>1. Admission(k, row')
    BY <1>1, <1>2, <1>3, <1>4, <1>5 DEF Admission, Early, Working, Beyond
  <2>2. Admission(Quiet, row') /\ Quiet \in Client
    BY <1>1, QuietFits DEF IInv, Typed
  <2> QED BY <2>1, <2>2 DEF Quiet
<1>7. PICK l \in Client : /\ clients' = [clients EXCEPT ![c] = l]
                          /\ l.pc \notin {"counted", "copied"} /\ Admission(l, row')
  BY <1>1, <1>5, <1>6 DEF Finish
<1>8. /\ clients' \in [Clients -> Client] /\ clients'[c] = l
      /\ \A d \in Clients : d # c => clients'[d] = clients[d]
  BY <1>7, OneMoves DEF IInv, Typed
<1>9. \A d \in Clients : StillCounting(clients[d], clients'[d])
  BY <1>7, <1>8 DEF StillCounting
<1>10. Admissions'
  <2>1. \A d \in Clients : Admission(clients[d], row')
    BY <1>1, <1>2, <1>3, AdmissionKept DEF IInv, Typed, Admissions
  <2> QED BY <1>7, <1>8, <2>1 DEF Admissions
<1>11. CacheHolds'
  BY <1>1, <1>2, <1>3, <1>4, <1>7, StillForgetting DEF IInv, CacheHolds
<1> QED BY <1>1, <1>3, <1>8, <1>9, <1>10, <1>11, AccessStep DEF IInv, Typed

LEMMA PrimeInv == ASSUME IInv, NEW c \in Clients, Prime(c), UNCHANGED storeVars PROVE IInv'
<1>1. /\ clients[c].pc = "prime" /\ clients[c].server \in {"pending", "approved"}
      /\ clients[c].server = "approved" => row.server = "approved"
  BY DEF IInv, Typed, Admissions, Admission, Prime, At, Client
<1>2. /\ Quiet \in Client /\ Admission(Quiet, row) /\ Quiet.pc = "idle"
      /\ clients' = [clients EXCEPT ![c] = Quiet]
  BY QuietFits DEF IInv, Typed, Quiet, Prime, Finish
<1>3. cache' = [cache EXCEPT !.server = {clients[c].server}] /\ UNCHANGED <<row, behind, stale>>
  BY DEF Prime
<1>4. cache' \in [server : AtMostOne({"pending", "approved"}), roles : AtMostOne(SUBSET Roles),
                  limit : AtMostOne(0..MaxLimit)]
  BY <1>1, <1>3 DEF IInv, Typed, AtMostOne
<1>5. /\ cache'.server = {clients[c].server}
      /\ cache'.roles = cache.roles /\ cache'.limit = cache.limit
  BY <1>3 DEF IInv, Typed
<1>6. \A seg : Forgetting(seg) => Forgetting(seg)'
  BY <1>1, <1>2, StillForgetting
<1>7. CacheHolds'
  BY <1>1, <1>3, <1>5, <1>6 DEF IInv, CacheHolds
<1> QED BY <1>2, <1>4, <1>7, OneCaches DEF Prime, IInv, Typed

LEMMA ApprovedByHandInv == ASSUME IInv, ApprovedByHand, UNCHANGED storeVars PROVE IInv'
<1>1. /\ row' \in [server : {"absent", "pending", "approved"}, roles : SUBSET Roles,
                   limit : 0..MaxLimit]
      /\ row'.server = "approved" /\ row'.roles = row.roles /\ row'.limit = row.limit
      /\ UNCHANGED <<mix, cache, behind, stale, faults, clients>>
  BY DEF ApprovedByHand, IInv, Typed
<1>2. \A d \in Clients : StillCounting(clients[d], clients'[d])
  BY <1>1 DEF StillCounting
<1>3. Admissions'
  <2>1. \A d \in Clients : Admission(clients[d], row')
    BY <1>1, AdmissionKept DEF IInv, Typed, Admissions
  <2> QED BY <1>1, <2>1 DEF Admissions
<1>4. CacheHolds'
  BY <1>1 DEF IInv, CacheHolds, Forgetting, At
<1> QED BY <1>1, <1>2, <1>3, <1>4, AccessStep DEF IInv, Typed

-----------------------------------------------------------------------------
(* The check.                                                                *)

(* An interaction that was entitled, or is excused, gets to its handler.       *)
LEMMA AdmittedInv ==
  ASSUME IInv, NEW c \in Clients, Admitted(c), clients[c].pc \in {"gate", "passed"},
         clients[c].seg \in Writes => clients[c].held \/ clients[c].excused,
         UNCHANGED <<mix, row, cache, behind, stale, storeVars>>
  PROVE  IInv'
<1>1. /\ clients[c] \in Client /\ Admission(clients[c], row)
      /\ clients[c].pc # "forget"
  BY DEF IInv, Typed, Admissions
<1>2. ASSUME NEW form \in Forms,
             clients' = [clients EXCEPT ![c] =
               [Quiet EXCEPT !.pc = "form", !.seg = form, !.who = clients[c].who]]
      PROVE  IInv'
  <2> DEFINE k == [Quiet EXCEPT !.pc = "form", !.seg = form, !.who = clients[c].who]
  <2>1. Quiet \in Client /\ form \in Segments /\ clients[c].who \in Members
    BY <1>1, QuietFits, FormsAreSegments DEF IInv, Typed, Client
  <2>2. /\ k \in Client /\ k.pc = "form" /\ k.server = "absent" /\ k.limit = 0 /\ ~k.late
    BY <2>1 DEF Client, Quiet
  <2>3. clients' = [clients EXCEPT ![c] = k]
    BY <1>2
  <2> HIDE DEF k
  <2>4. Admission(k, row)
    BY <2>2 DEF Admission, Early, Working, Beyond, IInv, Typed
  <2> QED BY <1>1, <2>2, <2>3, <2>4, OneAdmitted
<1>3. ASSUME clients[c].seg \in Writes,
             clients' = [clients EXCEPT ![c] =
               [@ EXCEPT !.pc = "act", !.server = "absent", !.roles = {}, !.late = FALSE]]
      PROVE  IInv'
  <2> DEFINE k == [clients[c] EXCEPT !.pc = "act", !.server = "absent", !.roles = {},
                                     !.late = FALSE]
  <2>1. /\ k \in Client /\ k.pc = "act" /\ k.server = "absent" /\ k.limit = clients[c].limit
        /\ k.held = clients[c].held /\ k.excused = clients[c].excused
    BY <1>1 DEF Client, Beyond, Working
  <2>2. clients' = [clients EXCEPT ![c] = k]
    BY <1>3 DEF IInv, Typed
  <2> HIDE DEF k
  <2>3. row.server = "approved"
    BY <1>1 DEF Admission, Beyond, Working
  <2>4. Admission(k, row)
    BY <1>1, <1>3, <2>1, <2>3 DEF Admission, Early
  <2> QED BY <1>1, <2>1, <2>2, <2>4, OneAdmitted
<1>4. CASE Finish(c)
  BY <1>1, <1>4, FinishInv
<1> QED BY <1>2, <1>3, <1>4 DEF Admitted

LEMMA PassGateInv ==
  ASSUME IInv, NEW c \in Clients, PassGate(c), UNCHANGED storeVars PROVE IInv'
<1>1. clients[c].pc = "gate"
  BY DEF PassGate, At
<1>2. ASSUME clients[c].seg \in Writes PROVE clients[c].held
  <2>1. Entitled(clients[c].seg, clients[c].who, row.roles)
    BY <1>2, OpenWritesUnprotected DEF PassGate, Entitled
  <2> QED BY <1>1, <2>1 DEF IInv, Admissions, Admission, Early
<1> QED BY <1>1, <1>2, AdmittedInv DEF PassGate

LEMMA ProceedInv ==
  ASSUME IInv, NEW c \in Clients, Proceed(c), UNCHANGED storeVars PROVE IInv'
<1>1. clients[c].pc = "passed" /\ (clients[c].held \/ clients[c].excused)
  BY DEF Proceed, At, IInv, Admissions, Admission, Working
<1> QED BY <1>1, AdmittedInv DEF Proceed

(* A cached grant is the row's, or the interaction is excused.               *)
LEMMA GateHitInv ==
  ASSUME IInv, NEW c \in Clients, GateHit(c), UNCHANGED storeVars PROVE IInv'
<1>1. PICK granted \in cache.roles :
        IF RolesOf[clients[c].who] \cap granted = {} THEN Finish(c)
        ELSE clients' = [clients EXCEPT
               ![c].pc = "passed", ![c].excused = behind \/ Forgetting("set")]
  BY DEF GateHit
<1>2. /\ clients[c] \in Client /\ Admission(clients[c], row)
      /\ clients[c].pc = "gate"
  BY DEF IInv, Typed, Admissions, GateHit, Checked, At
<1>3. CASE Finish(c)
  BY <1>2, <1>3, FinishInv DEF GateHit
<1>4. CASE RolesOf[clients[c].who] \cap granted # {}
  <2> DEFINE excused == behind \/ Forgetting("set")
             k == [clients[c] EXCEPT !.pc = "passed", !.excused = excused]
  <2>1. clients' = [clients EXCEPT ![c] = k]
    BY <1>1, <1>2, <1>4 DEF IInv, Typed
  <2>2. excused \in BOOLEAN
    BY DEF IInv, Typed, Forgetting
  <2>3. excused \/ granted = row.roles
    BY <1>1 DEF IInv, CacheHolds
  <2>4. excused \/ clients[c].held
    BY <1>2, <1>4, <2>3 DEF Admission, Early, Entitled
  <2> HIDE DEF excused
  <2>5. /\ k \in Client /\ k.pc = "passed" /\ k.excused = excused
        /\ k.held = clients[c].held /\ k.limit = clients[c].limit /\ k.late = clients[c].late
        /\ k.server = clients[c].server
    BY <1>2, <2>2 DEF Client, Beyond, Working
  <2> HIDE DEF k
  <2>6. Admission(k, row)
    BY <1>2, <2>4, <2>5 DEF Admission, Early, Working, Beyond
  <2> QED BY <1>2, <2>1, <2>5, <2>6, OneAdmitted DEF GateHit
<1> QED BY <1>1, <1>3, <1>4

LEMMA GateReadInv ==
  ASSUME IInv, NEW c \in Clients, GateRead(c), UNCHANGED storeVars PROVE IInv'
<1> DEFINE k == [clients[c] EXCEPT !.pc = "gateFill", !.roles = row.roles]
<1>1. /\ clients[c] \in Client /\ Admission(clients[c], row)
      /\ clients[c].pc = "gate"
  BY DEF IInv, Typed, Admissions, GateRead, Checked, At
<1>2. clients' = [clients EXCEPT ![c] = k]
  BY <1>1 DEF IInv, Typed, GateRead
<1>3. /\ k \in Client /\ k.pc = "gateFill" /\ k.roles = row.roles /\ k.who = clients[c].who
      /\ k.held = clients[c].held /\ k.limit = clients[c].limit
      /\ k.server = clients[c].server
  BY <1>1 DEF Client, Beyond, IInv, Typed
<1> HIDE DEF k
<1>4. Admission(k, row)
  BY <1>1, <1>3 DEF Admission, Early, Working, Beyond, Entitled
<1> QED BY <1>1, <1>2, <1>3, <1>4, OneAdmitted DEF GateRead

LEMMA GateAddInv ==
  ASSUME IInv, NEW c \in Clients, GateAdd(c), UNCHANGED storeVars PROVE IInv'
<1>1. /\ clients[c] \in Client /\ Admission(clients[c], row)
      /\ clients[c].pc = "gateFill"
  BY DEF IInv, Typed, Admissions, GateAdd, At
<1>2. /\ cache' = [cache EXCEPT !.roles = {clients[c].roles}] /\ behind' = clients[c].late
      /\ UNCHANGED <<mix, row, stale, faults>>
  BY DEF GateAdd
<1>3. \E k \in Client : /\ clients' = [clients EXCEPT ![c] = k]
                        /\ k.pc \notin {"counted", "copied"} /\ Admission(k, row)
  <2>1. CASE Finish(c)
    BY <2>1, QuietFits DEF Finish, IInv, Typed, Quiet
  <2>2. CASE RolesOf[clients[c].who] \cap clients[c].roles # {} /\ Move(c, "passed")
    <3>1. clients[c].held /\ row.server = "approved"
      BY <1>1, <2>2 DEF Admission, Beyond
    <3> QED BY <2>2, <3>1, Moves DEF Move, Early, Beyond, Working
  <2> QED BY <2>1, <2>2 DEF GateAdd
<1>4. /\ cache' \in [server : AtMostOne({"pending", "approved"}), roles : AtMostOne(SUBSET Roles),
                     limit : AtMostOne(0..MaxLimit)]
      /\ behind' \in BOOLEAN
  <2>1. clients[c].roles \in SUBSET Roles /\ clients[c].late \in BOOLEAN
    BY <1>1 DEF Client
  <2> QED BY <1>2, <2>1 DEF IInv, Typed, AtMostOne
<1>5. /\ cache'.roles = {clients[c].roles}
      /\ cache'.server = cache.server /\ cache'.limit = cache.limit
  BY <1>2 DEF IInv, Typed
<1>6. \A seg : Forgetting(seg) => Forgetting(seg)'
  BY <1>1, <1>3, StillForgetting
<1>7. CacheHolds'
  BY <1>1, <1>2, <1>5, <1>6 DEF IInv, CacheHolds, Admission
<1> QED BY <1>2, <1>3, <1>4, <1>7, OneCaches DEF IInv, Typed

-----------------------------------------------------------------------------
(* Grants and limits.                                                        *)

LEMMA SetRolesDeleteInv ==
  ASSUME IInv, NEW c \in Clients, SetRolesDelete(c), UNCHANGED storeVars PROVE IInv'
<1>1. PICK want \in SUBSET Roles :
        clients' = [clients EXCEPT ![c].pc = "insert", ![c].roles = want,
                                   ![c].drop = row.roles \ want]
  BY DEF SetRolesDelete
<1> DEFINE k == [clients[c] EXCEPT !.pc = "insert", !.roles = want, !.drop = row.roles \ want]
<1>2. /\ clients[c] \in Client /\ Admission(clients[c], row)
      /\ clients[c].pc = "act" /\ clients[c].seg = "set"
  BY DEF IInv, Typed, Admissions, SetRolesDelete, At
<1>3. clients' = [clients EXCEPT ![c] = k]
  BY <1>1, <1>2 DEF IInv, Typed
<1>4. row.roles \ want \in SUBSET Roles
  BY DEF IInv, Typed
<1>5. /\ k \in Client /\ k.pc = "insert" /\ k.seg = "set" /\ k.limit = clients[c].limit
      /\ k.held = clients[c].held /\ k.excused = clients[c].excused
      /\ k.server = clients[c].server
  BY <1>2, <1>4 DEF Client, Beyond, Working
<1> HIDE DEF k
<1>6. Admission(k, row)
  BY <1>2, <1>5 DEF Admission, Early, Working, Beyond
<1> QED BY <1>2, <1>3, <1>5, <1>6, OneAdmitted DEF SetRolesDelete

(* The commit: whoever it entitles has been entitled since it began, and a      *)
(* mapping that is being filled is out of date.                              *)
LEMMA GrantedFits ==
  ASSUME IInv, NEW c \in Clients, NEW pc \in {"forget", "done"}, At(c, "insert"),
         Granted(c, pc)
  PROVE  /\ clients' \in [Clients -> Client]
         /\ \A d \in Clients : StillCounting(clients[d], clients'[d])
         /\ row' \in [server : {"absent", "pending", "approved"}, roles : SUBSET Roles,
                      limit : 0..MaxLimit]
         /\ row'.server = row.server /\ row'.limit = row.limit
         /\ clients'[c].pc = pc /\ clients'[c].seg = "set"
         /\ Admissions'
         /\ Forgetting("m_slimit") => Forgetting("m_slimit")'
<1> DEFINE granted == (row.roles \ clients[c].drop) \cup clients[c].roles
           held(d) == clients[d].held \/ (clients[d].pc \notin {"idle", "form"}
                        /\ Entitled(clients[d].seg, clients[d].who, granted))
           late(d) == clients[d].late \/ clients[d].pc = "gateFill"
           k(d) == IF d = c THEN [clients[d] EXCEPT !.pc = pc]
                   ELSE [clients[d] EXCEPT !.held = held(d), !.late = late(d)]
<1>1. row' = [row EXCEPT !.roles = granted]
  BY DEF Granted
<1>2. \A d \in Clients : clients[d] \in Client /\ Admission(clients[d], row)
  BY DEF IInv, Typed, Admissions
<1>3. clients' = [d \in Clients |-> k(d)]
  <2>1. clients' = [d \in Clients |->
          IF d = c THEN [clients[d] EXCEPT !.pc = pc]
          ELSE [clients[d] EXCEPT
            !.held = @ \/ (clients[d].pc \notin {"idle", "form"}
                           /\ Entitled(clients[d].seg, clients[d].who, granted)),
            !.late = @ \/ clients[d].pc = "gateFill"]]
    BY DEF Granted
  <2>2. ASSUME NEW d \in Clients
        PROVE  [clients[d] EXCEPT
                 !.held = @ \/ (clients[d].pc \notin {"idle", "form"}
                                /\ Entitled(clients[d].seg, clients[d].who, granted)),
                 !.late = @ \/ clients[d].pc = "gateFill"]
               = [clients[d] EXCEPT !.held = held(d), !.late = late(d)]
    BY <1>2 DEF Client
  <2> QED BY <2>1, <2>2
<1>4. clients[c].roles \in SUBSET Roles /\ granted \in SUBSET Roles
  BY <1>2 DEF Client, IInv, Typed
<1>5. \A d \in Clients : held(d) \in BOOLEAN /\ late(d) \in BOOLEAN
  BY <1>2 DEF Client, Entitled
<1> HIDE DEF held, late, granted
<1>6. ASSUME NEW d \in Clients, d # c
      PROVE  /\ k(d) \in Client /\ k(d).held = held(d) /\ k(d).late = late(d)
             /\ k(d).pc = clients[d].pc /\ k(d).seg = clients[d].seg
             /\ k(d).who = clients[d].who /\ k(d).server = clients[d].server
             /\ k(d).roles = clients[d].roles /\ k(d).limit = clients[d].limit
             /\ k(d).item = clients[d].item /\ k(d).base = clients[d].base
             /\ k(d).excused = clients[d].excused /\ k(d).bar = clients[d].bar
  BY <1>2, <1>5, <1>6 DEF Client
<1>7. /\ k(c) \in Client /\ k(c).pc = pc /\ k(c).seg = clients[c].seg
      /\ k(c).server = clients[c].server /\ k(c).limit = clients[c].limit
  BY <1>2 DEF Client, Beyond
<1> HIDE DEF k
<1>8. /\ clients' \in [Clients -> Client] /\ \A d \in Clients : clients'[d] = k(d)
  BY <1>3, <1>6, <1>7
<1>9. /\ row' \in [server : {"absent", "pending", "approved"}, roles : SUBSET Roles,
                   limit : 0..MaxLimit]
      /\ row'.roles = granted /\ row'.server = row.server /\ row'.limit = row.limit
  BY <1>1, <1>4 DEF IInv, Typed
<1>10. Admission(k(c), row')
  BY <1>2, <1>7, <1>9 DEF Admission, At, Early, Working, Beyond
<1>11. ASSUME NEW d \in Clients, d # c PROVE Admission(k(d), row')
  <2>1. Admission(clients[d], row)
    BY <1>2
  <2>2. clients[d].held => held(d)
    BY DEF held
  <2>3. clients[d].pc \in Early /\ Entitled(clients[d].seg, clients[d].who, row'.roles) => held(d)
    BY <1>9 DEF held, Early
  <2>4. /\ clients[d].pc = "gateFill" => late(d)
        /\ clients[d].late => late(d)
        /\ clients[d].pc # "gateFill" => (late(d) <=> clients[d].late)
    BY DEF late
  <2> QED BY <1>6, <1>9, <1>11, <2>1, <2>2, <2>3, <2>4 DEF Admission, Early
<1>12. \A d \in Clients : StillCounting(clients[d], clients'[d])
  BY <1>6, <1>7, <1>8 DEF StillCounting
<1>13. clients'[c].pc = pc /\ clients'[c].seg = "set"
  BY <1>2, <1>7, <1>8 DEF Admission, At
<1>14. Forgetting("m_slimit") => Forgetting("m_slimit")'
  BY <1>6, <1>8 DEF Forgetting, At
<1> QED BY <1>8, <1>9, <1>10, <1>11, <1>12, <1>13, <1>14 DEF Admissions

(* While the committer is still to drop the cache, its readers are excused.    *)
LEMMA SetRolesCommitInv ==
  ASSUME IInv, NEW c \in Clients, SetRolesCommit(c), UNCHANGED storeVars PROVE IInv'
<1>1. /\ At(c, "insert") /\ Granted(c, "forget") /\ UNCHANGED <<mix, cache, behind, stale, faults>>
  BY DEF SetRolesCommit
<1>2. /\ clients' \in [Clients -> Client]
      /\ \A d \in Clients : StillCounting(clients[d], clients'[d])
      /\ row' \in [server : {"absent", "pending", "approved"}, roles : SUBSET Roles,
                   limit : 0..MaxLimit]
      /\ row'.server = row.server /\ row'.limit = row.limit
      /\ clients'[c].pc = "forget" /\ clients'[c].seg = "set"
      /\ Admissions' /\ (Forgetting("m_slimit") => Forgetting("m_slimit")')
  BY <1>1, GrantedFits
<1>3. Forgetting("set")'
  BY <1>2 DEF Forgetting, At
<1>4. CacheHolds'
  BY <1>1, <1>2, <1>3 DEF IInv, CacheHolds
<1> QED BY <1>1, <1>2, <1>4, AccessStep DEF IInv, Typed

LEMMA SetRolesLostInv ==
  ASSUME IInv, NEW c \in Clients, SetRolesLost(c), UNCHANGED storeVars PROVE IInv'
<1>1. /\ At(c, "insert") /\ Granted(c, "done") /\ UNCHANGED <<mix, cache, stale>>
      /\ behind' = (cache.roles # {})
  BY DEF SetRolesLost
<1>2. /\ clients' \in [Clients -> Client]
      /\ \A d \in Clients : StillCounting(clients[d], clients'[d])
      /\ row' \in [server : {"absent", "pending", "approved"}, roles : SUBSET Roles,
                   limit : 0..MaxLimit]
      /\ row'.server = row.server /\ row'.limit = row.limit
      /\ Admissions' /\ (Forgetting("m_slimit") => Forgetting("m_slimit")')
  BY <1>1, GrantedFits
<1>3. behind' \in BOOLEAN /\ (cache.roles # {} => behind')
  BY <1>1
<1>4. CacheHolds'
  BY <1>1, <1>2, <1>3 DEF IInv, CacheHolds
<1> QED BY <1>1, <1>2, <1>3, <1>4, AccessStep DEF IInv, Typed

(* An interaction is through with a change it made.                          *)
LEMMA MoveDone ==
  ASSUME IInv, NEW c \in Clients, clients[c].pc \in Beyond, NEW pc \in {"forget", "done"}
  PROVE  /\ [clients[c] EXCEPT !.pc = pc] \in Client
         /\ [clients[c] EXCEPT !.pc = pc].pc = pc
         /\ Admission([clients[c] EXCEPT !.pc = pc], row)
<1>1. Admission(clients[c], row)
  BY DEF IInv, Admissions
<1>2. row.server = "approved"
  BY <1>1 DEF Admission
<1>3. pc \in (Early \cup Beyond \cup {"upsert"}) \ {"serverFill", "gateFill", "insert", "limitFill",
                                                   "limited", "scanned"}
      /\ pc \notin Early \cup Working
      /\ pc \notin {"limited", "counted", "found", "reading", "copied"}
  BY DEF Early, Beyond, Working
<1> QED BY <1>2, <1>3, Moves

LEMMA InvalidateInv ==
  ASSUME IInv, NEW c \in Clients, Invalidate(c), UNCHANGED storeVars PROVE IInv'
<1> DEFINE k == [clients[c] EXCEPT !.pc = "done"]
<1>1. k \in Client /\ k.pc = "done" /\ Admission(k, row)
  BY MoveDone DEF Invalidate, At, Beyond
<1>2. clients' = [clients EXCEPT ![c] = k] /\ clients[c].seg # "m_slimit"
  BY DEF Invalidate, Move
<1> HIDE DEF k
<1>3. /\ cache' \in [server : AtMostOne({"pending", "approved"}), roles : AtMostOne(SUBSET Roles),
                     limit : AtMostOne(0..MaxLimit)]
      /\ cache'.roles = {} /\ cache'.server = cache.server /\ cache'.limit = cache.limit
      /\ behind' = FALSE /\ UNCHANGED <<mix, row, stale, faults>>
  BY DEF Invalidate, IInv, Typed, AtMostOne
<1>4. CacheHolds'
  BY <1>1, <1>2, <1>3, StillForgetting DEF IInv, CacheHolds
<1> QED BY <1>1, <1>2, <1>3, <1>4, OneCaches DEF IInv, Typed

LEMMA ForgetSettingsInv ==
  ASSUME IInv, NEW c \in Clients, ForgetSettings(c), UNCHANGED storeVars PROVE IInv'
<1> DEFINE k == [clients[c] EXCEPT !.pc = "done"]
<1>1. k \in Client /\ k.pc = "done" /\ Admission(k, row)
  BY MoveDone DEF ForgetSettings, At, Beyond
<1>2. clients' = [clients EXCEPT ![c] = k] /\ clients[c].seg # "set"
  BY DEF ForgetSettings, Move
<1> HIDE DEF k
<1>3. /\ cache' \in [server : AtMostOne({"pending", "approved"}), roles : AtMostOne(SUBSET Roles),
                     limit : AtMostOne(0..MaxLimit)]
      /\ cache'.limit = {} /\ cache'.server = cache.server /\ cache'.roles = cache.roles
      /\ stale' = FALSE /\ UNCHANGED <<mix, row, behind, faults>>
  BY DEF ForgetSettings, IInv, Typed, AtMostOne
<1>4. CacheHolds'
  BY <1>1, <1>2, <1>3, StillForgetting DEF IInv, CacheHolds
<1> QED BY <1>1, <1>2, <1>3, <1>4, OneCaches DEF IInv, Typed

(* A new limit: settings that are being filled in are out of date, those that   *)
(* are cached are about to be dropped, or known to be stale.                 *)
LEMMA SetLimitInv ==
  ASSUME IInv, NEW c \in Clients, SetLimit(c), UNCHANGED storeVars PROVE IInv'
<1>1. PICK limit \in 1..MaxLimit : row' = [row EXCEPT !.limit = limit]
  BY DEF SetLimit
<1>2. PICK pc \in {"forget", "done"} :
        /\ clients' = [d \in Clients |->
             IF d = c THEN [clients[d] EXCEPT !.pc = pc]
             ELSE [clients[d] EXCEPT !.late = @ \/ clients[d].pc = "limitFill"]]
        /\ IF pc = "forget" THEN UNCHANGED <<stale, faults>>
           ELSE stale' = (cache.limit # {}) /\ Fault
  BY DEF SetLimit
<1> DEFINE late(d) == clients[d].late \/ clients[d].pc = "limitFill"
           k(d) == IF d = c THEN [clients[d] EXCEPT !.pc = pc]
                   ELSE [clients[d] EXCEPT !.late = late(d)]
<1>3. /\ clients[c].pc = "act" /\ clients[c].seg = "m_slimit" /\ clients[c].pc \in Beyond
      /\ UNCHANGED <<mix, cache, behind>>
  BY DEF SetLimit, At, Beyond, Working
<1>4. \A d \in Clients : clients[d] \in Client /\ Admission(clients[d], row)
  BY DEF IInv, Typed, Admissions
<1>5. clients' = [d \in Clients |-> k(d)]
  <2>1. ASSUME NEW d \in Clients
        PROVE  [clients[d] EXCEPT !.late = @ \/ clients[d].pc = "limitFill"]
               = [clients[d] EXCEPT !.late = late(d)]
    BY <1>4 DEF Client
  <2> QED BY <1>2, <2>1
<1>6. \A d \in Clients : late(d) \in BOOLEAN
  BY <1>4 DEF Client
<1> HIDE DEF late
<1>7. ASSUME NEW d \in Clients, d # c
      PROVE  /\ k(d) \in Client /\ k(d).held = clients[d].held /\ k(d).late = late(d)
             /\ k(d).pc = clients[d].pc /\ k(d).seg = clients[d].seg
             /\ k(d).who = clients[d].who /\ k(d).server = clients[d].server
             /\ k(d).roles = clients[d].roles /\ k(d).limit = clients[d].limit
             /\ k(d).item = clients[d].item /\ k(d).base = clients[d].base
             /\ k(d).excused = clients[d].excused /\ k(d).bar = clients[d].bar
  BY <1>4, <1>6, <1>7 DEF Client
<1>8. /\ k(c) \in Client /\ k(c).pc = pc /\ k(c).seg = clients[c].seg
      /\ k(c).server = clients[c].server
  BY <1>4 DEF Client, Beyond
<1> HIDE DEF k
<1>9. /\ clients' \in [Clients -> Client] /\ \A d \in Clients : clients'[d] = k(d)
  BY <1>5, <1>7, <1>8
<1>10. /\ row' \in [server : {"absent", "pending", "approved"}, roles : SUBSET Roles,
                    limit : 0..MaxLimit]
       /\ row'.server = row.server /\ row'.roles = row.roles
  BY <1>1, AccessAssumption DEF IInv, Typed
<1>11. Admission(k(c), row')
  BY <1>3, <1>4, <1>8, <1>10 DEF Admission, Early, Working, Beyond
<1>12. ASSUME NEW d \in Clients, d # c PROVE Admission(k(d), row')
  <2>1. Admission(clients[d], row)
    BY <1>4
  <2>2. /\ clients[d].pc = "limitFill" => late(d)
        /\ clients[d].pc # "limitFill" => (late(d) <=> clients[d].late)
    BY DEF late
  <2> QED BY <1>7, <1>10, <1>12, <2>1, <2>2 DEF Admission, Early
<1>13. \A d \in Clients : StillCounting(clients[d], clients'[d])
  BY <1>7, <1>8, <1>9 DEF StillCounting
<1>14. stale' \in BOOLEAN /\ (stale' \/ cache.limit = {} \/ Forgetting("m_slimit")')
  <2>1. CASE pc = "forget"
    BY <1>2, <1>3, <1>8, <1>9, <2>1 DEF Forgetting, At, IInv, Typed
  <2>2. CASE pc = "done"
    BY <1>2, <2>2
  <2> QED BY <2>1, <2>2
<1>15. Forgetting("set") => Forgetting("set")'
  BY <1>3, <1>7, <1>9 DEF Forgetting, At
<1>16. CacheHolds'
  BY <1>3, <1>10, <1>14, <1>15 DEF IInv, CacheHolds
<1>17. Admissions'
  BY <1>9, <1>11, <1>12 DEF Admissions
<1> QED BY <1>3, <1>9, <1>10, <1>13, <1>14, <1>16, <1>17, AccessStep DEF IInv, Typed

-----------------------------------------------------------------------------
(* Asking for a limit, and the ends.                                         *)

(* An interaction that counts by a limit that was set, or by the default.     *)
LEMMA WithLimitFits ==
  ASSUME IInv, NEW c \in Clients, clients[c].pc \in {"act", "limitFill"},
         clients[c].seg \in {"m_new", "m_bqty"}, NEW limit \in Nat, NEW bar \in Nat,
         Effective(limit) <= bar, WithLimit(c, limit, bar)
  PROVE  \E k \in Client : /\ clients' = [clients EXCEPT ![c] = k]
                           /\ k.pc \notin {"counted", "copied"} /\ Admission(k, row)
<1> DEFINE k == [clients[c] EXCEPT !.pc = "limited", !.limit = Effective(limit), !.bar = bar]
<1>1. clients[c] \in Client /\ Admission(clients[c], row)
  BY DEF IInv, Typed, Admissions
<1>2. clients' = [clients EXCEPT ![c] = k]
  BY <1>1 DEF WithLimit, IInv, Typed
<1>3. Effective(limit) \in Nat
  BY AccessAssumption DEF Effective
<1>4. /\ k \in Client /\ k.pc = "limited" /\ k.limit = Effective(limit) /\ k.bar = bar
      /\ k.seg = clients[c].seg /\ k.server = clients[c].server
      /\ k.held = clients[c].held /\ k.excused = clients[c].excused
  BY <1>1, <1>3 DEF Client, Beyond, Working
<1> HIDE DEF k
<1>5. Admission(k, row)
  BY <1>1, <1>4 DEF Admission, Early, Working, Beyond
<1> QED BY <1>2, <1>4, <1>5

LEMMA LimitHitInv ==
  ASSUME IInv, NEW c \in Clients, LimitHit(c), UNCHANGED storeVars PROVE IInv'
<1> DEFINE bar(l) == Effective(IF stale \/ Forgetting("m_slimit") THEN l ELSE row.limit)
<1>1. PICK limit \in cache.limit : WithLimit(c, limit, bar(limit))
  BY DEF LimitHit
<1>2. limit \in Nat /\ Effective(limit) \in Nat
  BY AccessAssumption DEF IInv, Typed, AtMostOne, Effective
<1>3. bar(limit) = Effective(limit)
  BY DEF IInv, CacheHolds
<1>4. bar(limit) \in Nat /\ Effective(limit) <= bar(limit)
  BY <1>2, <1>3
<1> HIDE DEF bar
<1> QED BY <1>1, <1>2, <1>4, WithLimitFits, OneAdmitted DEF LimitHit, AsksLimit, At

LEMMA LimitFailsInv ==
  ASSUME IInv, NEW c \in Clients, LimitFails(c), UNCHANGED storeVars PROVE IInv'
<1>1. 0 \in Nat /\ DefaultLimit \in Nat /\ Effective(0) <= DefaultLimit
  BY AccessAssumption DEF Effective
<1> QED BY <1>1, WithLimitFits, OneAdmitted DEF LimitFails, AsksLimit, At

LEMMA LimitReadInv ==
  ASSUME IInv, NEW c \in Clients, LimitRead(c), UNCHANGED storeVars PROVE IInv'
<1> DEFINE bar == Effective(row.limit)
           k == [clients[c] EXCEPT !.pc = "limitFill", !.limit = row.limit, !.bar = bar]
<1>1. /\ clients[c] \in Client /\ Admission(clients[c], row)
      /\ clients[c].pc = "act" /\ clients[c].seg \in {"m_new", "m_bqty"}
  BY DEF IInv, Typed, Admissions, LimitRead, AsksLimit, At
<1>2. clients' = [clients EXCEPT ![c] = k]
  BY <1>1 DEF LimitRead, IInv, Typed
<1>3. row.limit \in Nat /\ row.limit <= MaxLimit /\ bar \in Nat
  BY AccessAssumption DEF IInv, Typed, Effective
<1>4. /\ k \in Client /\ k.pc = "limitFill" /\ k.limit = row.limit /\ k.bar = bar
      /\ k.seg = clients[c].seg /\ k.server = clients[c].server
      /\ k.held = clients[c].held /\ k.excused = clients[c].excused
  BY <1>1, <1>3 DEF Client, Beyond, Working
<1>5. Effective(k.limit) = k.bar /\ k.bar \in Nat
  BY <1>3, <1>4
<1> HIDE DEF k, bar
<1>6. Admission(k, row)
  BY <1>1, <1>3, <1>4, <1>5 DEF Admission, Early, Working, Beyond
<1> QED BY <1>1, <1>2, <1>4, <1>6, OneAdmitted DEF LimitRead

LEMMA LimitAddInv ==
  ASSUME IInv, NEW c \in Clients, LimitAdd(c), UNCHANGED storeVars PROVE IInv'
<1>1. /\ clients[c] \in Client /\ Admission(clients[c], row)
      /\ clients[c].pc = "limitFill" /\ clients[c].seg \in {"m_new", "m_bqty"}
      /\ clients[c].limit \in Nat /\ clients[c].bar \in Nat /\ clients[c].limit \in 0..MaxLimit
      /\ Effective(clients[c].limit) <= clients[c].bar
      /\ clients[c].late \in BOOLEAN
      /\ clients[c].late \/ clients[c].limit = row.limit
  BY AccessAssumption DEF IInv, Typed, Admissions, LimitAdd, At, Admission, Client
<1>2. /\ cache' \in [server : AtMostOne({"pending", "approved"}), roles : AtMostOne(SUBSET Roles),
                     limit : AtMostOne(0..MaxLimit)]
      /\ cache'.limit = {clients[c].limit}
      /\ cache'.server = cache.server /\ cache'.roles = cache.roles
      /\ stale' = clients[c].late /\ UNCHANGED <<mix, row, behind, faults>>
  BY <1>1 DEF LimitAdd, IInv, Typed, AtMostOne
<1>3. PICK k \in Client : /\ clients' = [clients EXCEPT ![c] = k]
                          /\ k.pc \notin {"counted", "copied"} /\ Admission(k, row)
  BY <1>1, WithLimitFits DEF LimitAdd
<1>4. Forgetting("set") => Forgetting("set")'
  BY <1>1, <1>3, StillForgetting
<1>5. CacheHolds'
  BY <1>1, <1>2, <1>4 DEF IInv, CacheHolds
<1> QED BY <1>1, <1>2, <1>3, <1>5, OneCaches DEF IInv, Typed

LEMMA EndsInv ==
  ASSUME IInv, NEW c \in Clients, DropForm(c) \/ Reply(c) \/ Fail(c), UNCHANGED storeVars
  PROVE  IInv'
BY FinishInv DEF DropForm, Reply, Fail, At

LEMMA EvictInv == ASSUME IInv, Evict, UNCHANGED storeVars PROVE IInv'
<1>1. UNCHANGED <<mix, row, clients>>
  BY DEF Evict
<1>2. /\ cache' \in [server : AtMostOne({"pending", "approved"}), roles : AtMostOne(SUBSET Roles),
                     limit : AtMostOne(0..MaxLimit)]
      /\ behind' \in BOOLEAN /\ stale' \in BOOLEAN
      /\ cache'.server \subseteq cache.server /\ cache'.roles \subseteq cache.roles
      /\ cache'.limit \subseteq cache.limit
      /\ cache'.roles = {} \/ behind' = behind
      /\ cache'.limit = {} \/ stale' = stale
  BY DEF Evict, IInv, Typed, AtMostOne
<1>3. CacheHolds'
  BY <1>1, <1>2 DEF IInv, CacheHolds, Forgetting, At
<1>4. Admissions' /\ \A d \in Clients : StillCounting(clients[d], clients'[d])
  BY <1>1 DEF IInv, Admissions, StillCounting
<1> QED BY <1>1, <1>2, <1>3, <1>4, AccessStep DEF IInv, Typed

(* Forms outlive the process, and nothing of them is decided yet.            *)
LEMMA RestartInv == ASSUME IInv, Restart, UNCHANGED storeVars PROVE IInv'
<1>1. /\ cache' \in [server : AtMostOne({"pending", "approved"}), roles : AtMostOne(SUBSET Roles),
                     limit : AtMostOne(0..MaxLimit)]
      /\ cache'.server = {} /\ cache'.roles = {} /\ cache'.limit = {}
      /\ behind' = FALSE /\ stale' = FALSE /\ UNCHANGED <<mix, row>>
  BY DEF Restart, AtMostOne
<1>2. /\ Quiet \in Client /\ Admission(Quiet, row) /\ Quiet.pc = "idle"
  BY QuietFits DEF IInv, Typed, Quiet
<1>3. \A d \in Clients : clients'[d] = IF At(d, "form") THEN clients[d] ELSE Quiet
  BY DEF Restart
<1>4. clients' \in [Clients -> Client]
  BY <1>2 DEF Restart, IInv, Typed
<1>5. \A d \in Clients : StillCounting(clients[d], clients'[d])
  BY <1>2, <1>3 DEF StillCounting
<1>6. Admissions'
  BY <1>1, <1>2, <1>3 DEF IInv, Admissions
<1>7. CacheHolds'
  BY <1>1 DEF IInv, CacheHolds
<1>8. behind' \in BOOLEAN /\ stale' \in BOOLEAN
  BY <1>1
<1> QED BY <1>1, <1>4, <1>5, <1>6, <1>7, <1>8, AccessStep DEF Restart, IInv, Typed

LEMMA AccessInv == ASSUME IInv, AccessNext, UNCHANGED storeVars PROVE IInv'
<1>1. ASSUME NEW c \in Clients,
             \/ Press(c) \/ SubmitForm(c) \/ DropForm(c)
             \/ ServerHit(c) \/ ServerRead(c) \/ ServerAdd(c) \/ Upsert(c) \/ Prime(c)
      PROVE  IInv'
  BY <1>1, PressInv, SubmitFormInv, EndsInv, ServerStepsInv, ServerAddInv, UpsertInv, PrimeInv
<1>2. ASSUME NEW c \in Clients,
             PassGate(c) \/ GateHit(c) \/ GateRead(c) \/ GateAdd(c) \/ Proceed(c)
      PROVE  IInv'
  BY <1>2, PassGateInv, GateHitInv, GateReadInv, GateAddInv, ProceedInv
<1>3. ASSUME NEW c \in Clients,
             SetRolesDelete(c) \/ SetRolesCommit(c) \/ SetRolesLost(c) \/ Invalidate(c)
      PROVE  IInv'
  BY <1>3, SetRolesDeleteInv, SetRolesCommitInv, SetRolesLostInv, InvalidateInv
<1>4. ASSUME NEW c \in Clients,
             \/ SetLimit(c) \/ ForgetSettings(c)
             \/ LimitHit(c) \/ LimitRead(c) \/ LimitAdd(c) \/ LimitFails(c)
             \/ Reply(c) \/ Fail(c)
      PROVE  IInv'
  BY <1>4, SetLimitInv, ForgetSettingsInv, LimitHitInv, LimitReadInv, LimitAddInv, LimitFailsInv,
     EndsInv
<1>5. CASE ApprovedByHand \/ Evict \/ Restart
  BY <1>5, ApprovedByHandInv, EvictInv, RestartInv
<1> QED BY <1>1, <1>2, <1>3, <1>4, <1>5 DEF AccessNext

-----------------------------------------------------------------------------
(* The stores.                                                               *)

(* Who counts, after a step of c.                                            *)
LEMMA CountedNow ==
  ASSUME IInv, NEW c \in Clients, NEW k \in Client, clients' = [clients EXCEPT ![c] = k], NEW seg
  PROVE  /\ c \notin Counted(seg)' <=> ~(k.pc = "counted" /\ k.seg = seg)
         /\ \A d \in Clients : d # c => (d \in Counted(seg)' <=> d \in Counted(seg))
         /\ Counted(seg)' \subseteq Clients /\ Counted(seg) \subseteq Clients
BY OneMoves DEF Counted, At, IInv, Typed

LEMMA Sizes ==
  ASSUME IInv, NEW seg
  PROVE  /\ IsFiniteSet(Counted(seg)) /\ Cardinality(Counted(seg)) \in Nat
         /\ Cardinality(Counted(seg)) <= Cardinality(Clients)
         /\ IsFiniteSet(Live) /\ Cardinality(Live) \in Nat
         /\ Cardinality(Clients) \in Nat /\ BaseLimit \in Nat
         /\ Cardinality(tpl.items) \in Nat
<1>1. Live \subseteq 1..MaxBases /\ IsFiniteSet(1..MaxBases)
  BY FS_Interval, InteractionsAssumption DEF Live, IInv, Typed
<1>2. IsFiniteSet(Live)
  BY <1>1, FS_Subset
<1>3. Counted(seg) \subseteq Clients /\ IsFiniteSet(Clients) /\ BaseLimit \in Nat
  BY InteractionsAssumption DEF Counted
<1>4. IsFiniteSet(Counted(seg)) /\ Cardinality(Counted(seg)) <= Cardinality(Clients)
  BY <1>3, FS_Subset
<1> QED BY <1>2, <1>3, <1>4, FS_CardinalityType DEF IInv, Typed

(* Bases come only from registrations that were counted.                     *)
LEMMA RoomKept ==
  ASSUME IInv, NEW c \in Clients, NEW k \in Client, clients' = [clients EXCEPT ![c] = k],
         Live' \subseteq Live, ~(k.pc = "counted" /\ k.seg = "register")
  PROVE  RoomForBases'
<1>1. Counted("register")' \subseteq Counted("register")
  BY CountedNow
<1>2. /\ IsFiniteSet(Live') /\ Cardinality(Live') <= Cardinality(Live)
      /\ IsFiniteSet(Counted("register")')
      /\ Cardinality(Counted("register")') <= Cardinality(Counted("register"))
  BY <1>1, Sizes, FS_Subset
<1>3. /\ Cardinality(Live) \in Nat /\ Cardinality(Counted("register")) \in Nat
      /\ Cardinality(Clients) \in Nat /\ BaseLimit \in Nat
      /\ Cardinality(Live') \in Nat /\ Cardinality(Counted("register")') \in Nat
  BY <1>2, Sizes, FS_CardinalityType
<1> QED BY <1>2, <1>3 DEF IInv, RoomForBases

(* What a step of the stores has to show.                                    *)
LEMMA StoreStep ==
  ASSUME IInv, NEW c \in Clients, NEW k \in Client, clients' = [clients EXCEPT ![c] = k],
         AccessOnly(c), clients[c].pc # "forget", Admission(k, row),
         open' \in Nat, bases' \in [1..MaxBases -> {"none", "live", "gone"}],
         gear' \in [1..MaxBases -> Nat], \A b \in 1..MaxBases : bases'[b] = "none" => gear'[b] = 0,
         tpl' \in [exists : BOOLEAN, items : SUBSET Items], IsFiniteSet(tpl'.items),
         tpl'.exists \/ tpl'.items = {}, tpl'.exists => tpl'.items \in history',
         Stock(k, open', bases', gear', tpl', history'),
         \A d \in Clients : d # c => Stock(clients[d], open', bases', gear', tpl', history'),
         k.pc = "counted" => k.seg \notin {"m_new", "m_bqty"} \/ Counted(k.seg) = {},
         k.pc = "counted" /\ k.seg = "add-extractor" =>
           \A d \in Counted("add-extractor") : clients[d].base # k.base,
         RoomForBases', Limits'
  PROVE  IInv'
<1> USE DEF IInv, AccessOnly
<1>1. /\ clients' \in [Clients -> Client] /\ clients'[c] = k
      /\ \A d \in Clients : d # c => clients'[d] = clients[d]
  BY OneMoves DEF Typed
<1>2. Typed'
  BY <1>1 DEF Typed
<1>3. CacheHolds'
  BY StillForgetting DEF CacheHolds
<1>4. Admissions'
  BY <1>1 DEF Admissions
<1>5. Stocks'
  BY <1>1 DEF Stocks
<1>6. LocksHold'
  <2>1. ASSUME NEW seg \in {"m_new", "m_bqty"}, NEW d \in Counted(seg)', NEW e \in Counted(seg)'
        PROVE  d = e
    <3>1. /\ d \in Clients /\ e \in Clients
          /\ d # c => d \in Counted(seg)
          /\ e # c => e \in Counted(seg)
          /\ d = c \/ e = c => k.pc = "counted" /\ k.seg = seg
      BY CountedNow
    <3>2. CASE d = c \/ e = c
      BY <3>1, <3>2
    <3>3. CASE d # c /\ e # c
      BY <3>1, <3>3 DEF LocksHold
    <3> QED BY <3>2, <3>3
  <2>2. ASSUME NEW d \in Counted("add-extractor")', NEW e \in Counted("add-extractor")',
               clients'[d].base = clients'[e].base
        PROVE  d = e
    <3>1. /\ d \in Clients /\ e \in Clients
          /\ d # c => d \in Counted("add-extractor")
          /\ e # c => e \in Counted("add-extractor")
          /\ d = c \/ e = c => k.pc = "counted" /\ k.seg = "add-extractor"
      BY CountedNow
    <3> QED BY <1>1, <2>2, <3>1 DEF LocksHold
  <2> QED BY <2>1, <2>2 DEF LocksHold
<1> QED BY <1>2, <1>3, <1>4, <1>5, <1>6

(* The handler moves on without a change of its store, to no count of it.      *)
LEMMA StoreStays ==
  ASSUME IInv, NEW c \in Clients, NEW k \in Client, clients' = [clients EXCEPT ![c] = k],
         AccessOnly(c), clients[c].pc # "forget", Admission(k, row), UNCHANGED storeVars,
         Stock(k, open, bases, gear, tpl, history),
         k.pc = "counted" =>
           \/ k.seg \notin {"m_new", "m_bqty", "register"}
           \/ k.seg # "register" /\ Counted(k.seg) = {},
         k.pc = "counted" /\ k.seg = "add-extractor" =>
           \A d \in Counted("add-extractor") : clients[d].base # k.base
  PROVE  IInv'
<1>1. UNCHANGED <<open, bases, gear, tpl, history>>
  BY DEF storeVars, AccessOnly
<1>2. RoomForBases'
  BY <1>1, RoomKept DEF Live
<1>3. Limits'
  BY <1>1 DEF IInv, Limits
<1>4. \A d \in Clients : d # c => Stock(clients[d], open', bases', gear', tpl', history')
  BY <1>1 DEF IInv, Stocks
<1> QED BY <1>1, <1>2, <1>3, <1>4, StoreStep DEF IInv, Typed, Stocks

LEMMA WriteAloneInv == ASSUME IInv, NEW c \in Clients, WriteAlone(c) PROVE IInv'
<1>1. clients[c].pc = "act" /\ clients[c].pc \in Beyond
  BY DEF WriteAlone, At, Beyond, Working
<1> QED BY <1>1, MoveDone, OneAdmitted DEF WriteAlone, Move, AccessOnly

(* An interaction past its check moves on, to a place where it stays let in.   *)
LEMMA StaysIn ==
  ASSUME IInv, NEW c \in Clients, clients[c].pc \in Working
  PROVE  /\ clients[c] \in Client /\ Admission(clients[c], row)
         /\ row.server = "approved" /\ (clients[c].held \/ clients[c].excused)
         /\ clients[c].pc # "forget" /\ clients[c].pc \in Beyond
BY DEF IInv, Typed, Admissions, Admission, Working, Beyond

LEMMA CountOpenInv == ASSUME IInv, NEW c \in Clients, CountOpen(c) PROVE IInv'
<1>1. /\ clients[c].pc = "limited" /\ clients[c].seg = "m_new" /\ clients[c].pc \in Working
      /\ Counted("m_new") = {} /\ AccessOnly(c) /\ UNCHANGED storeVars
  BY DEF CountOpen, At, Working
<1>2. CASE Finish(c)
  BY <1>1, <1>2, FinishInv DEF AccessOnly
<1>3. CASE ~(open >= clients[c].limit) /\ Move(c, "counted")
  <2> DEFINE k == [clients[c] EXCEPT !.pc = "counted"]
  <2>1. k \in Client /\ k.pc = "counted" /\ Admission(k, row)
    BY <1>1, StaysIn, Moves DEF Beyond, Working, Early
  <2>2. k.seg = "m_new" /\ k.limit = clients[c].limit /\ clients' = [clients EXCEPT ![c] = k]
    BY <1>1, <1>3, StaysIn DEF Client, Move
  <2>3. open < k.limit
    BY <1>3, <2>1, <2>2 DEF IInv, Typed, Client
  <2> HIDE DEF k
  <2>4. Stock(k, open, bases, gear, tpl, history)
    BY <2>1, <2>2, <2>3 DEF Stock
  <2> QED BY <1>1, <2>1, <2>2, <2>4, StoreStays
<1> QED BY <1>2, <1>3 DEF CountOpen

LEMMA InsertRequestInv == ASSUME IInv, NEW c \in Clients, InsertRequest(c) PROVE IInv'
<1> DEFINE k == [clients[c] EXCEPT !.pc = "done"]
<1>1. /\ c \in Counted("m_new") /\ clients[c].pc = "counted" /\ clients[c].pc \in Working
      /\ clients[c].seg = "m_new"
      /\ open' = open + 1 /\ AccessOnly(c) /\ UNCHANGED <<bases, gear, tpl, history>>
  BY DEF InsertRequest, Counted, At, Working
<1>2. k \in Client /\ k.pc = "done" /\ Admission(k, row) /\ clients' = [clients EXCEPT ![c] = k]
  BY <1>1, StaysIn, MoveDone DEF InsertRequest, Move
<1> HIDE DEF k
<1>4. open' \in Nat
  BY <1>1 DEF IInv, Typed
<1>5. Limits' /\ RoomForBases'
  BY <1>1, <1>2, RoomKept DEF IInv, Limits, Live
<1>6. ASSUME NEW d \in Clients, d # c
      PROVE  Stock(clients[d], open', bases', gear', tpl', history')
  <2>1. ~(clients[d].pc = "counted" /\ clients[d].seg = "m_new")
    BY <1>1, <1>6 DEF IInv, LocksHold, Counted, At
  <2> QED BY <1>1, <2>1 DEF IInv, Stocks, Stock
<1>7. Stock(k, open', bases', gear', tpl', history')
  BY <1>2 DEF Stock
<1> QED BY <1>1, <1>2, <1>4, <1>5, <1>6, <1>7, StoreStep DEF IInv, Typed, Stocks

LEMMA CloseRequestInv == ASSUME IInv, CloseRequest PROVE IInv'
<1> USE DEF IInv, CloseRequest, accessVars
<1>1. open' \in Nat /\ open' < open
  BY DEF Typed
<1>2. Typed'
  BY <1>1 DEF Typed
<1>3. CacheHolds' /\ Admissions' /\ LocksHold' /\ RoomForBases'
  BY DEF CacheHolds, Admissions, LocksHold, RoomForBases, Live, Counted, Forgetting, At
<1>4. Stocks'
  BY <1>1 DEF Stocks, Stock, Typed, Client
<1>5. Limits'
  BY <1>1 DEF Limits, Typed
<1> QED BY <1>2, <1>3, <1>4, <1>5

LEMMA CountBasesInv == ASSUME IInv, NEW c \in Clients, CountBases(c) PROVE IInv'
<1>1. /\ clients[c].pc = "act" /\ clients[c].seg = "register" /\ clients[c].pc \in Working
      /\ AccessOnly(c) /\ UNCHANGED storeVars
      /\ UNCHANGED <<open, bases, gear, tpl, history>>
  BY DEF CountBases, Doing, At, Working, storeVars, AccessOnly
<1>2. CASE Finish(c)
  BY <1>1, <1>2, FinishInv DEF AccessOnly
<1>3. CASE ~(Cardinality(Live) >= BaseLimit) /\ Move(c, "counted")
  <2> DEFINE k == [clients[c] EXCEPT !.pc = "counted"]
  <2>1. k \in Client /\ k.pc = "counted" /\ Admission(k, row)
    BY <1>1, StaysIn, Moves DEF Beyond, Working, Early
  <2>2. k.seg = "register" /\ clients' = [clients EXCEPT ![c] = k]
    BY <1>1, <1>3, StaysIn DEF Client, Move
  <2> HIDE DEF k
  <2>3. Stock(k, open, bases, gear, tpl, history)
    BY <2>1, <2>2 DEF Stock
  <2>4. RoomForBases'
    <3>1. Counted("register")' \subseteq Clients /\ IsFiniteSet(Clients)
      BY <2>1, <2>2, CountedNow, InteractionsAssumption
    <3>2. Cardinality(Counted("register")') <= Cardinality(Clients)
      BY <3>1, FS_Subset
    <3>3. Cardinality(Counted("register")') \in Nat
      BY <3>1, FS_Subset, FS_CardinalityType
    <3>4. Live' = Live /\ Cardinality(Live) < BaseLimit
      BY <1>1, <1>3, Sizes DEF Live
    <3> QED BY <3>2, <3>3, <3>4, Sizes DEF RoomForBases
  <2>5. Limits'
    BY <1>1 DEF IInv, Limits
  <2>6. \A d \in Clients : d # c => Stock(clients[d], open', bases', gear', tpl', history')
    BY <1>1 DEF IInv, Stocks
  <2> QED BY <1>1, <2>1, <2>2, <2>3, <2>4, <2>5, <2>6, StaysIn, StoreStep DEF IInv, Typed, Stocks
<1> QED BY <1>2, <1>3 DEF CountBases

(* The new base was counted as a registration under way.                     *)
LEMMA InsertBaseInv == ASSUME IInv, NEW c \in Clients, InsertBase(c) PROVE IInv'
<1> DEFINE k == [clients[c] EXCEPT !.pc = "done"]
<1>1. /\ c \in Counted("register") /\ clients[c].pc = "counted" /\ clients[c].pc \in Working
      /\ clients[c].seg = "register"
      /\ AccessOnly(c) /\ UNCHANGED <<open, gear, tpl, history>>
  BY DEF InsertBase, Counted, At, Working, AccessOnly
<1>2. k \in Client /\ k.pc = "done" /\ Admission(k, row) /\ clients' = [clients EXCEPT ![c] = k]
  BY <1>1, StaysIn, MoveDone DEF InsertBase, Move
<1> HIDE DEF k
<1>3. PICK b \in 1..MaxBases : bases[b] = "none" /\ bases' = [bases EXCEPT ![b] = "live"]
  BY DEF InsertBase, IInv, Typed
<1>4. /\ bases' \in [1..MaxBases -> {"none", "live", "gone"}]
      /\ bases'[b] = "live" /\ \A a \in 1..MaxBases : a # b => bases'[a] = bases[a]
  BY <1>3 DEF IInv, Typed
<1>5. Live' = Live \cup {b} /\ b \notin Live
  BY <1>3, <1>4 DEF Live, IInv, Typed
<1>6. RoomForBases'
  <2>1. Counted("register")' = Counted("register") \ {c}
    BY <1>1, <1>2, CountedNow
  <2>2. Cardinality(Counted("register") \ {c}) = Cardinality(Counted("register")) - 1
    BY <1>1, Sizes, FS_RemoveElement
  <2>3. Cardinality(Live \cup {b}) = Cardinality(Live) + 1
    BY <1>5, Sizes, FS_AddElement
  <2>4. /\ Cardinality(Live') = Cardinality(Live) + 1
        /\ Cardinality(Counted("register")') = Cardinality(Counted("register")) - 1
    BY <1>5, <2>1, <2>2, <2>3
  <2>5. /\ Cardinality(Live) \in Nat /\ Cardinality(Counted("register")) \in Nat
        /\ Cardinality(Clients) \in Nat /\ BaseLimit \in Nat
        /\ Cardinality(Live) + Cardinality(Counted("register"))
             <= BaseLimit + Cardinality(Clients) - 1
    BY Sizes DEF IInv, RoomForBases
  <2> QED BY ONLY <2>4, <2>5 DEF RoomForBases
<1>7. Limits'
  BY <1>1 DEF IInv, Limits
<1>8. ASSUME NEW d \in Clients, d # c
      PROVE  Stock(clients[d], open', bases', gear', tpl', history')
  <2>1. Stock(clients[d], open, bases, gear, tpl, history)
    BY DEF IInv, Stocks
  <2> QED BY <1>1, <1>3, <1>4, <2>1 DEF Stock
<1>9. Stock(k, open', bases', gear', tpl', history')
  BY <1>2 DEF Stock
<1>10. \A a \in 1..MaxBases : bases'[a] = "none" => gear'[a] = 0
  BY <1>1, <1>4 DEF IInv, Typed
<1> QED BY <1>1, <1>2, <1>4, <1>6, <1>7, <1>8, <1>9, <1>10, StaysIn, StoreStep DEF IInv, Typed, Stocks

(* A base that is being given equipment is not deleted under it.             *)
LEMMA UnregisterInv ==
  ASSUME IInv, NEW c \in Clients, clients[c].pc \in Working, NEW gone, gone \subseteq Live,
         Unregister(c, gone)
  PROVE  IInv'
<1> DEFINE k == [clients[c] EXCEPT !.pc = "done"]
<1>1. AccessOnly(c) /\ UNCHANGED <<open, gear, tpl, history>>
  BY DEF Unregister
<1>2. k \in Client /\ k.pc = "done" /\ Admission(k, row) /\ clients' = [clients EXCEPT ![c] = k]
  BY <1>1, StaysIn, MoveDone DEF Unregister, Move
<1> HIDE DEF k
<1>3. /\ \A b \in gone : ~Locked(b)
      /\ bases' = [b \in 1..MaxBases |-> IF b \in gone THEN "gone" ELSE bases[b]]
  BY DEF Unregister, IInv, Typed
<1>4. /\ bases' \in [1..MaxBases -> {"none", "live", "gone"}]
      /\ \A b \in 1..MaxBases : /\ bases'[b] = "live" => bases[b] = "live"
                                /\ bases'[b] = "none" => bases[b] = "none"
                                /\ Locked(b) => bases'[b] = bases[b]
  BY <1>3 DEF IInv, Typed
<1>5. RoomForBases'
  <2>1. Live' \subseteq Live
    BY <1>4 DEF Live, IInv, Typed
  <2> QED BY <1>2, <2>1, RoomKept
<1>6. Limits'
  BY <1>1 DEF IInv, Limits
<1>7. ASSUME NEW d \in Clients, d # c
      PROVE  Stock(clients[d], open', bases', gear', tpl', history')
  <2>1. Stock(clients[d], open, bases, gear, tpl, history)
    BY DEF IInv, Stocks
  <2>2. clients[d].pc = "counted" /\ clients[d].seg = "add-extractor" => Locked(clients[d].base)
    BY DEF Locked, Counted, At
  <2> QED BY <1>1, <1>4, <2>1, <2>2 DEF Stock
<1>8. Stock(k, open', bases', gear', tpl', history')
  BY <1>2 DEF Stock
<1>9. \A b \in 1..MaxBases : bases'[b] = "none" => gear'[b] = 0
  BY <1>1, <1>4 DEF IInv, Typed
<1> QED BY <1>1, <1>2, <1>4, <1>5, <1>6, <1>7, <1>8, <1>9, StaysIn, StoreStep DEF IInv, Typed, Stocks

LEMMA DeletesInv ==
  ASSUME IInv, NEW c \in Clients, DeleteOne(c) \/ DeleteAll(c) PROVE IInv'
<1>1. clients[c].pc \in Working
  BY DEF DeleteOne, DeleteAll, Doing, At, Working
<1>2. CASE DeleteOne(c)
  <2>1. PICK b \in DOMAIN bases : Unregister(c, {b} \cap Live)
    BY <1>2 DEF DeleteOne
  <2>2. {b} \cap Live \subseteq Live
    OBVIOUS
  <2> QED BY <1>1, <2>1, <2>2, UnregisterInv
<1>3. CASE DeleteAll(c)
  <2>1. {b \in Live : b <= clients[c].base} \subseteq Live
    OBVIOUS
  <2> QED BY <1>1, <1>3, <2>1, UnregisterInv DEF DeleteAll
<1> QED BY <1>2, <1>3

LEMMA ScanBasesInv == ASSUME IInv, NEW c \in Clients, ScanBases(c) PROVE IInv'
<1>1. /\ clients[c].pc = "act" /\ clients[c].seg = "unregister" /\ clients[c].pc \in Working
      /\ UNCHANGED storeVars /\ UNCHANGED <<mix, row, cache, behind, stale>>
  BY DEF ScanBases, Doing, At, Working, AccessOnly
<1>2. PICK last \in 0..MaxBases :
        clients' = [clients EXCEPT ![c].pc = "scanned", ![c].base = last]
  BY DEF ScanBases
<1> DEFINE k == [clients[c] EXCEPT !.pc = "scanned", !.base = last]
<1>3. clients[c] \in Client /\ last \in Nat
  BY <1>1, StaysIn, InteractionsAssumption
<1>4. clients' = [clients EXCEPT ![c] = k]
  BY <1>2, <1>3 DEF IInv, Typed
<1>5. /\ k \in Client /\ k.pc = "scanned" /\ k.seg = clients[c].seg
      /\ k.server = clients[c].server
      /\ k.held = clients[c].held /\ k.excused = clients[c].excused
  BY <1>3 DEF Client, Beyond, Working
<1> HIDE DEF k
<1>6. Admission(k, row)
  BY <1>1, <1>5, StaysIn DEF Admission, Early
<1> QED BY <1>1, <1>4, <1>5, <1>6, OneAdmitted

LEMMA LockBaseInv == ASSUME IInv, NEW c \in Clients, LockBase(c) PROVE IInv'
<1>1. /\ clients[c].pc = "act" /\ clients[c].seg = "add-extractor" /\ clients[c].pc \in Working
      /\ AccessOnly(c) /\ UNCHANGED storeVars
  BY DEF LockBase, Doing, At, Working
<1>2. CASE Finish(c)
  BY <1>1, <1>2, FinishInv DEF AccessOnly
<1>3. ASSUME NEW b \in 1..MaxBases, ~Locked(b), b \in Live, gear[b] < GearLimit,
             clients' = [clients EXCEPT ![c].pc = "counted", ![c].base = b]
      PROVE  IInv'
  <2> DEFINE k == [clients[c] EXCEPT !.pc = "counted", !.base = b]
  <2>1. clients' = [clients EXCEPT ![c] = k]
    BY <1>3 DEF IInv, Typed
  <2>2. b \in Nat /\ clients[c] \in Client
    BY <1>1, StaysIn, InteractionsAssumption
  <2>3. /\ k \in Client /\ k.pc = "counted" /\ k.base = b /\ k.seg = clients[c].seg
        /\ k.server = clients[c].server /\ k.limit = clients[c].limit
        /\ k.held = clients[c].held /\ k.excused = clients[c].excused
    BY <2>2 DEF Client, Beyond, Working
  <2> HIDE DEF k
  <2>4. Admission(k, row)
    BY <1>1, <2>3, StaysIn DEF Admission, Early
  <2>5. Stock(k, open, bases, gear, tpl, history)
    BY <1>1, <1>3, <2>3 DEF Stock, Live
  <2>6. \A d \in Counted("add-extractor") : clients[d].base # k.base
    BY <1>3, <2>3 DEF Locked
  <2>7. clients[c].pc # "forget" /\ k.seg \notin {"m_new", "m_bqty", "register"}
    BY <1>1, <2>3
  <2>8. k \in Client
    BY <2>3
  <2> QED BY ONLY IInv, c \in Clients, <1>1, <2>1, <2>4, <2>5, <2>6, <2>7, <2>8, StoreStays
<1>4. PICK b \in 1..MaxBases :
        /\ ~Locked(b)
        /\ IF b \in Live /\ gear[b] < GearLimit
           THEN clients' = [clients EXCEPT ![c].pc = "counted", ![c].base = b]
           ELSE Finish(c)
  BY DEF LockBase, IInv, Typed
<1>5. CASE b \in Live /\ gear[b] < GearLimit
  BY <1>3, <1>4, <1>5
<1>6. CASE ~(b \in Live /\ gear[b] < GearLimit)
  BY <1>2, <1>4, <1>6
<1> QED BY <1>5, <1>6

LEMMA InsertExtractorInv == ASSUME IInv, NEW c \in Clients, InsertExtractor(c) PROVE IInv'
<1> DEFINE k == [clients[c] EXCEPT !.pc = "done"]
           b == clients[c].base
<1>1. /\ c \in Counted("add-extractor") /\ clients[c].pc = "counted" /\ clients[c].pc \in Working
      /\ clients[c].seg = "add-extractor"
      /\ AccessOnly(c) /\ UNCHANGED <<open, bases, tpl, history>>
  BY DEF InsertExtractor, Counted, At, Working, AccessOnly
<1>2. k \in Client /\ k.pc = "done" /\ Admission(k, row) /\ clients' = [clients EXCEPT ![c] = k]
  BY <1>1, StaysIn, MoveDone DEF InsertExtractor, Move
<1>3. b \in 1..MaxBases /\ bases[b] = "live" /\ gear[b] < GearLimit
  BY <1>1 DEF IInv, Stocks, Stock
<1>4. gear' = [gear EXCEPT ![b] = gear[b] + 1]
  BY DEF InsertExtractor
<1> HIDE DEF k, b
<1>5. /\ gear' \in [1..MaxBases -> Nat] /\ gear'[b] = gear[b] + 1 /\ gear[b] \in Nat
      /\ \A a \in 1..MaxBases : a # b => gear'[a] = gear[a]
  BY <1>3, <1>4 DEF IInv, Typed
<1>6. RoomForBases'
  BY <1>1, <1>2, RoomKept DEF Live
<1>7. Limits'
  <2>1. \A a \in 1..MaxBases : gear'[a] <= GearLimit
    BY <1>3, <1>5, InteractionsAssumption DEF IInv, Limits
  <2> QED BY <1>1, <2>1 DEF IInv, Limits
<1>8. ASSUME NEW d \in Clients, d # c
      PROVE  Stock(clients[d], open', bases', gear', tpl', history')
  <2>1. Stock(clients[d], open, bases, gear, tpl, history)
    BY DEF IInv, Stocks
  <2>2. clients[d].pc = "counted" /\ clients[d].seg = "add-extractor" => clients[d].base # b
    BY <1>1, <1>8 DEF IInv, LocksHold, Counted, At, b
  <2> QED BY <1>1, <1>5, <2>1, <2>2 DEF Stock
<1>9. Stock(k, open', bases', gear', tpl', history')
  BY <1>2 DEF Stock
<1>10. \A a \in 1..MaxBases : bases'[a] = "none" => gear'[a] = 0
  BY <1>1, <1>3, <1>5 DEF IInv, Typed
<1> QED BY <1>1, <1>2, <1>5, <1>6, <1>7, <1>8, <1>9, <1>10, StaysIn, StoreStep DEF IInv, Typed, Stocks

LEMMA RemoveExtractorInv == ASSUME IInv, NEW c \in Clients, RemoveExtractor(c) PROVE IInv'
<1> DEFINE k == [clients[c] EXCEPT !.pc = "done"]
<1>1. /\ clients[c].pc = "act" /\ clients[c].pc \in Working
      /\ AccessOnly(c) /\ UNCHANGED <<open, bases, tpl, history>>
  BY DEF RemoveExtractor, Doing, At, Working, AccessOnly
<1>2. k \in Client /\ k.pc = "done" /\ Admission(k, row) /\ clients' = [clients EXCEPT ![c] = k]
  BY <1>1, StaysIn, MoveDone DEF RemoveExtractor, Move
<1> HIDE DEF k
<1>3. PICK b \in 1..MaxBases : gear[b] > 0 /\ gear' = [gear EXCEPT ![b] = gear[b] - 1]
                              /\ bases[b] = "live"
  BY DEF RemoveExtractor, Live, IInv, Typed
<1>4. /\ gear' \in [1..MaxBases -> Nat]
      /\ \A a \in 1..MaxBases : gear[a] \in Nat /\ gear'[a] \in Nat /\ gear'[a] <= gear[a]
  BY <1>3 DEF IInv, Typed
<1>5. RoomForBases'
  BY <1>1, <1>2, RoomKept DEF Live
<1>6. Limits'
  <2>1. \A a \in 1..MaxBases : gear'[a] <= GearLimit
    BY <1>4, InteractionsAssumption DEF IInv, Limits
  <2> QED BY <1>1, <2>1 DEF IInv, Limits
<1>7. ASSUME NEW d \in Clients, d # c
      PROVE  Stock(clients[d], open', bases', gear', tpl', history')
  <2>1. Stock(clients[d], open, bases, gear, tpl, history)
    BY DEF IInv, Stocks
  <2> QED BY <1>1, <1>4, <2>1, InteractionsAssumption DEF Stock
<1>8. Stock(k, open', bases', gear', tpl', history')
  BY <1>2 DEF Stock
<1>9. \A a \in 1..MaxBases : bases'[a] = "none" => gear'[a] = 0
  BY <1>1, <1>4 DEF IInv, Typed
<1> QED BY <1>1, <1>2, <1>4, <1>5, <1>6, <1>7, <1>8, <1>9, StaysIn, StoreStep DEF IInv, Typed, Stocks

-----------------------------------------------------------------------------
(* The template.                                                             *)

LEMMA LockTemplateInv == ASSUME IInv, NEW c \in Clients, LockTemplate(c) PROVE IInv'
<1>1. /\ clients[c].pc = "limited" /\ clients[c].seg = "m_bqty" /\ clients[c].pc \in Working
      /\ Counted("m_bqty") = {} /\ AccessOnly(c) /\ UNCHANGED storeVars
  BY DEF LockTemplate, At, Working
<1>2. CASE Finish(c)
  BY <1>1, <1>2, FinishInv DEF AccessOnly
<1>3. ASSUME NEW i \in Items, tpl.exists, Cardinality(tpl.items) < clients[c].limit,
             clients' = [clients EXCEPT ![c].pc = "counted", ![c].item = {i}]
      PROVE  IInv'
  <2> DEFINE k == [clients[c] EXCEPT !.pc = "counted", !.item = {i}]
  <2>1. clients' = [clients EXCEPT ![c] = k] /\ clients[c] \in Client
    BY <1>3 DEF IInv, Typed
  <2>2. /\ k \in Client /\ k.pc = "counted" /\ k.item = {i} /\ k.seg = clients[c].seg
        /\ k.server = clients[c].server /\ k.limit = clients[c].limit
        /\ k.bar = clients[c].bar
        /\ k.held = clients[c].held /\ k.excused = clients[c].excused
    BY <2>1 DEF Client, Beyond, Working
  <2> HIDE DEF k
  <2>3. Admission(k, row)
    BY <1>1, <2>2, StaysIn DEF Admission, Early
  <2>4. Stock(k, open, bases, gear, tpl, history)
    BY <1>1, <1>3, <2>2 DEF Stock
  <2> QED BY <1>1, <2>1, <2>2, <2>3, <2>4, StoreStays
<1> QED BY <1>2, <1>3 DEF LockTemplate

(* Steps on the template that leave it in order.                             *)
LEMMA TemplateStep ==
  ASSUME IInv, NEW c \in Clients, clients[c].pc \in Working, Move(c, "done"), AccessOnly(c),
         UNCHANGED <<open, bases, gear>>,
         tpl' \in [exists : BOOLEAN, items : SUBSET Items], IsFiniteSet(tpl'.items),
         tpl'.exists \/ tpl'.items = {}, tpl'.exists => tpl.exists /\ tpl'.items \in history',
         history \subseteq history',
         Counted("m_bqty") \subseteq {c}
  PROVE  IInv'
<1> DEFINE k == [clients[c] EXCEPT !.pc = "done"]
<1>1. k \in Client /\ k.pc = "done" /\ Admission(k, row) /\ clients' = [clients EXCEPT ![c] = k]
  BY StaysIn, MoveDone DEF Move
<1> HIDE DEF k
<1>2. RoomForBases'
  BY <1>1, RoomKept DEF Live, AccessOnly
<1>3. Limits'
  BY DEF IInv, Limits
<1>4. ASSUME NEW d \in Clients, d # c
      PROVE  Stock(clients[d], open', bases', gear', tpl', history')
  <2>1. Stock(clients[d], open, bases, gear, tpl, history)
    BY DEF IInv, Stocks
  <2>2. ~(clients[d].pc = "counted" /\ clients[d].seg = "m_bqty")
    BY <1>4 DEF Counted, At
  <2> QED BY <2>1, <2>2 DEF Stock
<1>5. Stock(k, open', bases', gear', tpl', history')
  BY <1>1 DEF Stock
<1> QED BY <1>1, <1>2, <1>3, <1>4, <1>5, StaysIn, StoreStep DEF IInv, Typed

LEMMA InsertTemplateItemInv ==
  ASSUME IInv, NEW c \in Clients, InsertTemplateItem(c) PROVE IInv'
<1>1. /\ c \in Counted("m_bqty") /\ clients[c].pc = "counted" /\ clients[c].pc \in Working
      /\ clients[c].seg = "m_bqty" /\ Relist(tpl.items \cup clients[c].item)
  BY DEF InsertTemplateItem, Counted, At, Working
<1>2. PICK i \in Items : clients[c].item = {i}
  BY <1>1 DEF IInv, Stocks, Stock
<1>3. tpl.exists
  BY <1>1 DEF IInv, Stocks, Stock
<1>4. IsFiniteSet(tpl.items \cup {i})
  BY FS_AddElement DEF IInv, Typed
<1>6. /\ tpl' \in [exists : BOOLEAN, items : SUBSET Items] /\ tpl'.items = tpl.items \cup {i}
      /\ tpl'.exists = tpl.exists /\ history' = history \cup {tpl.items \cup {i}}
  BY <1>1, <1>2 DEF Relist, IInv, Typed
<1>7. Counted("m_bqty") \subseteq {c}
  BY <1>1 DEF IInv, LocksHold
<1> QED BY <1>1, <1>3, <1>4, <1>6, <1>7, TemplateStep DEF InsertTemplateItem

LEMMA FindTemplateItemInv ==
  ASSUME IInv, NEW c \in Clients, FindTemplateItem(c) PROVE IInv'
<1>1. /\ clients[c].pc = "act" /\ clients[c].seg = "tidels" /\ clients[c].pc \in Working
      /\ UNCHANGED storeVars
      /\ UNCHANGED <<mix, row, cache, behind, stale>>
  BY DEF FindTemplateItem, Doing, At, Working, AccessOnly
<1>2. PICK i \in tpl.items : clients' = [clients EXCEPT ![c].pc = "found", ![c].item = {i}]
  BY DEF FindTemplateItem
<1> DEFINE k == [clients[c] EXCEPT !.pc = "found", !.item = {i}]
<1>3. clients' = [clients EXCEPT ![c] = k] /\ {i} \in SUBSET Items /\ clients[c] \in Client
  BY <1>2 DEF IInv, Typed
<1>4. /\ k \in Client /\ k.pc = "found" /\ k.seg = clients[c].seg
      /\ k.server = clients[c].server /\ k.limit = clients[c].limit
      /\ k.held = clients[c].held /\ k.excused = clients[c].excused
  BY <1>3 DEF Client, Beyond, Working
<1> HIDE DEF k
<1>5. Admission(k, row)
  BY <1>1, <1>4, StaysIn DEF Admission, Early
<1> QED BY <1>1, <1>3, <1>4, <1>5, OneAdmitted

LEMMA RemoveTemplateItemInv ==
  ASSUME IInv, NEW c \in Clients, RemoveTemplateItem(c) PROVE IInv'
<1>1. /\ clients[c].pc = "found" /\ clients[c].pc \in Working /\ Counted("m_bqty") = {}
      /\ AccessOnly(c) /\ UNCHANGED <<open, bases, gear>>
  BY DEF RemoveTemplateItem, At, Working
<1>2. CASE tpl.exists
  <2>1. Relist(tpl.items \ clients[c].item) /\ Move(c, "done")
    BY <1>2 DEF RemoveTemplateItem
  <2>2. IsFiniteSet(tpl.items \ clients[c].item)
    BY FS_Subset DEF IInv, Typed
  <2>4. /\ tpl' \in [exists : BOOLEAN, items : SUBSET Items]
        /\ tpl'.items = tpl.items \ clients[c].item /\ tpl'.exists = tpl.exists
        /\ history' = history \cup {tpl.items \ clients[c].item}
    BY <2>1 DEF Relist, IInv, Typed
  <2> QED BY <1>1, <1>2, <2>1, <2>2, <2>4, TemplateStep
<1>3. CASE ~tpl.exists
  <2>1. Finish(c) /\ UNCHANGED <<tpl, history>>
    BY <1>3 DEF RemoveTemplateItem
  <2> QED BY <1>1, <2>1, FinishInv DEF AccessOnly, storeVars
<1> QED BY <1>2, <1>3

LEMMA DeleteTemplateInv ==
  ASSUME IInv, NEW c \in Clients, DeleteTemplate(c) PROVE IInv'
<1>1. /\ clients[c].pc = "act" /\ clients[c].pc \in Working /\ Counted("m_bqty") = {}
      /\ AccessOnly(c) /\ UNCHANGED <<open, bases, gear, history>>
  BY DEF DeleteTemplate, Doing, At, Working
<1>2. CASE tpl' = Deleted /\ Move(c, "done")
  <2>1. /\ tpl' \in [exists : BOOLEAN, items : SUBSET Items] /\ tpl'.items = {} /\ ~tpl'.exists
    BY <1>2 DEF Deleted
  <2>2. IsFiniteSet({})
    BY FS_EmptySet
  <2> QED BY <1>1, <1>2, <2>1, <2>2, TemplateStep
<1>3. CASE Finish(c) /\ UNCHANGED tpl
  BY <1>1, <1>3, FinishInv DEF AccessOnly, storeVars
<1> QED BY <1>2, <1>3 DEF DeleteTemplate

LEMMA ReadTemplateInv == ASSUME IInv, NEW c \in Clients, ReadTemplate(c) PROVE IInv'
<1>1. /\ clients[c].pc = "act" /\ clients[c].seg = "m_tuse" /\ clients[c].pc \in Working
      /\ UNCHANGED storeVars /\ UNCHANGED <<mix, row, cache, behind, stale>>
  BY DEF ReadTemplate, Doing, At, Working, AccessOnly
<1>2. CASE Move(c, "reading")
  BY <1>1, <1>2, StaysIn, Moves, OneAdmitted DEF Move, Early, Beyond, Working
<1>3. CASE Finish(c)
  BY <1>1, <1>3, FinishInv
<1> QED BY <1>2, <1>3 DEF ReadTemplate

LEMMA ReadItemsInv == ASSUME IInv, NEW c \in Clients, ReadItems(c) PROVE IInv'
<1> DEFINE k == [clients[c] EXCEPT !.pc = "copied", !.item = tpl.items]
<1>1. /\ clients[c].pc = "reading" /\ clients[c].pc \in Working
      /\ AccessOnly(c) /\ UNCHANGED storeVars
  BY DEF ReadItems, At, Working
<1>2. /\ clients' = [clients EXCEPT ![c] = k] /\ tpl.items \in SUBSET Items
      /\ clients[c] \in Client
  BY DEF ReadItems, IInv, Typed
<1>3. /\ k \in Client /\ k.pc = "copied" /\ k.item = tpl.items /\ k.seg = clients[c].seg
      /\ k.server = clients[c].server /\ k.limit = clients[c].limit
      /\ k.held = clients[c].held /\ k.excused = clients[c].excused
  BY <1>2 DEF Client, Beyond, Working
<1> HIDE DEF k
<1>4. Admission(k, row)
  BY <1>1, <1>3, StaysIn DEF Admission, Early
<1>5. Stock(k, open, bases, gear, tpl, history)
  BY <1>3 DEF Stock, IInv, Stocks
<1> QED BY <1>1, <1>2, <1>3, <1>4, <1>5, StoreStays

LEMMA CreateFromTemplateInv ==
  ASSUME IInv, NEW c \in Clients, CreateFromTemplate(c) PROVE IInv'
<1>1. /\ clients[c].pc = "copied" /\ clients[c].pc \in Working
      /\ UNCHANGED storeVars /\ UNCHANGED <<mix, row, cache, behind, stale>>
  BY DEF CreateFromTemplate, At, Working, AccessOnly
<1>2. CASE Move(c, "done")
  BY <1>1, <1>2, StaysIn, MoveDone, OneAdmitted DEF Move
<1>3. CASE Finish(c)
  BY <1>1, <1>3, FinishInv
<1> QED BY <1>2, <1>3 DEF CreateFromTemplate

-----------------------------------------------------------------------------

LEMMA InitInv == Init => IInv
<1> SUFFICES ASSUME Init PROVE IInv
  OBVIOUS
<1> USE DEF Init, AccessInit
<1>1. /\ mix \in Mixes /\ open = 0 /\ stale = FALSE
      /\ clients = [c \in Clients |-> Quiet] /\ behind = FALSE
  BY AccessAssumption
<1>2. /\ row \in [server : {"absent", "pending", "approved"}, roles : SUBSET Roles,
                  limit : 0..MaxLimit]
      /\ row.limit = 0
  BY AccessAssumption
<1>3. /\ cache \in [server : AtMostOne({"pending", "approved"}), roles : AtMostOne(SUBSET Roles),
                    limit : AtMostOne(0..MaxLimit)]
      /\ cache.server = {} /\ cache.roles = {} /\ cache.limit = {}
  BY DEF AtMostOne
<1>4. /\ tpl.exists /\ tpl \in [exists : BOOLEAN, items : SUBSET Items]
      /\ IsFiniteSet(tpl.items) /\ tpl.items \in history
  BY InteractionsAssumption
<1>5. /\ bases \in [1..MaxBases -> {"none", "live", "gone"}] /\ gear \in [1..MaxBases -> Nat]
      /\ \A b \in 1..MaxBases : bases[b] = "none" /\ gear[b] = 0
  OBVIOUS
<1>6. Quiet \in Client /\ Admission(Quiet, row) /\ Quiet.pc = "idle"
  <2>1. /\ Quiet.pc = "idle" /\ Quiet.server = "absent" /\ Quiet.limit = 0 /\ ~Quiet.late
        /\ Quiet \in Client
    BY HomeIsSegment, AccessAssumption DEF Quiet, Client
  <2> QED BY <1>1, <2>1 DEF Admission, Early, Working, Beyond
<1>7. Typed
  <2>1. clients \in [Clients -> Client] /\ open \in Nat
    BY <1>1, <1>6, AccessAssumption
  <2>2. behind \in BOOLEAN /\ stale \in BOOLEAN
    BY <1>1
  <2>3. \A b \in 1..MaxBases : bases[b] = "none" => gear[b] = 0
    BY <1>5
  <2> QED BY ONLY <1>1, <1>2, <1>3, <1>4, <1>5, <2>1, <2>2, <2>3 DEF Typed
<1>8. CacheHolds /\ Admissions
  BY <1>1, <1>2, <1>3, <1>6 DEF CacheHolds, Admissions
<1>9. Stocks
  BY <1>1, <1>4, <1>6 DEF Stocks, Stock
<1>10. \A seg : Counted(seg) = {}
  BY <1>1, <1>6 DEF Counted, At
<1>11. LocksHold
  BY <1>10 DEF LocksHold
<1>12. RoomForBases
  <2>1. Live = {} /\ Cardinality(Live) = 0 /\ Cardinality(Counted("register")) = 0
    BY <1>5, <1>10, FS_EmptySet DEF Live
  <2>2. Cardinality(Clients) \in Nat /\ Cardinality(Clients) # 0 /\ BaseLimit \in Nat
    BY InteractionsAssumption, FS_CardinalityType, FS_EmptySet
  <2> QED BY <2>1, <2>2 DEF RoomForBases
<1>13. Limits
  BY <1>1, <1>4, <1>5, InteractionsAssumption DEF Limits
<1> QED BY <1>7, <1>8, <1>9, <1>11, <1>12, <1>13 DEF IInv

LEMMA NextInv == IInv /\ [Next]_vars => IInv'
<1> SUFFICES ASSUME IInv, [Next]_vars PROVE IInv'
  OBVIOUS
<1>1. CASE AccessNext /\ UNCHANGED storeVars
  BY <1>1, AccessInv
<1>2. ASSUME NEW c \in Clients,
             \/ WriteAlone(c) \/ CountOpen(c) \/ InsertRequest(c)
             \/ CountBases(c) \/ InsertBase(c)
             \/ DeleteOne(c) \/ ScanBases(c) \/ DeleteAll(c)
      PROVE  IInv'
  BY <1>2, WriteAloneInv, CountOpenInv, InsertRequestInv, CountBasesInv, InsertBaseInv,
     DeletesInv, ScanBasesInv
<1>3. ASSUME NEW c \in Clients, LockBase(c) \/ InsertExtractor(c) \/ RemoveExtractor(c)
      PROVE  IInv'
  BY <1>3, LockBaseInv, InsertExtractorInv, RemoveExtractorInv
<1>4. ASSUME NEW c \in Clients,
             \/ LockTemplate(c) \/ InsertTemplateItem(c)
             \/ FindTemplateItem(c) \/ RemoveTemplateItem(c) \/ DeleteTemplate(c)
             \/ ReadTemplate(c) \/ ReadItems(c) \/ CreateFromTemplate(c)
      PROVE  IInv'
  BY <1>4, LockTemplateInv, InsertTemplateItemInv, FindTemplateItemInv, RemoveTemplateItemInv,
     DeleteTemplateInv, ReadTemplateInv, ReadItemsInv, CreateFromTemplateInv
<1>5. CASE CloseRequest
  BY <1>5, CloseRequestInv
<1>6. CASE UNCHANGED vars
  <2>1. UNCHANGED <<mix, row, cache, behind, stale, clients, open, bases, gear, tpl, history>>
    BY <1>6 DEF vars, accessVars, storeVars
  <2>2. Typed' /\ CacheHolds' /\ Admissions' /\ Stocks'
    BY <2>1 DEF IInv, Typed, CacheHolds, Admissions, Stocks, Forgetting, At
  <2>3. LocksHold' /\ RoomForBases' /\ Limits'
    BY <2>1 DEF IInv, LocksHold, RoomForBases, Limits, Counted, Live, At
  <2> QED BY <2>2, <2>3 DEF IInv
<1> QED BY <1>1, <1>2, <1>3, <1>4, <1>5, <1>6 DEF Next

(* The invariant of the interactions, the caches and the stores.             *)
THEOREM IInvHolds == Spec => []IInv
BY InitInv, NextInv, PTL DEF Spec

(* Type correctness: a base that was never registered has no equipment, and a  *)
(* deleted template has left no items behind.                                *)
THEOREM TypeCorrect == Spec => []TypeOK
<1>1. IInv => TypeOK
  <2> SUFFICES ASSUME IInv PROVE TypeOK
    OBVIOUS
  <2> USE DEF IInv, Typed
  <2>1. ASSUME NEW S, NEW x \in AtMostOne(S) PROVE x \subseteq S /\ Cardinality(x) <= 1
    <3>1. CASE x = {}
      BY <3>1, FS_EmptySet
    <3>2. CASE x # {}
      <4>1. PICK e \in S : x = {e}
        BY <3>2 DEF AtMostOne
      <4>2. Cardinality({e}) = 1
        BY FS_Singleton
      <4> QED BY <4>1, <4>2
    <3> QED BY <3>1, <3>2
  <2>2. /\ cache.server \subseteq {"pending", "approved"} /\ Cardinality(cache.server) <= 1
        /\ cache.roles \subseteq SUBSET Roles /\ Cardinality(cache.roles) <= 1
        /\ cache.limit \subseteq 0..MaxLimit /\ Cardinality(cache.limit) <= 1
    <3> DEFINE Seen == {"pending", "approved"}
    <3>1. /\ cache.server \in AtMostOne(Seen)
          /\ cache.roles \in AtMostOne(SUBSET Roles)
          /\ cache.limit \in AtMostOne(0..MaxLimit)
      OBVIOUS
    <3> HIDE DEF Seen
    <3>2. cache.server \subseteq Seen /\ Cardinality(cache.server) <= 1
      BY ONLY <2>1, <3>1, Zenon
    <3>3. cache.roles \subseteq SUBSET Roles /\ Cardinality(cache.roles) <= 1
      BY ONLY <2>1, <3>1, Zenon
    <3>4. cache.limit \subseteq 0..MaxLimit /\ Cardinality(cache.limit) <= 1
      BY ONLY <2>1, <3>1, Zenon
    <3> QED BY <3>2, <3>3, <3>4 DEF Seen
  <2>3. \A c \in Clients :
          /\ clients[c].seg \in Segments /\ clients[c].who \in Members
          /\ clients[c].roles \cup clients[c].drop \subseteq Roles
          /\ clients[c].item \subseteq Items
    BY DEF Client
  <2> QED BY <2>2, <2>3 DEF TypeOK
<1> QED BY IInvHolds, <1>1, PTL

(* Counting bases under no lock can be raced past, by one for every member at   *)
(* work but one, and by no more.                                             *)
THEOREM RegistrationsOvershoot ==
  Spec => [](Cardinality(Live) <= BaseLimit + Cardinality(Clients) - 1)
<1>1. IInv => Cardinality(Live) <= BaseLimit + Cardinality(Clients) - 1
  BY Sizes DEF IInv, RoomForBases
<1> QED BY IInvHolds, <1>1, PTL

-----------------------------------------------------------------------------
(* What a step commits.                                                      *)

(* Only a handler that was let in makes a change, each by its own write, and    *)
(* only a template that is still there makes a contract.                     *)
Counts == {"m_new", "m_bqty", "add-extractor"}
CommitOf(c) ==
  /\ clients[c].pc \in Working
  /\ clients[c].seg = "m_tuse" => clients[c].pc = "copied" /\ tpl.exists
  /\ clients[c].seg = "m_new" => InsertRequest(c)
  /\ clients[c].seg = "m_bqty" => InsertTemplateItem(c)
  /\ clients[c].seg = "add-extractor" => InsertExtractor(c)

LEMMA CommitsWork ==
  ASSUME IInv, [Next]_vars, NEW c \in Clients, Commits(c)
  PROVE  CommitOf(c)
<1>1. /\ clients \in [Clients -> Client] /\ clients[c].pc \notin {"forget", "done"}
      /\ clients'[c].pc \in {"forget", "done"} /\ Quiet.pc = "idle"
  BY DEF Commits, IInv, Typed, Quiet
<1>2. ASSUME NEW d \in Clients, NEW k, clients' = [clients EXCEPT ![d] = k]
      PROVE  d = c /\ k.pc \in {"forget", "done"}
  BY <1>1, <1>2
<1>3. ASSUME NEW d \in Clients, Finish(d) PROVE FALSE
  BY <1>1, <1>2, <1>3 DEF Finish
<1>4. ASSUME NEW d \in Clients, NEW pc, Move(d, pc) PROVE d = c /\ pc \in {"forget", "done"}
  BY <1>1, <1>4 DEF Move, Client
<1>6. Admission(clients[c], row)
  BY DEF IInv, Admissions
<1>7. ASSUME NEW d \in Clients,
             \/ Press(d) \/ SubmitForm(d) \/ DropForm(d)
             \/ ServerHit(d) \/ ServerRead(d) \/ ServerAdd(d) \/ Upsert(d) \/ Prime(d)
      PROVE  FALSE
  <2>1. ASSUME NEW server PROVE ~WithServer(d, server)
    BY <1>3, <1>4 DEF WithServer
  <2>2. ~Press(d)
    <3>1. ASSUME Press(d) PROVE clients'[d].pc = "server" /\ \A e \in Clients \ {d} : clients'[e] = clients[e]
      BY <1>1, <3>1 DEF Press, Quiet
    <3> QED BY <1>1, <3>1
  <2>5. ~SubmitForm(d) /\ ~DropForm(d)
    BY <1>1, <1>3 DEF SubmitForm, DropForm, Client
  <2>3. ~ServerHit(d) /\ ~ServerRead(d) /\ ~ServerAdd(d)
    BY <1>1, <2>1 DEF ServerHit, ServerRead, ServerAdd, Client
  <2>4. ~Upsert(d) /\ ~Prime(d)
    BY <1>1, <1>3 DEF Upsert, Prime, Client
  <2> QED BY <1>7, <2>2, <2>3, <2>4, <2>5
<1>8. ASSUME NEW d \in Clients,
             PassGate(d) \/ GateHit(d) \/ GateRead(d) \/ GateAdd(d) \/ Proceed(d)
      PROVE  FALSE
  <2>1. ~Admitted(d)
    <3>1. ASSUME NEW form,
                 clients' = [clients EXCEPT ![d] =
                   [Quiet EXCEPT !.pc = "form", !.seg = form, !.who = clients[d].who]]
          PROVE  FALSE
      BY <1>1, <3>1 DEF Quiet
    <3>2. ASSUME clients' = [clients EXCEPT ![d] =
                   [@ EXCEPT !.pc = "act", !.server = "absent", !.roles = {}, !.late = FALSE]]
          PROVE  FALSE
      BY <1>1, <3>2 DEF Client
    <3> QED BY <1>3, <3>1, <3>2 DEF Admitted
  <2>2. ~PassGate(d) /\ ~Proceed(d)
    BY <2>1 DEF PassGate, Proceed
  <2>3. ~GateHit(d)
    BY <1>1, <1>3 DEF GateHit, Client
  <2>4. ~GateRead(d) /\ ~GateAdd(d)
    BY <1>1, <1>3, <1>4 DEF GateRead, GateAdd, Client
  <2> QED BY <1>8, <2>2, <2>3, <2>4
<1>9. ASSUME NEW d \in Clients, SetRolesDelete(d) \/ Invalidate(d) \/ ForgetSettings(d)
      PROVE  FALSE
  <2>1. ~SetRolesDelete(d)
    <3>1. ASSUME NEW want,
                 clients' = [clients EXCEPT ![d].pc = "insert", ![d].roles = want,
                                            ![d].drop = row.roles \ want]
          PROVE  FALSE
      BY <1>1, <3>1 DEF Client
    <3> QED BY <3>1 DEF SetRolesDelete
  <2>2. ~Invalidate(d) /\ ~ForgetSettings(d)
    BY <1>1, <1>4 DEF Invalidate, ForgetSettings, At
  <2> QED BY <1>9, <2>1, <2>2
<1>10. ASSUME NEW d \in Clients,
              LimitHit(d) \/ LimitRead(d) \/ LimitAdd(d) \/ LimitFails(d) \/ Reply(d) \/ Fail(d)
       PROVE  FALSE
  <2>1. ASSUME NEW limit, NEW bar PROVE ~WithLimit(d, limit, bar)
    BY <1>1 DEF WithLimit, Client
  <2>2. ~LimitHit(d) /\ ~LimitAdd(d) /\ ~LimitFails(d)
    BY <2>1 DEF LimitHit, LimitAdd, LimitFails
  <2>3. ~LimitRead(d)
    BY <1>1 DEF LimitRead, Client
  <2> QED BY <1>3, <1>10, <2>2, <2>3 DEF Reply, Fail
<1> DEFINE Plainly == clients[c].pc \in Working /\ clients[c].seg \notin Counts \cup {"m_tuse"}
<1>5. Plainly => CommitOf(c)
  BY DEF CommitOf, Counts
<1> HIDE DEF Plainly
<1>11. CASE \E d \in Clients : SetRolesCommit(d) \/ SetRolesLost(d) \/ SetLimit(d)
  <2>1. PICK d \in Clients : SetRolesCommit(d) \/ SetRolesLost(d) \/ SetLimit(d)
    BY <1>11
  <2>2. CASE SetLimit(d)
    <3>1. PICK pc : clients' = [e \in Clients |->
            IF e = d THEN [clients[e] EXCEPT !.pc = pc]
            ELSE [clients[e] EXCEPT !.late = @ \/ clients[e].pc = "limitFill"]]
      BY <2>2 DEF SetLimit
    <3>2. d = c
      BY <1>1, <3>1 DEF Client
    <3> QED BY <1>5, <2>2, <3>2 DEF SetLimit, At, Working, Counts, Plainly
  <2>3. ASSUME NEW pc, At(d, "insert"), Granted(d, pc) PROVE CommitOf(c)
    <3>1. d = c
      BY <1>1, <2>3 DEF Granted, Client
    <3> QED BY <1>5, <1>6, <2>3, <3>1 DEF Admission, At, Working, Counts, Plainly
  <2> QED BY <2>1, <2>2, <2>3 DEF SetRolesCommit, SetRolesLost
<1>12. CASE ApprovedByHand \/ Evict \/ Restart
  BY <1>1, <1>12 DEF ApprovedByHand, Evict, Restart
<1>13. CASE CloseRequest \/ UNCHANGED vars
  BY <1>1, <1>13 DEF CloseRequest, vars, accessVars
<1>14. ASSUME NEW d \in Clients,
              \/ WriteAlone(d) \/ InsertBase(d) \/ DeleteOne(d) \/ DeleteAll(d)
              \/ RemoveExtractor(d) \/ RemoveTemplateItem(d) \/ DeleteTemplate(d)
       PROVE  CommitOf(c)
  <2>1. CASE WriteAlone(d)
    BY <1>4, <1>5, <2>1 DEF WriteAlone, At, Plain, Bases, Working, Counts, Plainly
  <2>2. CASE DeleteOne(d) \/ RemoveExtractor(d) \/ DeleteTemplate(d)
    BY <1>3, <1>4, <1>5, <2>2
    DEF DeleteOne, Unregister, RemoveExtractor, DeleteTemplate, Doing, At, Working, Counts, Plainly
  <2>3. CASE DeleteAll(d) \/ RemoveTemplateItem(d)
    BY <1>3, <1>4, <1>5, <1>6, <2>3
    DEF DeleteAll, Unregister, RemoveTemplateItem, At, Admission, Working, Counts, Plainly
  <2>4. CASE InsertBase(d)
    BY <1>4, <1>5, <2>4 DEF InsertBase, Counted, At, Working, Counts, Plainly
  <2> QED BY <1>14, <2>1, <2>2, <2>3, <2>4
<1>15. ASSUME NEW d \in Clients,
              InsertRequest(d) \/ InsertExtractor(d) \/ InsertTemplateItem(d)
       PROVE  CommitOf(c)
  <2>1. d = c
    BY <1>4, <1>15 DEF InsertRequest, InsertExtractor, InsertTemplateItem
  <2>2. clients[c].pc \in Working
    BY <1>15, <2>1
    DEF InsertRequest, InsertExtractor, InsertTemplateItem, Counted, At, Working
  <2>3. CASE InsertRequest(c)
    BY <2>2, <2>3 DEF CommitOf, InsertRequest, Counted
  <2>4. CASE InsertExtractor(c)
    BY <2>2, <2>4 DEF CommitOf, InsertExtractor, Counted
  <2>5. CASE InsertTemplateItem(c)
    BY <2>2, <2>5 DEF CommitOf, InsertTemplateItem, Counted
  <2> QED BY <1>15, <2>1, <2>3, <2>4, <2>5
<1>16. ASSUME NEW d \in Clients,
              \/ CountOpen(d) \/ CountBases(d) \/ ScanBases(d) \/ LockBase(d)
              \/ LockTemplate(d) \/ FindTemplateItem(d) \/ ReadTemplate(d) \/ ReadItems(d)
       PROVE  FALSE
  <2>1. ~CountOpen(d) /\ ~CountBases(d) /\ ~ReadTemplate(d)
    BY <1>3, <1>4 DEF CountOpen, CountBases, ReadTemplate
  <2>2. ~LockBase(d) /\ ~ScanBases(d)
    BY <1>1, <1>3 DEF LockBase, ScanBases, Client
  <2>3. ~LockTemplate(d)
    BY <1>1, <1>3 DEF LockTemplate, Client
  <2>4. ~FindTemplateItem(d) /\ ~ReadItems(d)
    BY <1>1 DEF FindTemplateItem, ReadItems, Client
  <2> QED BY <1>16, <2>1, <2>2, <2>3, <2>4
<1>17. ASSUME NEW d \in Clients, CreateFromTemplate(d)
       PROVE  CommitOf(c)
  <2>1. d = c /\ tpl.exists /\ clients[c].pc = "copied"
    BY <1>3, <1>4, <1>17 DEF CreateFromTemplate, At
  <2>2. clients[c].seg = "m_tuse"
    BY <1>6, <2>1 DEF Admission
  <2> QED BY <2>1, <2>2 DEF CommitOf, Working
<1>18. CASE AccessNext
  BY <1>7, <1>8, <1>9, <1>10, <1>11, <1>12, <1>18 DEF AccessNext
<1>19. ASSUME NEW d \in Clients,
              \/ WriteAlone(d) \/ CountOpen(d) \/ InsertRequest(d)
              \/ CountBases(d) \/ InsertBase(d)
              \/ DeleteOne(d) \/ ScanBases(d) \/ DeleteAll(d)
              \/ LockBase(d) \/ InsertExtractor(d) \/ RemoveExtractor(d)
              \/ LockTemplate(d) \/ InsertTemplateItem(d)
              \/ FindTemplateItem(d) \/ RemoveTemplateItem(d) \/ DeleteTemplate(d)
              \/ ReadTemplate(d) \/ ReadItems(d) \/ CreateFromTemplate(d)
       PROVE  CommitOf(c)
  BY <1>14, <1>15, <1>16, <1>17, <1>19
<1> QED BY <1>13, <1>18, <1>19 DEF Next

(* A change is made only on an approved server and for a member who was         *)
(* entitled to it since the button or the form, outside the two windows of     *)
(* the cache of grants.                                                      *)
THEOREM OnlyTheEntitledAct == Spec => RevokedCannotAct
<1>1. IInv /\ [Next]_vars =>
        [\A c \in Clients : Commits(c) =>
           /\ row.server = "approved"
           /\ clients[c].held \/ clients[c].excused]_vars
  BY CommitsWork, StaysIn DEF CommitOf
<1> QED BY IInvHolds, <1>1, PTL DEF Spec, RevokedCannotAct

(* What a handler adds stays within the limit in force when it asked for it,    *)
(* with any number of members at work and whatever the limit becomes: its      *)
(* count is current under the lock, and the cache gave it no older limit but   *)
(* in the two windows the property excuses.                                  *)
THEOREM LimitsAreKept == Spec => LimitsHold
<1>1. ASSUME IInv, [Next]_vars, NEW c \in Clients, Commits(c)
      PROVE  /\ clients[c].seg = "m_new" => open' <= clients[c].bar
             /\ clients[c].seg = "m_bqty" => Cardinality(tpl'.items) <= clients[c].bar
             /\ clients[c].seg = "add-extractor" => gear'[clients[c].base] <= GearLimit
  <2>1. CommitOf(c) /\ clients[c] \in Client /\ Admission(clients[c], row)
    BY <1>1, CommitsWork DEF IInv, Typed, Admissions
  <2>2. clients[c].limit \in Nat /\ clients[c].bar \in Nat /\ open \in Nat
    BY <1>1, <2>1 DEF IInv, Typed, Client
  <2>3. CASE clients[c].seg = "m_new"
    <3>1. clients[c].pc = "counted" /\ open' = open + 1
      BY <2>1, <2>3 DEF CommitOf, InsertRequest, Counted, At
    <3>2. open < clients[c].limit /\ clients[c].limit <= clients[c].bar
      BY <1>1, <2>1, <2>3, <3>1 DEF IInv, Stocks, Stock, Admission
    <3> QED BY <2>2, <2>3, <3>1, <3>2
  <2>4. CASE clients[c].seg = "m_bqty"
    <3>1. clients[c].pc = "counted" /\ Relist(tpl.items \cup clients[c].item)
      BY <2>1, <2>4 DEF CommitOf, InsertTemplateItem, Counted, At
    <3>2. PICK i \in Items : clients[c].item = {i}
      BY <1>1, <2>4, <3>1 DEF IInv, Stocks, Stock
    <3>3. Cardinality(tpl.items) < clients[c].limit /\ clients[c].limit <= clients[c].bar
      BY <1>1, <2>1, <2>4, <3>1 DEF IInv, Stocks, Stock, Admission
    <3>4. tpl'.items = tpl.items \cup {i} /\ IsFiniteSet(tpl.items)
      BY <1>1, <3>1, <3>2 DEF Relist, IInv, Typed
    <3>5. CASE i \in tpl.items
      <4>1. tpl'.items = tpl.items
        BY <3>4, <3>5
      <4> QED BY <1>1, <2>2, <2>4, <3>3, <4>1, Sizes
    <3>6. CASE i \notin tpl.items
      <4>1. Cardinality(tpl.items \cup {i}) = Cardinality(tpl.items) + 1
        BY <3>4, <3>6, FS_AddElement
      <4> QED BY <1>1, <2>2, <2>4, <3>3, <3>4, <4>1, Sizes
    <3> QED BY <3>5, <3>6
  <2>5. CASE clients[c].seg = "add-extractor"
    <3>1. clients[c].pc = "counted" /\ gear' = [gear EXCEPT ![clients[c].base] = @ + 1]
      BY <2>1, <2>5 DEF CommitOf, InsertExtractor, Counted, At
    <3>2. clients[c].base \in 1..MaxBases /\ gear[clients[c].base] < GearLimit
      BY <1>1, <2>5, <3>1 DEF IInv, Stocks, Stock
    <3>3. gear'[clients[c].base] = gear[clients[c].base] + 1 /\ gear[clients[c].base] \in Nat
      BY <1>1, <3>1, <3>2 DEF IInv, Typed
    <3>4. GearLimit \in Nat
      BY InteractionsAssumption
    <3> QED BY <2>5, <3>2, <3>3, <3>4
  <2>6. CASE clients[c].seg \notin {"m_new", "m_bqty", "add-extractor"}
    BY <2>6
  <2> QED BY <2>3, <2>4, <2>5, <2>6
<1>2. IInv /\ [Next]_vars =>
        [\A c \in Clients : Commits(c) =>
           /\ clients[c].seg = "m_new" => open' <= clients[c].bar
           /\ clients[c].seg = "m_bqty" => Cardinality(tpl'.items) <= clients[c].bar
           /\ clients[c].seg = "add-extractor" => gear'[clients[c].base] <= GearLimit]_vars
  BY <1>1
<1> QED BY IInvHolds, <1>2, PTL DEF Spec, LimitsHold

(* A contract from a template has items the template had, whoever deletes it   *)
(* meanwhile, and no equipment goes to an unregistered base.                  *)
THEOREM NothingBuiltOnTheDeleted == Spec => NothingOnTheDeleted
<1>1. ASSUME IInv, [Next]_vars, NEW c \in Clients, Commits(c), clients[c].seg = "m_tuse"
      PROVE  clients[c].item \in history
  <2>1. clients[c].pc = "copied" /\ tpl.exists
    BY <1>1, CommitsWork DEF CommitOf
  <2> QED BY <1>1, <2>1 DEF IInv, Stocks, Stock
<1>2. ASSUME IInv, [Next]_vars, NEW b \in DOMAIN bases, gear'[b] > gear[b]
      PROVE  bases[b] = "live"
  <2>1. b \in 1..MaxBases /\ gear[b] \in Nat /\ gear \in [1..MaxBases -> Nat]
    BY <1>2 DEF IInv, Typed
  <2>2. CASE UNCHANGED gear
    BY <1>2, <2>1, <2>2
  <2>3. ASSUME NEW c \in Clients, RemoveExtractor(c) PROVE FALSE
    BY <1>2, <2>1, <2>3 DEF RemoveExtractor
  <2>4. ASSUME NEW c \in Clients, InsertExtractor(c) PROVE bases[b] = "live"
    <3>1. bases[clients[c].base] = "live" /\ clients[c].base \in 1..MaxBases
      BY <1>2, <2>4 DEF InsertExtractor, Counted, At, IInv, Stocks, Stock
    <3>2. clients[c].base = b
      BY <1>2, <2>1, <2>4, <3>1 DEF InsertExtractor
    <3> QED BY <3>1, <3>2
  <2>5. CASE (AccessNext /\ UNCHANGED storeVars) \/ CloseRequest \/ UNCHANGED vars
    BY <2>2, <2>5 DEF storeVars, CloseRequest, vars
  <2>6. ASSUME NEW c \in Clients,
               \/ WriteAlone(c) \/ CountOpen(c) \/ InsertRequest(c)
               \/ CountBases(c) \/ InsertBase(c) \/ LockBase(c)
               \/ DeleteOne(c) \/ ScanBases(c) \/ DeleteAll(c)
        PROVE  UNCHANGED gear
    BY <2>6 DEF storeVars, WriteAlone, CountOpen, InsertRequest, CountBases, InsertBase,
       Unregister, DeleteOne, ScanBases, DeleteAll, LockBase
  <2>7. ASSUME NEW c \in Clients,
               \/ LockTemplate(c) \/ InsertTemplateItem(c)
               \/ FindTemplateItem(c) \/ RemoveTemplateItem(c) \/ DeleteTemplate(c)
               \/ ReadTemplate(c) \/ ReadItems(c) \/ CreateFromTemplate(c)
        PROVE  UNCHANGED gear
    BY <2>7 DEF storeVars, LockTemplate, InsertTemplateItem, FindTemplateItem,
       RemoveTemplateItem, DeleteTemplate, ReadTemplate, ReadItems, CreateFromTemplate
  <2> QED BY <1>2, <2>2, <2>3, <2>4, <2>5, <2>6, <2>7 DEF Next
<1>3. IInv /\ [Next]_vars =>
        [/\ \A c \in Clients : Commits(c) /\ clients[c].seg = "m_tuse" =>
              clients[c].item \in history
         /\ \A b \in DOMAIN bases : gear'[b] > gear[b] => bases[b] = "live"]_vars
  BY <1>1, <1>2
<1> QED BY IInvHolds, <1>3, PTL DEF Spec, NothingOnTheDeleted
=============================================================================
