------------------------------- MODULE Access -------------------------------
(* How an interaction gets as far as its handler, and what it is decided on.  *)
(*                                                                           *)
(* Every interaction resolves the server (servers.Manager), every one that    *)
(* asks for an access key has the member's roles checked against the server's *)
(* grants (permissions.Gate), and the handlers take the server's limits from  *)
(* its settings (settings.Store).  All three read through an in-memory cache  *)
(* that is filled outside any lock and dropped, or overwritten, after a       *)
(* write, while discordgo runs every interaction on a goroutine of its own.   *)
(*                                                                           *)
(* A client is such a goroutine together with the form it may have left open  *)
(* at the member's: opening a form and submitting it are two interactions.    *)
EXTENDS Routes, Naturals, FiniteSets

CONSTANTS
  Clients,      \* interactions in progress at a time
  Roles,        \* roles of the server that can be granted an access key
  RolesOf,      \* "admin", "officer" -> the roles the member has
  Mixes,        \* scenarios: [acts: what members press, server and roles: the
                \* rows at first, listed: is the server in APPROVED_SERVER_ID,
                \* faults: bound on evictions, restarts, lost answers, failed reads]
  DefaultLimit, \* the limit of a server that has not set one
  MaxLimit      \* bound: the largest limit that is set

Members == DOMAIN RolesOf

(* What comes in: interactions by their name, and the GuildCreate event.      *)
Segments == Views \cup Writes \cup Openers \cup {"guild"}

ASSUME AccessAssumption ==
  /\ "admin" \in Members
  /\ DefaultLimit \in Nat /\ MaxLimit \in Nat
  /\ \A m \in Mixes :
       /\ m.acts \subseteq [seg : Segments, who : Members]
       /\ m.server \subseteq {"absent", "pending", "approved"}
       /\ m.roles \subseteq SUBSET Roles

VARIABLES
  mix,     \* the scenario, fixed at Init
  row,     \* the database: [server, roles, limit] of the one server
  cache,   \* the same fields as sets: empty, or the one value cached
  behind,  \* was the cached grant mapping read before a change since confirmed?
  stale,   \* was the cached limit read before a change since confirmed?
  faults,
  clients

accessVars == <<mix, row, cache, behind, stale, faults, clients>>

Quiet == [pc |-> "idle", seg |-> "home", who |-> "admin", server |-> "absent",
          roles |-> {}, drop |-> {}, limit |-> 0, bar |-> 0, item |-> {},
          base |-> 0, held |-> FALSE, excused |-> FALSE, late |-> FALSE]

AccessInit ==
  /\ mix \in Mixes
  /\ row \in [server : mix.server, roles : mix.roles, limit : {0}]
  /\ cache = [server |-> {}, roles |-> {}, limit |-> {}]
  /\ behind = FALSE
  /\ stale = FALSE
  /\ faults = 0
  /\ clients = [c \in Clients |-> Quiet]

At(c, pc) == clients[c].pc = pc
Move(c, pc) == clients' = [clients EXCEPT ![c].pc = pc]
Finish(c) == clients' = [clients EXCEPT ![c] = Quiet]
Forgetting(seg) == \E c \in Clients : At(c, "forget") /\ clients[c].seg = seg
Fault == faults < mix.faults /\ faults' = faults + 1

(* May the member do this, as the rows of the database stand?                *)
Entitled(seg, who, granted) ==
  seg \notin Protected \/ who = "admin" \/ RolesOf[who] \cap granted # {}

(* session.go: an interaction comes in and its server is resolved first.     *)
Press(c) ==
  /\ At(c, "idle")
  /\ \E act \in mix.acts :
       clients' = [clients EXCEPT ![c] =
         [Quiet EXCEPT !.pc = "server", !.seg = act.seg, !.who = act.who,
                       !.held = Entitled(act.seg, act.who, row.roles)]]
  /\ UNCHANGED <<mix, row, cache, behind, stale, faults>>

SubmitForm(c) ==
  /\ At(c, "form")
  /\ clients' = [clients EXCEPT
       ![c].pc = "server",
       ![c].held = Entitled(clients[c].seg, clients[c].who, row.roles)]
  /\ UNCHANGED <<mix, row, cache, behind, stale, faults>>

DropForm(c) ==
  /\ At(c, "form") /\ Finish(c)
  /\ UNCHANGED <<mix, row, cache, behind, stale, faults>>

(* What the answer of serverFor is used for: an interaction goes on only on   *)
(* an approved server; a GuildCreate event writes only if there is something  *)
(* to change (a server never seen, or a listed one not yet approved).         *)
WithServer(c, server) ==
  IF clients[c].seg = "guild"
  THEN IF server = "absent" \/ (mix.listed /\ server # "approved")
       THEN Move(c, "upsert") ELSE Finish(c)
  ELSE IF server = "approved" THEN Move(c, "gate") ELSE Finish(c)

ServerHit(c) ==
  /\ At(c, "server")
  /\ \E server \in cache.server : WithServer(c, server)
  /\ UNCHANGED <<mix, row, cache, behind, stale, faults>>

ServerRead(c) ==
  /\ At(c, "server") /\ cache.server = {}
  /\ IF row.server = "absent" THEN WithServer(c, "absent")
     ELSE clients' = [clients EXCEPT ![c].pc = "serverFill", ![c].server = row.server]
  /\ UNCHANGED <<mix, row, cache, behind, stale, faults>>

ServerAdd(c) ==
  /\ At(c, "serverFill")
  /\ cache' = [cache EXCEPT !.server = {clients[c].server}]
  /\ WithServer(c, clients[c].server)
  /\ UNCHANGED <<mix, row, behind, stale, faults>>

(* servers.OnGuildCreate: the upsert promotes and never demotes; if its answer *)
(* is lost the cache is not primed.                                          *)
Upsert(c) ==
  /\ At(c, "upsert")
  /\ LET server == IF mix.listed \/ row.server = "approved" THEN "approved" ELSE "pending"
     IN /\ row' = [row EXCEPT !.server = server]
        /\ \/ /\ clients' = [clients EXCEPT ![c].pc = "prime", ![c].server = server]
              /\ UNCHANGED faults
           \/ Finish(c) /\ Fault
  /\ UNCHANGED <<mix, cache, behind, stale>>

Prime(c) ==
  /\ At(c, "prime")
  /\ cache' = [cache EXCEPT !.server = {clients[c].server}]
  /\ Finish(c)
  /\ UNCHANGED <<mix, row, behind, stale, faults>>

(* The operator approves the server by hand, in the database.                *)
ApprovedByHand ==
  /\ row.server = "pending"
  /\ row' = [row EXCEPT !.server = "approved"]
  /\ UNCHANGED <<mix, cache, behind, stale, faults, clients>>

(* The handler after its check: a form is opened, something is done, or a     *)
(* view is shown.                                                            *)
Admitted(c) ==
  \/ \E form \in Forms :
       /\ <<clients[c].seg, form>> \in OpensForm
       /\ clients' = [clients EXCEPT ![c] =
            [Quiet EXCEPT !.pc = "form", !.seg = form, !.who = clients[c].who]]
  \/ /\ clients[c].seg \in Writes
     /\ clients' = [clients EXCEPT ![c] =
          [@ EXCEPT !.pc = "act", !.server = "absent", !.roles = {}, !.late = FALSE]]
  \/ clients[c].seg \in Views /\ Finish(c)

(* session.allowed, gateMutation, authorizedKey and the panels' authorized:   *)
(* administrators pass, and so does what asks for no key.                    *)
PassGate(c) ==
  /\ At(c, "gate")
  /\ KeysOf(clients[c].seg) = {} \/ clients[c].who = "admin"
  /\ Admitted(c)
  /\ UNCHANGED <<mix, row, cache, behind, stale, faults>>

Checked(c) == At(c, "gate") /\ KeysOf(clients[c].seg) # {} /\ clients[c].who # "admin"

(* permissions.IsAllowed on the cached mapping: one of the member's roles     *)
(* must be granted; an empty mapping denies.                                 *)
GateHit(c) ==
  /\ Checked(c)
  /\ \E granted \in cache.roles :
       IF RolesOf[clients[c].who] \cap granted = {} THEN Finish(c)
       ELSE clients' = [clients EXCEPT
              ![c].pc = "passed", ![c].excused = behind \/ Forgetting("set")]
  /\ UNCHANGED <<mix, row, cache, behind, stale, faults>>

(* permissions.load: the mapping is read, then cached, whatever happened to    *)
(* it in between.                                                            *)
GateRead(c) ==
  /\ Checked(c) /\ cache.roles = {}
  /\ clients' = [clients EXCEPT ![c].pc = "gateFill", ![c].roles = row.roles]
  /\ UNCHANGED <<mix, row, cache, behind, stale, faults>>

GateAdd(c) ==
  /\ At(c, "gateFill")
  /\ cache' = [cache EXCEPT !.roles = {clients[c].roles}]
  /\ behind' = clients[c].late
  /\ IF RolesOf[clients[c].who] \cap clients[c].roles = {} THEN Finish(c) ELSE Move(c, "passed")
  /\ UNCHANGED <<mix, row, stale, faults>>

Proceed(c) ==
  /\ At(c, "passed") /\ Admitted(c)
  /\ UNCHANGED <<mix, row, cache, behind, stale, faults>>

(* permissions.SetRoles, in one transaction: the grants no longer wanted are  *)
(* deleted, then the wanted ones inserted.  A row another transaction is      *)
(* deleting is waited for.                                                   *)
SetRolesDelete(c) ==
  /\ At(c, "act") /\ clients[c].seg = "set"
  /\ \E want \in SUBSET Roles :
       /\ \A d \in Clients : At(d, "insert") => clients[d].drop \cap (row.roles \ want) = {}
       /\ clients' = [clients EXCEPT ![c].pc = "insert", ![c].roles = want,
                                     ![c].drop = row.roles \ want]
  /\ UNCHANGED <<mix, row, cache, behind, stale, faults>>

(* The commit, seen by everyone: whoever is entitled now has been entitled    *)
(* since it began; a mapping read before and not yet cached is out of date.   *)
Granted(c, pc) ==
  LET granted == (row.roles \ clients[c].drop) \cup clients[c].roles IN
  /\ \A d \in Clients \ {c} :
       At(d, "insert") => clients[d].drop \cap clients[c].roles = {}
  /\ row' = [row EXCEPT !.roles = granted]
  /\ clients' = [d \in Clients |->
       IF d = c THEN [clients[d] EXCEPT !.pc = pc]
       ELSE [clients[d] EXCEPT
         !.held = @ \/ (clients[d].pc \notin {"idle", "form"}
                        /\ Entitled(clients[d].seg, clients[d].who, granted)),
         !.late = @ \/ clients[d].pc = "gateFill"]]

SetRolesCommit(c) ==
  /\ At(c, "insert") /\ Granted(c, "forget")
  /\ UNCHANGED <<mix, cache, behind, stale, faults>>

(* Committed, but the answer is lost: SetRoles returns the error and the       *)
(* cache is not invalidated.                                                 *)
SetRolesLost(c) ==
  /\ At(c, "insert") /\ Granted(c, "done") /\ Fault
  /\ behind' = (cache.roles # {})
  /\ UNCHANGED <<mix, cache, stale>>

Invalidate(c) ==
  /\ At(c, "forget") /\ clients[c].seg = "set"
  /\ cache' = [cache EXCEPT !.roles = {}]
  /\ behind' = FALSE
  /\ Move(c, "done")
  /\ UNCHANGED <<mix, row, stale, faults>>

(* settings.Store: one column is written, then the server's settings are       *)
(* dropped from the cache; the answer can be lost here as well.  Settings that *)
(* were read and not yet cached are out of date.                             *)
SetLimit(c) ==
  /\ At(c, "act") /\ clients[c].seg = "m_slimit"
  /\ \E limit \in 1..MaxLimit : row' = [row EXCEPT !.limit = limit]
  /\ \E pc \in {"forget", "done"} :
       /\ clients' = [d \in Clients |->
            IF d = c THEN [clients[d] EXCEPT !.pc = pc]
            ELSE [clients[d] EXCEPT !.late = @ \/ clients[d].pc = "limitFill"]]
       /\ IF pc = "forget" THEN UNCHANGED <<stale, faults>>
          ELSE stale' = (cache.limit # {}) /\ Fault
  /\ UNCHANGED <<mix, cache, behind>>

(* The settings left in the cache after a change.                            *)
KeepSettings(c) ==
  /\ At(c, "forget") /\ clients[c].seg = "m_slimit"
  /\ Move(c, "done")
  /\ UNCHANGED <<mix, row, cache, behind, stale, faults>>

ForgetSettings(c) ==
  /\ At(c, "forget") /\ clients[c].seg = "m_slimit"
  /\ cache' = [cache EXCEPT !.limit = {}]
  /\ stale' = FALSE
  /\ Move(c, "done")
  /\ UNCHANGED <<mix, row, behind, faults>>

(* Handlers that ask for a limit before they open their transaction; the bar   *)
(* is the limit in force as they ask.                                        *)
AsksLimit(c) == At(c, "act") /\ clients[c].seg \in {"m_new", "m_bqty"}
Effective(limit) == IF limit = 0 THEN DefaultLimit ELSE limit
WithLimit(c, limit, bar) ==
  clients' = [clients EXCEPT ![c].pc = "limited", ![c].limit = Effective(limit), ![c].bar = bar]

(* What is cached may be out of date in the two windows the cache has.        *)
LimitHit(c) ==
  /\ AsksLimit(c)
  /\ \E limit \in cache.limit :
       WithLimit(c, limit,
         Effective(IF stale \/ Forgetting("m_slimit") THEN limit ELSE row.limit))
  /\ UNCHANGED <<mix, row, cache, behind, stale, faults>>

LimitRead(c) ==
  /\ AsksLimit(c) /\ cache.limit = {}
  /\ clients' = [clients EXCEPT ![c].pc = "limitFill", ![c].limit = row.limit,
                                ![c].bar = Effective(row.limit)]
  /\ UNCHANGED <<mix, row, cache, behind, stale, faults>>

LimitAdd(c) ==
  /\ At(c, "limitFill")
  /\ cache' = [cache EXCEPT !.limit = {clients[c].limit}]
  /\ stale' = clients[c].late
  /\ WithLimit(c, clients[c].limit, clients[c].bar)
  /\ UNCHANGED <<mix, row, behind, faults>>

(* The read fails: the defaults are used, and nothing is cached.             *)
LimitFails(c) ==
  /\ AsksLimit(c) /\ cache.limit = {}
  /\ WithLimit(c, 0, DefaultLimit) /\ Fault
  /\ UNCHANGED <<mix, row, cache, behind, stale>>

(* The handler has answered.                                                 *)
Reply(c) ==
  /\ At(c, "done") /\ Finish(c)
  /\ UNCHANGED <<mix, row, cache, behind, stale, faults>>

(* An error, the interaction's timeout or the session's end before the commit: *)
(* the transaction is rolled back and its locks are gone.                    *)
Fail(c) ==
  /\ clients[c].pc \notin {"idle", "form", "prime", "forget", "done"}
  /\ Finish(c)
  /\ UNCHANGED <<mix, row, cache, behind, stale, faults>>

(* The LRU drops an entry.                                                   *)
Evict ==
  /\ \/ cache.server # {} /\ cache' = [cache EXCEPT !.server = {}] /\ UNCHANGED <<behind, stale>>
     \/ /\ cache.roles # {} /\ cache' = [cache EXCEPT !.roles = {}]
        /\ behind' = FALSE /\ UNCHANGED stale
     \/ /\ cache.limit # {} /\ cache' = [cache EXCEPT !.limit = {}]
        /\ stale' = FALSE /\ UNCHANGED behind
  /\ Fault
  /\ UNCHANGED <<mix, row, clients>>

(* The process restarts: what it held in memory is gone, open forms are not.  *)
Restart ==
  /\ cache' = [server |-> {}, roles |-> {}, limit |-> {}]
  /\ behind' = FALSE /\ stale' = FALSE
  /\ clients' = [c \in Clients |-> IF At(c, "form") THEN clients[c] ELSE Quiet]
  /\ Fault
  /\ UNCHANGED <<mix, row>>

AccessNext ==
  \/ \E c \in Clients :
       \/ Press(c) \/ SubmitForm(c) \/ DropForm(c)
       \/ ServerHit(c) \/ ServerRead(c) \/ ServerAdd(c) \/ Upsert(c) \/ Prime(c)
       \/ PassGate(c) \/ GateHit(c) \/ GateRead(c) \/ GateAdd(c) \/ Proceed(c)
       \/ SetRolesDelete(c) \/ SetRolesCommit(c) \/ SetRolesLost(c) \/ Invalidate(c)
       \/ SetLimit(c) \/ ForgetSettings(c)
       \/ LimitHit(c) \/ LimitRead(c) \/ LimitAdd(c) \/ LimitFails(c)
       \/ Reply(c) \/ Fail(c)
  \/ ApprovedByHand \/ Evict \/ Restart
=============================================================================
