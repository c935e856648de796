---------------------------- MODULE Registration ----------------------------
(***************************************************************************)
(* How a machine becomes a node: the login and start commands and the      *)
(* running agent, which share the files of a data directory, and the       *)
(* coordinator's handlers for invites, registration, the exchange of a     *)
(* bootstrap token and the refresh of an access token.                     *)
(*                                                                         *)
(* A request is handled by a slot.  Its transaction locks one row with     *)
(* FOR UPDATE and commits in a later step.  The connection may break at    *)
(* any time: the command then fails, whatever became of the request.       *)
(* A machine runs one command at a time, next to its agent.  Writing a     *)
(* file is one step, unless the machine stops in the middle of it.         *)
(***************************************************************************)
EXTENDS Integers, Sequences, FiniteSets

CONSTANTS
    Machine,    \* data directories
    Invite,     \* invite tokens
    Slot,       \* concurrent requests
    CanStart,   \* machines that run "thirdshift start" and so an agent
    CanConfigure, \* machines whose host runs "thirdshift configure"
    Lossy,      \* may connections break?
    CanCrash,   \* may a machine stop in the middle of a command?
    CanExpire,  \* may tokens expire?
    None

RegistrationAssumption ==
    /\ CanStart \subseteq Machine /\ CanConfigure \subseteq Machine
    /\ None \notin Machine \cup Invite \cup Slot

VARIABLES
    invites,  \* invite_tokens
    nodes,    \* nodes with their node_keys and node_bootstrap_tokens rows
    slots,    \* requests being handled
    disk,     \* the files of each machine
    cmd,      \* the command each machine runs
    agent,    \* the agent of each machine
    set,      \* the machines whose host has chosen a schedule (history)
    refused   \* invites refused because they had expired (history)

vars == <<invites, nodes, slots, disk, cmd, agent, set, refused>>

\* Key files: none, left incomplete, or a key, numbered by its generation.
NoKey == 0
Torn  == -1

\* credentials.json: the node, and the node its access token was issued for.
NoCreds   == [node |-> 0, token |-> 0]
TornCreds == [node |-> -1, token |-> -1]

\* config.toml: whether it is there, and the schedule in it.
NoFiles == [key |-> NoKey, creds |-> NoCreds, cfg |-> [saved |-> FALSE, sched |-> "default"]]

IdleCmd   == [pc |-> "idle", invite |-> None, slot |-> None, node |-> 0, token |-> 0,
              sched |-> "default"]
IdleSlot  == [stage |-> "idle", kind |-> "none", invite |-> None, key |-> <<>>, node |-> 0]
IdleAgent == [node |-> 0, creds |-> NoCreds, saving |-> FALSE]

Key(m) == <<m, disk[m].key>>
HasKey(m) == disk[m].key > 0

-----------------------------------------------------------------------------
(* The coordinator.                                                        *)

CreateInvite(i) ==
    /\ invites[i].status = "none"
    /\ invites' = [invites EXCEPT ![i].status = "active"]
    /\ UNCHANGED <<nodes, slots, disk, cmd, agent, set, refused>>

Stage(s, stage) == slots' = [slots EXCEPT ![s].stage = stage]

InviteLocked(i) == \E s \in Slot : slots[s].stage = "locked" /\ slots[s].kind = "register"
                                   /\ slots[s].invite = i
BootLocked(n)   == \E s \in Slot : slots[s].stage = "locked" /\ slots[s].kind = "token"
                                   /\ slots[s].node = n

\* RegisterNode without FOR UPDATE: mutant of SelectInvite.
SelectInviteUnlocked(s) ==
    /\ slots[s].stage = "received" /\ slots[s].kind = "register"
    /\ LET i == slots[s].invite IN
       IF invites[i].status = "active" /\ ~invites[i].expired
       THEN Stage(s, "locked") /\ UNCHANGED refused
       ELSE Stage(s, "refused") /\ UNCHANGED refused
    /\ UNCHANGED <<invites, nodes, disk, cmd, agent, set>>

\* A used invite answered with the node it registered: mutant of SelectInvite.
SelectInviteAgain(s) ==
    /\ slots[s].stage = "received" /\ slots[s].kind = "register"
    /\ LET i == slots[s].invite IN
       /\ ~InviteLocked(i)
       /\ slots' = [slots EXCEPT ![s].stage = CASE invites[i].status = "used" -> "replied"
                                                [] invites[i].expired -> "refused"
                                                [] OTHER -> "locked",
                                 ![s].node = invites[i].by]
    /\ UNCHANGED <<invites, nodes, disk, cmd, agent, set, refused>>

\* The invite is read under its row lock.  That it is found expired is written in
\* the transaction that the error then rolls back.
SelectInvite(s) ==
    /\ slots[s].stage = "received" /\ slots[s].kind = "register"
    /\ LET i == slots[s].invite IN
       /\ ~InviteLocked(i)
       /\ IF invites[i].status = "active" /\ ~invites[i].expired
          THEN Stage(s, "locked") /\ UNCHANGED refused
          ELSE /\ Stage(s, "refused")
               /\ refused' = IF invites[i].status = "active" THEN refused \cup {i} ELSE refused
    /\ UNCHANGED <<invites, nodes, disk, cmd, agent, set>>

\* The node, its key and its bootstrap token are inserted and the invite is used.
RegisterNode(s) ==
    /\ slots[s].stage = "locked" /\ slots[s].kind = "register"
    /\ LET n == Len(nodes) + 1 IN
       /\ nodes' = Append(nodes, [key |-> slots[s].key, invite |-> slots[s].invite,
                                  boot |-> "unused", expired |-> FALSE, issued |-> 0])
       /\ invites' = [invites EXCEPT ![slots[s].invite].status = "used",
                                     ![slots[s].invite].by = n]
       /\ slots' = [slots EXCEPT ![s].stage = "replied", ![s].node = n]
    /\ UNCHANGED <<disk, cmd, agent, set, refused>>

SelectBootstrap(s) ==
    /\ slots[s].stage = "received" /\ slots[s].kind = "token"
    /\ LET n == slots[s].node IN
       /\ ~BootLocked(n)
       /\ Stage(s, IF nodes[n].boot = "unused" /\ ~nodes[n].expired THEN "locked" ELSE "refused")
    /\ UNCHANGED <<invites, nodes, disk, cmd, agent, set, refused>>

\* The token is used, committed, and only then is the access token issued.
ConsumeBootstrap(s) ==
    /\ slots[s].stage = "locked" /\ slots[s].kind = "token"
    /\ nodes' = [nodes EXCEPT ![slots[s].node].boot = "used", ![slots[s].node].issued = @ + 1]
    /\ Stage(s, "replied")
    /\ UNCHANGED <<invites, disk, cmd, agent, set, refused>>

\* The signature is checked against the node's active key.  A clock that is off by
\* more than five minutes is a refusal like any other.
RefreshToken(s) ==
    /\ slots[s].stage = "received" /\ slots[s].kind = "refresh"
    /\ \/ slots[s].node \in 1..Len(nodes) /\ nodes[slots[s].node].key = slots[s].key
          /\ Stage(s, "replied")
       \/ Stage(s, "refused")
    /\ UNCHANGED <<invites, nodes, disk, cmd, agent, set, refused>>

\* A statement fails or the request's context is cancelled: the transaction, with
\* its row lock, is rolled back.
HandlerFails(s) ==
    /\ Lossy /\ slots[s].stage \in {"received", "locked"}
    /\ Stage(s, "refused")
    /\ UNCHANGED <<invites, nodes, disk, cmd, agent, set, refused>>

Expire ==
    /\ CanExpire
    /\ \/ \E i \in Invite : /\ invites[i].status # "none" /\ ~invites[i].expired
                            /\ invites' = [invites EXCEPT ![i].expired = TRUE]
                            /\ UNCHANGED nodes
       \/ \E n \in 1..Len(nodes) : /\ ~nodes[n].expired
                                   /\ nodes' = [nodes EXCEPT ![n].expired = TRUE]
                                   /\ UNCHANGED invites
    /\ UNCHANGED <<slots, disk, cmd, agent, set, refused>>

-----------------------------------------------------------------------------
(* The commands.                                                           *)

\* The key of the data directory, created if there is none; a file that does not
\* decode is an error.
LoadOrCreateKey(m) == IF disk[m].key = NoKey THEN 1 ELSE disk[m].key

\* login --invite i, and start, which logs in without an invite: the configuration
\* is loaded here and kept until it is saved.
Login(m, i) ==
    /\ cmd[m].pc = "idle"
    /\ i = None => m \in CanStart /\ agent[m].node = 0
    /\ LoadOrCreateKey(m) > 0
    /\ disk' = [disk EXCEPT ![m].key = LoadOrCreateKey(m)]
    /\ cmd' = [cmd EXCEPT ![m] = [IdleCmd EXCEPT !.invite = i, !.sched = disk[m].cfg.sched,
                                    !.pc = IF i = None THEN "load" ELSE "register"]]
    /\ UNCHANGED <<invites, nodes, slots, agent, set, refused>>

\* LoadCredentials fails on a missing or incomplete file.
LoadCredentials(m) ==
    /\ cmd[m].pc = "load"
    /\ cmd' = [cmd EXCEPT ![m] = IF disk[m].creds.node > 0
                                 THEN [@ EXCEPT !.pc = "refresh", !.node = disk[m].creds.node]
                                 ELSE IdleCmd]
    /\ UNCHANGED <<invites, nodes, slots, disk, agent, set, refused>>

\* postJSON: the three requests of a command.
Send(m, kind) ==
    /\ cmd[m].pc = kind /\ cmd[m].slot = None
    /\ \E s \in Slot :
         /\ slots[s].stage = "idle"
         /\ slots' = [slots EXCEPT ![s] = [stage |-> "received", kind |-> kind, key |-> Key(m),
                                           invite |-> cmd[m].invite, node |-> cmd[m].node]]
         /\ cmd' = [cmd EXCEPT ![m].slot = s]
    /\ UNCHANGED <<invites, nodes, disk, agent, set, refused>>

Answered(m, kind, stage) ==
    cmd[m].pc = kind /\ cmd[m].slot # None /\ slots[cmd[m].slot].stage = stage
Free(m) == slots' = [slots EXCEPT ![cmd[m].slot] = IdleSlot]

\* nodeconfig.HasScheduleOverride: Save always writes the schedule, so any saved
\* file counts.
HasScheduleOverride(m) == disk[m].cfg.saved

\* A registered reply; the fleet's schedule goes into the configuration held in
\* memory unless the host has one.
Registered(m) ==
    /\ Answered(m, "register", "replied")
    /\ cmd' = [cmd EXCEPT ![m] = [@ EXCEPT !.pc = "token", !.slot = None,
                                    !.node = slots[cmd[m].slot].node,
                                    !.sched = IF HasScheduleOverride(m) THEN cmd[m].sched ELSE "fleet"]]
    /\ Free(m)
    /\ UNCHANGED <<invites, nodes, disk, agent, set, refused>>

GotToken(m) ==
    /\ \/ Answered(m, "token", "replied")
       \/ Answered(m, "refresh", "replied")
    /\ cmd' = [cmd EXCEPT ![m] = [@ EXCEPT !.pc = "save", !.slot = None, !.token = cmd[m].node]]
    /\ Free(m)
    /\ UNCHANGED <<invites, nodes, disk, agent, set, refused>>

\* An error reply, or none: the command ends.
RequestFails(m) ==
    /\ cmd[m].slot # None
    /\ \/ slots[cmd[m].slot].stage = "refused" /\ Free(m)
       \/ Lossy /\ UNCHANGED slots
    /\ cmd' = [cmd EXCEPT ![m] = IdleCmd]
    /\ UNCHANGED <<invites, nodes, disk, agent, set, refused>>

\* A request arrives a second time.
Repeat(s, t) ==
    /\ Lossy /\ slots[s].stage \in {"received", "locked"} /\ slots[t].stage = "idle"
    /\ slots' = [slots EXCEPT ![t] = [slots[s] EXCEPT !.stage = "received"]]
    /\ UNCHANGED <<invites, nodes, disk, cmd, agent, set, refused>>

\* A reply nobody waits for.
Unread(s) ==
    /\ slots[s].stage \in {"replied", "refused"} /\ \A m \in Machine : cmd[m].slot # s
    /\ slots' = [slots EXCEPT ![s] = IdleSlot]
    /\ UNCHANGED <<invites, nodes, disk, cmd, agent, set, refused>>

\* nodeconfig.Save, with the whole configuration as it was loaded ...
SaveConfig(m) ==
    /\ cmd[m].pc = "save"
    /\ disk' = [disk EXCEPT ![m].cfg = [saved |-> TRUE, sched |-> cmd[m].sched]]
    /\ cmd' = [cmd EXCEPT ![m].pc = "store"]
    /\ UNCHANGED <<invites, nodes, slots, agent, set, refused>>

\* ... and SaveCredentials.  start goes on to run the agent.
SaveCredentials(m) ==
    /\ cmd[m].pc = "store"
    /\ disk' = [disk EXCEPT ![m].creds = [node |-> cmd[m].node, token |-> cmd[m].token]]
    /\ cmd' = [cmd EXCEPT ![m] = IdleCmd]
    /\ agent' = [agent EXCEPT ![m].node = IF cmd[m].invite = None THEN cmd[m].node ELSE @]
    /\ UNCHANGED <<invites, nodes, slots, set, refused>>

\* configure: with a schedule, or with other settings only.
Configure(m, sched) ==
    /\ m \in CanConfigure
    /\ disk' = [disk EXCEPT ![m].cfg = [saved |-> TRUE, sched |-> IF sched THEN "host" ELSE @.sched]]
    /\ set' = IF sched THEN set \cup {m} ELSE set
    /\ UNCHANGED <<invites, nodes, slots, cmd, agent, refused>>

\* The machine stops, with its command and its agent.  A file being written is
\* left incomplete; a configuration cut short before its schedule still loads.
Crash(m) ==
    /\ CanCrash
    /\ \/ cmd[m].pc = "idle" /\ disk[m].key = NoKey /\ disk' = [disk EXCEPT ![m].key = Torn]
       \/ cmd[m].pc = "save" /\ disk' = [disk EXCEPT ![m].cfg = NoFiles.cfg]
       \/ (cmd[m].pc = "store" \/ agent[m].saving) /\ disk' = [disk EXCEPT ![m].creds = TornCreds]
       \/ cmd[m].pc # "idle" /\ UNCHANGED disk
    /\ cmd' = [cmd EXCEPT ![m] = IdleCmd]
    /\ agent' = [agent EXCEPT ![m] = IdleAgent]
    /\ UNCHANGED <<invites, nodes, slots, set, refused>>

-----------------------------------------------------------------------------
(* The agent.                                                              *)

\* RefreshAccessToken gets a token for the agent's own node and loads the
\* credentials ...
RefreshAccessToken(m) ==
    /\ agent[m].node > 0 /\ ~agent[m].saving
    /\ nodes[agent[m].node].key = Key(m)
    /\ disk[m].creds.node > 0
    /\ agent' = [agent EXCEPT ![m].creds = [disk[m].creds EXCEPT !.token = agent[m].node],
                              ![m].saving = TRUE]
    /\ UNCHANGED <<invites, nodes, slots, disk, cmd, set, refused>>

\* ... and saves them with it.
PersistToken(m) ==
    /\ agent[m].saving
    /\ disk' = [disk EXCEPT ![m].creds = agent[m].creds]
    /\ agent' = [agent EXCEPT ![m].saving = FALSE, ![m].creds = NoCreds]
    /\ UNCHANGED <<invites, nodes, slots, cmd, set, refused>>

StopAgent(m) ==
    /\ agent[m].node > 0
    /\ agent' = [agent EXCEPT ![m] = IdleAgent]
    /\ UNCHANGED <<invites, nodes, slots, disk, cmd, set, refused>>

-----------------------------------------------------------------------------
Init ==
    /\ invites = [i \in Invite |-> [status |-> "none", expired |-> FALSE, by |-> 0]]
    /\ nodes = <<>>
    /\ slots = [s \in Slot |-> IdleSlot]
    /\ disk = [m \in Machine |-> NoFiles]
    /\ cmd = [m \in Machine |-> IdleCmd]
    /\ agent = [m \in Machine |-> IdleAgent]
    /\ set = {}
    /\ refused = {}

Handle(s) ==
    \/ SelectInvite(s) \/ RegisterNode(s)
    \/ SelectBootstrap(s) \/ ConsumeBootstrap(s)
    \/ RefreshToken(s) \/ HandlerFails(s) \/ Unread(s)

Command(m) ==
    \/ \E i \in Invite : invites[i].status # "none" /\ Login(m, i)
    \/ Login(m, None)
    \/ LoadCredentials(m)
    \/ Send(m, "register") \/ Send(m, "token") \/ Send(m, "refresh")
    \/ Registered(m) \/ GotToken(m) \/ RequestFails(m)
    \/ SaveConfig(m) \/ SaveCredentials(m)
    \/ \E sched \in BOOLEAN : Configure(m, sched)
    \/ Crash(m)

Agent(m) == RefreshAccessToken(m) \/ PersistToken(m) \/ StopAgent(m)

Next ==
    \/ \E i \in Invite : CreateInvite(i)
    \/ \E s \in Slot : Handle(s) \/ \E t \in Slot : Repeat(s, t)
    \/ \E m \in Machine : Command(m) \/ Agent(m)
    \/ Expire

Spec == Init /\ [][Next]_vars

-----------------------------------------------------------------------------
(* Properties.                                                             *)

\* The tables, the files and the processes hold what they can hold.
TypeOK ==
    /\ \A i \in Invite : /\ invites[i].status \in {"none", "active", "used"}
                         /\ (invites[i].status = "used") <=> (invites[i].by \in 1..Len(nodes))
    /\ \A n \in 1..Len(nodes) : nodes[n].invite \in Invite /\ nodes[n].boot \in {"unused", "used"}
    /\ \A m \in Machine : /\ disk[m].key \in -1..2
                          /\ disk[m].creds.node \in -1..Len(nodes)
                          /\ cmd[m].slot \in Slot \cup {None}
                          /\ agent[m].node \in 0..Len(nodes)

\* An invite registers one node (pgstore.go RegisterNode): of two machines, or two
\* tries of one, that present the same invite at once, one becomes a node.
InviteOnce ==
    \A n, k \in 1..Len(nodes) : nodes[n].invite = nodes[k].invite => n = k

\* A bootstrap token is exchanged once (pgstore.go ConsumeBootstrap), however many
\* requests carry it.
BootstrapOnce == \A n \in 1..Len(nodes) : nodes[n].issued <= 1

\* Invites and bootstrap tokens are used once (RegisterNode, ConsumeBootstrap),
\* whoever presents them and however often.
TokensOnce == InviteOnce /\ BootstrapOnce

\* The credentials a login leaves behind name a node whose registered key is the
\* key of the data directory, so that signed refreshes are accepted (client.go
\* Login, identity.go LoadOrCreateKey): whatever was lost, repeated or cut short on
\* the way to them.
CredentialsMatchKey ==
    \A m \in Machine : disk[m].creds.node > 0 =>
        /\ nodes[disk[m].creds.node].key = Key(m)
        /\ nodes[disk[m].creds.node].boot = "used"

\* The key a node was registered with stays in the data directory of its machine
\* (identity.go LoadOrCreateKey): a stop between registration and stored
\* credentials leaves a key that the next login uses again.
RegisteredKeyKept == \A n \in 1..Len(nodes) : \E m \in Machine : nodes[n].key = Key(m)

\* "invite.status = expired" once an expired invite has been refused: what the
\* service's test store does in RegisterNode, and pgstore.go writes and rolls back.
RefusedIsMarkedExpired == \A i \in refused : invites[i].status = "expired"

\* "Re-login without an invite signs a token refresh request with the stored
\* private key": a machine whose key is registered can log in again (client.go
\* Login asks for the stored credentials, which only the end of a login writes).
RegisteredCanLogInAgain ==
    \A m \in Machine :
      (cmd[m].pc = "idle" /\ HasKey(m) /\ \E n \in 1..Len(nodes) : nodes[n].key = Key(m))
      => disk[m].creds.node > 0

\* The stored access token is the stored node's ("renews the node's access token
\* and persists it", client.go RefreshAccessToken).
TokenIsTheNodes == \A m \in Machine : disk[m].creds.token = disk[m].creds.node

\* A schedule the host has configured stays authoritative (client.go Login,
\* main.go runStart).
HostScheduleKept == \A m \in set : disk[m].cfg.sched = "host"

\* A fleet's schedule reaches a machine whose host has not chosen one, once the
\* machine has logged in with an invite (client.go Login, config.go
\* HasScheduleOverride).
FleetDefaultApplied ==
    \A m \in Machine \ set :
      (cmd[m].pc = "store" /\ cmd[m].invite # None) => disk[m].cfg.sched = "fleet"
=============================================================================
