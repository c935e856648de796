----------------------- MODULE RegistrationTheorems ------------------------
(***************************************************************************)
(* What is proved of Registration, for every set of machines, invites and  *)
(* request slots, with lost replies, expiry and crashes: invites and       *)
(* bootstrap tokens are used once, the credentials on a machine's disk are *)
(* of the node registered with its key, and that key is kept.              *)
(***************************************************************************)
EXTENDS Registration, TLAPS

-----------------------------------------------------------------------------
(* What the tables, files and processes hold.                              *)

Creds   == [node : Int, token : Int]
Scheds  == {"default", "fleet", "host"}
InviteT == [status : {"none", "active", "used"}, expired : BOOLEAN, by : Nat]
KeyT    == (Machine \X Int) \cup {<<>>}
NodeT   == [key : KeyT, invite : Invite, boot : {"unused", "used"}, expired : BOOLEAN, issued : Nat]
SlotT   == [stage : {"idle", "received", "locked", "replied", "refused"},
            kind : {"none", "register", "token", "refresh"}, invite : Invite \cup {None},
            key : KeyT, node : Int]
FilesT  == [key : Int, creds : Creds, cfg : [saved : BOOLEAN, sched : Scheds]]
CmdT    == [pc : {"idle", "load", "register", "token", "refresh", "save", "store"},
            invite : Invite \cup {None}, slot : Slot \cup {None}, node : Int, token : Int,
            sched : Scheds]
AgentT  == [node : Int, creds : Creds, saving : BOOLEAN]

RegTypes ==
    /\ invites \in [Invite -> InviteT] /\ nodes \in Seq(NodeT) /\ slots \in [Slot -> SlotT]
    /\ disk \in [Machine -> FilesT] /\ cmd \in [Machine -> CmdT] /\ agent \in [Machine -> AgentT]

\* Node n was registered with the key of the machine's data directory.
Mine(m, n) == n \in 1..Len(nodes) /\ HasKey(m) /\ nodes[n].key = Key(m)

\* Each node has used up its invite, holds the key of a machine, and was issued an access
\* token if its bootstrap token is used.
NodesOk ==
    \A n \in 1..Len(nodes) :
      /\ invites[nodes[n].invite].status = "used" /\ invites[nodes[n].invite].by = n
      /\ nodes[n].issued <= 1
      /\ nodes[n].boot = "unused" => nodes[n].issued = 0
      /\ \E m \in Machine : Mine(m, n)

\* A request is of a machine with a key; under its lock the token it presents is good;
\* its reply names what was done.
SlotOk(x) ==
    /\ (x.kind = "register" /\ x.stage # "idle") =>
         x.invite \in Invite /\ \E m \in Machine : HasKey(m) /\ x.key = Key(m)
    /\ (x.kind = "register" /\ x.stage = "locked") => invites[x.invite].status = "active"
    /\ (x.kind = "register" /\ x.stage = "replied") =>
         x.node \in 1..Len(nodes) /\ nodes[x.node].key = x.key
    /\ (x.kind = "token" /\ x.stage # "idle") => x.node \in 1..Len(nodes)
    /\ (x.kind = "token" /\ x.stage = "locked") => nodes[x.node].boot = "unused"
    /\ (x.kind = "token" /\ x.stage = "replied") => nodes[x.node].boot = "used"

\* A row is locked by one transaction.
SameRow(x, y) == /\ x.stage = "locked" /\ y.stage = "locked" /\ x.kind = y.kind
                 /\ \/ x.kind = "register" /\ x.invite = y.invite
                    \/ x.kind = "token" /\ x.node = y.node
LocksOk == \A s, t \in Slot : SameRow(slots[s], slots[t]) => s = t

\* The request a command waits for is its own.
Serves(x, m, c) == /\ x.stage # "idle" /\ x.kind = c.pc /\ x.key = Key(m)
                   /\ c.pc = "token" => x.node = c.node

\* A command has a key; it has a node of its own once it is registered, and one that was
\* issued an access token once it has credentials.
CmdOk(m, c) ==
    /\ c.pc # "idle" => HasKey(m)
    /\ c.pc = "register" => c.invite \in Invite
    /\ c.slot # None => c.pc \in {"register", "token", "refresh"} /\ Serves(slots[c.slot], m, c)
    /\ c.pc \in {"token", "refresh", "save", "store"} => Mine(m, c.node)
    /\ c.pc \in {"refresh", "save", "store"} => nodes[c.node].boot = "used"

\* Credentials in a file or in the agent's hands name such a node.
CredsOk(m, n) == n > 0 => Mine(m, n) /\ nodes[n].boot = "used"

EInv ==
    /\ RegTypes /\ NodesOk /\ LocksOk
    /\ \A s \in Slot : SlotOk(slots[s])
    /\ \A m \in Machine : /\ CmdOk(m, cmd[m])
                          /\ CredsOk(m, disk[m].creds.node)
                          /\ agent[m].saving => CredsOk(m, agent[m].creds.node)

\* What no step takes back: nodes with their keys, tokens that are used, keys on disk.
Grow ==
    /\ Len(nodes') >= Len(nodes)
    /\ \A n \in 1..Len(nodes) : /\ nodes'[n].key = nodes[n].key
                                /\ nodes[n].boot = "used" => nodes'[n].boot = "used"
    /\ \A m \in Machine : HasKey(m) => HasKey(m)' /\ Key(m)' = Key(m)

\* The key tells the machine.
LEMMA KeyOfOne ==
  ASSUME NEW m \in Machine, NEW o \in Machine, Key(m) = Key(o)
  PROVE  m = o
BY DEF Key

LEMMA MineKept ==
  ASSUME RegTypes, Grow, RegTypes', NEW m \in Machine, NEW n, Mine(m, n)
  PROVE  Mine(m, n)' /\ (nodes[n].boot = "used" => nodes'[n].boot = "used")
<1>1. Len(nodes) \in Nat /\ Len(nodes') \in Nat
  BY DEF RegTypes
<1>2. n \in 1..Len(nodes')
  BY <1>1 DEF Grow, Mine
<1> QED
  BY <1>2 DEF Grow, Mine

LEMMA CredsKept ==
  ASSUME RegTypes, Grow, RegTypes', NEW m \in Machine, NEW n, CredsOk(m, n)
  PROVE  CredsOk(m, n)'
<1>1. CASE n > 0
  <2>1. Mine(m, n) /\ nodes[n].boot = "used"
    BY <1>1 DEF CredsOk
  <2>2. Mine(m, n)' /\ nodes'[n].boot = "used"
    BY <2>1, MineKept, ZenonT(60)
  <2> QED
    BY <2>2 DEF CredsOk
<1>2. CASE ~(n > 0)
  BY <1>2 DEF CredsOk
<1> QED
  BY <1>1, <1>2

LEMMA SlotKept ==
  ASSUME RegTypes, Grow, RegTypes', NEW x, SlotOk(x),
         (x.kind = "register" /\ x.stage = "locked") => invites'[x.invite].status = "active",
         (x.kind = "token" /\ x.stage = "locked") => nodes'[x.node].boot = "unused"
  PROVE  SlotOk(x)'
<1>1. Len(nodes) \in Nat /\ Len(nodes') \in Nat /\ Len(nodes') >= Len(nodes)
  BY DEF RegTypes, Grow
<1>2. ASSUME x.node \in 1..Len(nodes)
      PROVE  /\ x.node \in 1..Len(nodes') /\ nodes'[x.node].key = nodes[x.node].key
             /\ nodes[x.node].boot = "used" => nodes'[x.node].boot = "used"
  BY <1>1, <1>2 DEF Grow
<1>3. (\E m \in Machine : HasKey(m) /\ x.key = Key(m)) =>
        (\E m \in Machine : HasKey(m)' /\ x.key = Key(m)')
  BY DEF Grow
<1> QED
  BY <1>2, <1>3 DEF SlotOk

LEMMA CmdKept ==
  ASSUME RegTypes, Grow, RegTypes', NEW m \in Machine, NEW c, CmdOk(m, c),
         c.slot # None => /\ slots'[c.slot].stage # "idle"
                          /\ slots'[c.slot].kind = slots[c.slot].kind
                          /\ slots'[c.slot].key = slots[c.slot].key
                          /\ c.pc = "token" => slots'[c.slot].node = slots[c.slot].node
  PROVE  CmdOk(m, c)'
<1>1. c.pc # "idle" => HasKey(m) /\ HasKey(m)' /\ Key(m)' = Key(m)
  BY DEF CmdOk, Grow
<1>2. c.pc \in {"token", "refresh", "save", "store"} =>
        Mine(m, c.node)' /\ (nodes[c.node].boot = "used" => nodes'[c.node].boot = "used")
  BY MineKept DEF CmdOk
<1>3. c.slot # None => c.pc \in {"register", "token", "refresh"} /\ Serves(slots[c.slot], m, c)'
  BY <1>1 DEF CmdOk, Serves
<1>4. /\ c.pc # "idle" => HasKey(m)'
      /\ c.pc = "register" => c.invite \in Invite
      /\ c.pc \in {"token", "refresh", "save", "store"} => Mine(m, c.node)'
      /\ c.pc \in {"refresh", "save", "store"} => nodes'[c.node].boot = "used"
  BY <1>1, <1>2 DEF CmdOk
<1> QED
  BY <1>3, <1>4 DEF CmdOk

-----------------------------------------------------------------------------
(* One step lemma for each thing a step may write.                         *)

\* A step that leaves the nodes and the keys alone.
LEMMA GrowSame ==
  ASSUME RegTypes, nodes' = nodes, disk' = disk
  PROVE  Grow
<1>1. Len(nodes') >= Len(nodes)
  BY DEF RegTypes
<1>2. \A m \in Machine : HasKey(m)' = HasKey(m) /\ Key(m)' = Key(m)
  BY DEF HasKey, Key
<1> QED
  BY <1>1, <1>2 DEF Grow

\* A request is written: the handler moves it on, or it is copied, or let go of.
LEMMA SlotStep ==
  ASSUME EInv, NEW s \in Slot, NEW x \in SlotT, slots' = [slots EXCEPT ![s] = x], SlotOk(x),
         UNCHANGED <<invites, nodes, disk, cmd, agent>>,
         \A t \in Slot : t # s => ~SameRow(x, slots[t]) /\ ~SameRow(slots[t], x),
         \/ \A m \in Machine : cmd[m].slot # s
         \/ /\ x.stage # "idle" /\ x.kind = slots[s].kind
            /\ x.key = slots[s].key /\ x.node = slots[s].node
  PROVE  EInv'
<1>1. RegTypes /\ RegTypes'
  BY DEF EInv, RegTypes
<1>2. Grow
  BY <1>1, GrowSame
<1>3. NodesOk'
  BY DEF EInv, NodesOk, Mine, HasKey, Key
<1>4. \A t \in Slot : slots'[t] = IF t = s THEN x ELSE slots[t]
  BY <1>1 DEF RegTypes
<1>5. LocksOk'
  BY <1>4, SMTT(60) DEF EInv, LocksOk
<1>6. ASSUME NEW t \in Slot
      PROVE  SlotOk(slots[t])'
  <2>1. PICK y : y = slots'[t]
    BY ZenonT(60)
  <2>2. SlotOk(y)
    BY <1>4, <2>1 DEF EInv
  <2>3. SlotOk(y)'
    BY <2>2 DEF SlotOk, HasKey, Key
  <2> QED
    BY <2>1, <2>3 DEF SlotOk
<1>7. ASSUME NEW m \in Machine
      PROVE  CmdOk(m, cmd[m])'
  <2>1. PICK c : c = cmd[m]
    BY ZenonT(60)
  <2>2. CmdOk(m, c) /\ c \in CmdT
    BY <1>1, <2>1 DEF EInv, RegTypes
  <2>3. c.slot # None => c.slot \in Slot /\ slots[c.slot].stage # "idle"
    BY <2>2 DEF CmdT, CmdOk, Serves
  <2>4. c.slot # None => /\ slots'[c.slot].stage # "idle"
                         /\ slots'[c.slot].kind = slots[c.slot].kind
                         /\ slots'[c.slot].key = slots[c.slot].key
                         /\ c.pc = "token" => slots'[c.slot].node = slots[c.slot].node
    BY <1>4, <2>1, <2>3
  <2>5. CmdOk(m, c)'
    BY <1>1, <1>2, <2>2, <2>4, CmdKept, ZenonT(60)
  <2>6. c = cmd'[m]
    BY <2>1, ZenonT(60)
  <2> QED
    BY <2>5, <2>6 DEF CmdOk, Serves
<1>8. ASSUME NEW m \in Machine
      PROVE  /\ CredsOk(m, disk[m].creds.node)'
             /\ agent'[m].saving => CredsOk(m, agent[m].creds.node)'
  BY <1>8, ZenonT(60) DEF EInv, CredsOk, Mine, HasKey, Key
<1> QED
  BY <1>1, <1>3, <1>5, <1>6, <1>7, <1>8 DEF EInv

\* A handler moves its request on.
LEMMA StageStep ==
  ASSUME EInv, NEW s \in Slot, NEW st \in {"locked", "replied", "refused"}, Stage(s, st),
         UNCHANGED <<invites, nodes, disk, cmd, agent>>, slots[s].stage # "idle",
         st = "replied" => slots[s].kind = "refresh",
         st = "locked" => \/ /\ slots[s].kind = "register" /\ ~InviteLocked(slots[s].invite)
                             /\ invites[slots[s].invite].status = "active"
                          \/ /\ slots[s].kind = "token" /\ ~BootLocked(slots[s].node)
                             /\ nodes[slots[s].node].boot = "unused"
  PROVE  EInv'
<1>1. slots \in [Slot -> SlotT]
  BY DEF EInv, RegTypes
<1>2. PICK x : x = [slots[s] EXCEPT !.stage = st]
  BY ZenonT(60)
<1>3. /\ x \in SlotT /\ x.stage = st /\ x.kind = slots[s].kind /\ x.key = slots[s].key
      /\ x.node = slots[s].node /\ x.invite = slots[s].invite
  BY <1>1, <1>2 DEF SlotT
<1>4. slots' = [slots EXCEPT ![s] = x]
  BY <1>1, <1>2 DEF Stage
<1>5. SlotOk(slots[s])
  BY ZenonT(60) DEF EInv
<1>6. SlotOk(x)
  BY <1>3, <1>5 DEF SlotOk
<1>7. ASSUME NEW t \in Slot, t # s
      PROVE  ~SameRow(x, slots[t]) /\ ~SameRow(slots[t], x)
  BY <1>3 DEF SameRow, InviteLocked, BootLocked
<1>8. x.stage # "idle"
  BY <1>3
<1> QED
  BY <1>3, <1>4, <1>6, <1>7, <1>8, SlotStep, ZenonT(60)

\* The handlers that leave the tables alone, a repeated request and an unread reply.
LEMMA HandlerStep ==
  ASSUME EInv, NEW s \in Slot,
         \/ SelectInvite(s) \/ SelectBootstrap(s) \/ RefreshToken(s)
         \/ HandlerFails(s)
  PROVE  EInv'
<1>1. CASE SelectInvite(s)
  <2>1. /\ UNCHANGED <<invites, nodes, disk, cmd, agent>> /\ slots[s].stage # "idle"
        /\ slots[s].kind = "register" /\ ~InviteLocked(slots[s].invite)
    BY <1>1 DEF SelectInvite
  <2>2. \/ Stage(s, "locked") /\ invites[slots[s].invite].status = "active"
        \/ Stage(s, "refused")
    BY <1>1 DEF SelectInvite
  <2> QED
    BY <2>1, <2>2, StageStep, ZenonT(60)
<1>2. CASE SelectBootstrap(s)
  <2>1. /\ UNCHANGED <<invites, nodes, disk, cmd, agent>> /\ slots[s].stage # "idle"
        /\ slots[s].kind = "token" /\ ~BootLocked(slots[s].node)
    BY <1>2 DEF SelectBootstrap
  <2>2. \/ Stage(s, "locked") /\ nodes[slots[s].node].boot = "unused"
        \/ Stage(s, "refused")
    BY <1>2 DEF SelectBootstrap
  <2> QED
    BY <2>1, <2>2, StageStep
<1>3. CASE RefreshToken(s)
  <2>1. /\ UNCHANGED <<invites, nodes, disk, cmd, agent>> /\ slots[s].stage # "idle"
        /\ slots[s].kind = "refresh"
    BY <1>3 DEF RefreshToken
  <2>2. Stage(s, "replied") \/ Stage(s, "refused")
    BY <1>3 DEF RefreshToken
  <2> QED
    BY <2>1, <2>2, StageStep
<1>4. CASE HandlerFails(s)
  <2>1. /\ UNCHANGED <<invites, nodes, disk, cmd, agent>> /\ slots[s].stage # "idle"
        /\ Stage(s, "refused")
    BY <1>4 DEF HandlerFails
  <2> QED
    BY <2>1, StageStep
<1> QED
  BY <1>1, <1>2, <1>3, <1>4

\* No command waits for a request that is not there.
LEMMA IdleUnread ==
  ASSUME EInv, NEW s \in Slot, slots[s].stage = "idle", NEW m \in Machine
  PROVE  cmd[m].slot # s \/ cmd[m].slot = None
BY DEF EInv, CmdOk, Serves

LEMMA IdleSlotOk ==
  IdleSlot \in SlotT /\ SlotOk(IdleSlot) /\ IdleSlot.stage = "idle"
BY DEF IdleSlot, SlotT, SlotOk, KeyT

LEMMA RepeatStep ==
  ASSUME RegistrationAssumption, EInv, NEW s \in Slot, NEW t \in Slot, Repeat(s, t)
  PROVE  EInv'
<1>1. slots \in [Slot -> SlotT]
  BY DEF EInv, RegTypes
<1>2. PICK x : x = [slots[s] EXCEPT !.stage = "received"]
  BY ZenonT(60)
<1>3. /\ x \in SlotT /\ x.stage = "received" /\ x.kind = slots[s].kind /\ x.key = slots[s].key
      /\ x.node = slots[s].node /\ x.invite = slots[s].invite
  BY <1>1, <1>2 DEF SlotT
<1>4. /\ slots' = [slots EXCEPT ![t] = x] /\ UNCHANGED <<invites, nodes, disk, cmd, agent>>
      /\ slots[t].stage = "idle" /\ slots[s].stage # "idle"
  BY <1>2, ZenonT(60) DEF Repeat
<1>5. SlotOk(x)
  <2>1. SlotOk(slots[s])
    BY DEF EInv
  <2> QED
    BY <1>3, <1>4, <2>1, ZenonT(60) DEF SlotOk
<1>6. \A u \in Slot : ~SameRow(x, slots[u]) /\ ~SameRow(slots[u], x)
  BY <1>3 DEF SameRow
<1>7. \A m \in Machine : cmd[m].slot # t
  BY <1>4, IdleUnread DEF RegistrationAssumption
<1> QED
  BY <1>3, <1>4, <1>5, <1>6, <1>7, SlotStep, ZenonT(60)

LEMMA UnreadStep ==
  ASSUME EInv, NEW s \in Slot, Unread(s)
  PROVE  EInv'
<1>1. /\ slots' = [slots EXCEPT ![s] = IdleSlot] /\ UNCHANGED <<invites, nodes, disk, cmd, agent>>
      /\ \A m \in Machine : cmd[m].slot # s
  BY DEF Unread
<1>2. PICK x : x = IdleSlot
  BY ZenonT(60)
<1>3. x \in SlotT /\ SlotOk(x) /\ x.stage = "idle"
  BY <1>2, IdleSlotOk
<1>4. \A u \in Slot : ~SameRow(x, slots[u]) /\ ~SameRow(slots[u], x)
  BY <1>3 DEF SameRow
<1> QED
  BY <1>1, <1>2, <1>3, <1>4, SlotStep, ZenonT(60)

\* A machine writes its files, moves its command on, or its agent.
LEMMA MachineStep ==
  ASSUME EInv, NEW m \in Machine, NEW c \in CmdT, NEW f \in FilesT, NEW a \in AgentT,
         cmd' = [cmd EXCEPT ![m] = c], disk' = [disk EXCEPT ![m] = f],
         agent' = [agent EXCEPT ![m] = a], UNCHANGED <<invites, nodes, slots>>,
         HasKey(m) => f.key = disk[m].key,
         CmdOk(m, c)', CredsOk(m, f.creds.node)', a.saving => CredsOk(m, a.creds.node)'
  PROVE  EInv'
<1>1. RegTypes /\ RegTypes'
  BY DEF EInv, RegTypes
<1>2. \A o \in Machine : /\ cmd'[o] = IF o = m THEN c ELSE cmd[o]
                         /\ disk'[o] = IF o = m THEN f ELSE disk[o]
                         /\ agent'[o] = IF o = m THEN a ELSE agent[o]
  BY <1>1 DEF RegTypes
<1>3. Grow
  <2>1. Len(nodes') >= Len(nodes)
    BY <1>1 DEF RegTypes
  <2>2. ASSUME NEW o \in Machine, HasKey(o)
        PROVE  HasKey(o)' /\ Key(o)' = Key(o)
    BY <1>2, <2>2, ZenonT(60) DEF HasKey, Key
  <2> QED
    BY <2>1, <2>2 DEF Grow
<1>4. NodesOk'
  <2>1. ASSUME NEW n \in 1..Len(nodes), NEW o \in Machine, Mine(o, n)
        PROVE  Mine(o, n)'
    BY <1>1, <1>3, <2>1, MineKept, ZenonT(60)
  <2> QED
    BY <2>1 DEF EInv, NodesOk
<1>5. LocksOk'
  BY ZenonT(60) DEF EInv, LocksOk
<1>6. ASSUME NEW t \in Slot
      PROVE  SlotOk(slots[t])'
  <2>1. PICK y : y = slots[t]
    BY ZenonT(60)
  <2>2. SlotOk(y)
    BY <2>1, ZenonT(60) DEF EInv
  <2>3. /\ (y.kind = "register" /\ y.stage = "locked") => invites'[y.invite].status = "active"
        /\ (y.kind = "token" /\ y.stage = "locked") => nodes'[y.node].boot = "unused"
    BY <2>2 DEF SlotOk
  <2>4. SlotOk(y)'
    BY <1>1, <1>3, <2>2, <2>3, SlotKept, ZenonT(60)
  <2> QED
    BY <2>1, <2>4, ZenonT(60) DEF SlotOk
<1>7. ASSUME NEW o \in Machine
      PROVE  CmdOk(o, cmd[o])'
  <2>1. CASE o = m
    BY <1>2, <2>1, ZenonT(60) DEF CmdOk, Serves
  <2>2. CASE o # m
    <3>1. PICK d : d = cmd[o]
      BY ZenonT(60)
    <3>2. CmdOk(o, d) /\ d = cmd'[o]
      BY <1>2, <2>2, <3>1, ZenonT(60) DEF EInv
    <3>3. d.slot # None => slots'[d.slot].stage # "idle"
      BY <3>2, ZenonT(60) DEF CmdOk, Serves
    <3>4. CmdOk(o, d)'
      BY <1>1, <1>3, <3>2, <3>3, CmdKept, ZenonT(60)
    <3> QED
      BY <3>2, <3>4, ZenonT(60) DEF CmdOk, Serves
  <2> QED
    BY <2>1, <2>2, ZenonT(60)
<1>8. ASSUME NEW o \in Machine
      PROVE  /\ CredsOk(o, disk[o].creds.node)'
             /\ agent'[o].saving => CredsOk(o, agent[o].creds.node)'
  <2>1. CASE o = m
    BY <1>2, <2>1, ZenonT(60) DEF CredsOk
  <2>2. CASE o # m
    <3>1. PICK n, k : n = disk[o].creds.node /\ k = agent[o].creds.node
      BY ZenonT(60)
    <3>2. /\ n = disk'[o].creds.node /\ k = agent'[o].creds.node /\ agent'[o] = agent[o]
          /\ CredsOk(o, n) /\ (agent[o].saving => CredsOk(o, k))
      BY <1>2, <2>2, <3>1 DEF EInv
    <3>3. CredsOk(o, n)' /\ (agent[o].saving => CredsOk(o, k)')
      BY <1>1, <1>3, <3>2, CredsKept, ZenonT(60)
    <3> QED
      BY <3>2, <3>3, ZenonT(60) DEF CredsOk
  <2> QED
    BY <2>1, <2>2
<1> QED
  BY <1>1, <1>4, <1>5, <1>6, <1>7, <1>8, ZenonT(60) DEF EInv

\* A command writes a request, or lets go of one.
LEMMA CallStep ==
  ASSUME EInv, NEW s \in Slot, NEW x \in SlotT, NEW m \in Machine, NEW c \in CmdT,
         slots' = [slots EXCEPT ![s] = x], cmd' = [cmd EXCEPT ![m] = c],
         UNCHANGED <<invites, nodes, disk, agent>>,
         SlotOk(x), x.stage # "locked", \A o \in Machine : o # m => cmd[o].slot # s, CmdOk(m, c)'
  PROVE  EInv'
<1>1. RegTypes /\ RegTypes'
  BY DEF EInv, RegTypes
<1>2. Grow
  BY <1>1, GrowSame, ZenonT(60)
<1>3. NodesOk'
  BY DEF EInv, NodesOk, Mine, HasKey, Key
<1>4. /\ \A t \in Slot : slots'[t] = IF t = s THEN x ELSE slots[t]
      /\ \A o \in Machine : cmd'[o] = IF o = m THEN c ELSE cmd[o]
  BY <1>1, ZenonT(60) DEF RegTypes
<1>5. LocksOk'
  BY <1>4, SMTT(60) DEF EInv, LocksOk, SameRow
<1>6. ASSUME NEW t \in Slot
      PROVE  SlotOk(slots[t])'
  <2>1. PICK y : y = slots'[t]
    BY ZenonT(60)
  <2>2. SlotOk(y)
    BY <1>4, <2>1, ZenonT(60) DEF EInv
  <2>3. SlotOk(y)'
    BY <2>2 DEF SlotOk, HasKey, Key
  <2> QED
    BY <2>1, <2>3, ZenonT(60) DEF SlotOk
<1>7. ASSUME NEW o \in Machine
      PROVE  CmdOk(o, cmd[o])'
  <2>1. CASE o = m
    BY <1>4, <2>1, ZenonT(60) DEF CmdOk, Serves
  <2>2. CASE o # m
    <3>1. PICK d : d = cmd[o]
      BY ZenonT(60)
    <3>2. CmdOk(o, d) /\ d = cmd'[o] /\ d \in CmdT /\ d.slot # s
      BY <1>1, <1>4, <2>2, <3>1, ZenonT(60) DEF EInv, RegTypes
    <3>3. d.slot # None => d.slot \in Slot /\ slots[d.slot].stage # "idle"
      BY <3>2, ZenonT(60) DEF CmdT, CmdOk, Serves
    <3>4. d.slot # None => slots'[d.slot] = slots[d.slot]
      BY <1>4, <3>2, <3>3, ZenonT(60)
    <3>5. CmdOk(o, d)'
      BY <1>1, <1>2, <3>2, <3>3, <3>4, CmdKept, SMTT(60)
    <3> QED
      BY <3>2, <3>5, ZenonT(60) DEF CmdOk, Serves
  <2> QED
    BY <2>1, <2>2, ZenonT(60)
<1>8. ASSUME NEW o \in Machine
      PROVE  /\ CredsOk(o, disk[o].creds.node)'
             /\ agent'[o].saving => CredsOk(o, agent[o].creds.node)'
  BY <1>8, ZenonT(60) DEF EInv, CredsOk, Mine, HasKey, Key
<1> QED
  BY <1>1, <1>3, <1>5, <1>6, <1>7, <1>8, ZenonT(60) DEF EInv

-----------------------------------------------------------------------------
(* The machines' steps.                                                    *)

LEMMA IdleCmdOk ==
  ASSUME NEW m \in Machine
  PROVE  IdleCmd \in CmdT /\ CmdOk(m, IdleCmd)'
BY DEF IdleCmd, CmdT, Scheds, CmdOk

LEMMA IdleAgentOk ==
  IdleAgent \in AgentT /\ ~IdleAgent.saving
BY DEF IdleAgent, AgentT, Creds, NoCreds

LEMMA LoginStep ==
  ASSUME EInv, NEW m \in Machine, NEW i \in Invite \cup {None}, Login(m, i)
  PROVE  EInv'
<1>1. disk[m] \in FilesT /\ cmd[m] \in CmdT /\ agent[m] \in AgentT /\ RegTypes
  BY DEF EInv, RegTypes
<1>2. PICK f : f = [disk[m] EXCEPT !.key = LoadOrCreateKey(m)]
  BY ZenonT(60)
<1>3. /\ f \in FilesT /\ f.creds = disk[m].creds /\ f.key > 0
      /\ HasKey(m) => f.key = disk[m].key
  BY <1>1, <1>2 DEF FilesT, Login, LoadOrCreateKey, HasKey, NoKey
<1>4. PICK c : c = [IdleCmd EXCEPT !.invite = i, !.sched = disk[m].cfg.sched,
                                       !.pc = IF i = None THEN "load" ELSE "register"]
  OBVIOUS
<1>5. c \in CmdT /\ c.slot = None /\ c.invite = i /\ c.pc = IF i = None THEN "load" ELSE "register"
  <2>1. disk[m].cfg.sched \in Scheds
    BY <1>1 DEF FilesT
  <2>2. PICK d, pc : d = disk[m].cfg.sched /\ pc = IF i = None THEN "load" ELSE "register"
    OBVIOUS
  <2>3. c = [pc |-> pc, invite |-> i, slot |-> None, node |-> 0, token |-> 0, sched |-> d]
    BY <1>4, <2>2, ZenonT(60) DEF IdleCmd
  <2> QED
    BY <2>1, <2>2, <2>3 DEF CmdT
<1>6. /\ disk' = [disk EXCEPT ![m] = f] /\ cmd' = [cmd EXCEPT ![m] = c]
      /\ UNCHANGED <<invites, nodes, slots, agent>>
  BY <1>1, <1>2, <1>4 DEF Login, RegTypes
<1>7. agent' = [agent EXCEPT ![m] = agent[m]]
  BY <1>1, <1>6 DEF RegTypes
<1>8. disk'[m] = f
  BY <1>1, <1>6 DEF RegTypes
<1>9. CmdOk(m, c)'
  BY <1>3, <1>5, <1>8 DEF CmdOk, HasKey
<1>10. CredsOk(m, disk[m].creds.node) /\ (agent[m].saving => CredsOk(m, agent[m].creds.node))
  BY DEF EInv
<1>11. ASSUME NEW n, CredsOk(m, n)
       PROVE  CredsOk(m, n)'
  BY <1>3, <1>6, <1>8, <1>11 DEF CredsOk, Mine, HasKey, Key
<1>12. PICK n, k, a : n = f.creds.node /\ k = agent[m].creds.node /\ a = agent[m]
  BY ZenonT(60)
<1>13. CredsOk(m, n)' /\ (a.saving => CredsOk(m, k)')
  BY <1>3, <1>10, <1>11, <1>12, ZenonT(60)
<1>14. CredsOk(m, f.creds.node)' /\ (a.saving => CredsOk(m, a.creds.node)')
  BY <1>12, <1>13 DEF CredsOk
<1> QED
  BY <1>1, <1>3, <1>5, <1>6, <1>7, <1>9, <1>12, <1>14, MachineStep, ZenonT(60)

\* The steps of a machine that keep its key and all that the coordinator holds.
LEMMA LocalStep ==
  ASSUME EInv, NEW m \in Machine, NEW c \in CmdT, NEW f \in FilesT, NEW a \in AgentT,
         cmd' = [cmd EXCEPT ![m] = c], disk' = [disk EXCEPT ![m] = f],
         agent' = [agent EXCEPT ![m] = a], UNCHANGED <<invites, nodes, slots>>,
         f.key = disk[m].key,
         CmdOk(m, c), CredsOk(m, f.creds.node), a.saving => CredsOk(m, a.creds.node)
  PROVE  EInv'
<1>1. disk'[m].key = disk[m].key
  BY ZenonT(60) DEF EInv, RegTypes
<1>2. /\ CmdOk(m, c)' /\ CredsOk(m, f.creds.node)'
      /\ a.saving => CredsOk(m, a.creds.node)'
  BY <1>1, ZenonT(60) DEF CmdOk, Serves, CredsOk, Mine, HasKey, Key
<1> QED
  BY <1>2, MachineStep, ZenonT(60)

\* What a machine holds is in order.
LEMMA Holds ==
  ASSUME EInv, NEW m \in Machine
  PROVE  /\ cmd[m] \in CmdT /\ disk[m] \in FilesT /\ agent[m] \in AgentT
         /\ CmdOk(m, cmd[m]) /\ CredsOk(m, disk[m].creds.node)
         /\ agent[m].saving => CredsOk(m, agent[m].creds.node)
         /\ cmd = [cmd EXCEPT ![m] = cmd[m]] /\ disk = [disk EXCEPT ![m] = disk[m]]
         /\ agent = [agent EXCEPT ![m] = agent[m]]
BY DEF EInv, RegTypes

LEMMA LoadStep ==
  ASSUME EInv, NEW m \in Machine, LoadCredentials(m)
  PROVE  EInv'
<1>1. PICK c : c = IF disk[m].creds.node > 0
                   THEN [cmd[m] EXCEPT !.pc = "refresh", !.node = disk[m].creds.node]
                   ELSE IdleCmd
  OBVIOUS
<1>2. /\ cmd' = [cmd EXCEPT ![m] = c] /\ UNCHANGED <<invites, nodes, slots, disk, agent>>
      /\ cmd[m].pc = "load"
  BY <1>1 DEF LoadCredentials
<1>3. c \in CmdT
  BY <1>1, Holds, IdleCmdOk, ZenonT(60) DEF CmdT, FilesT, Creds
<1>4. CmdOk(m, c)
  <2>1. CASE disk[m].creds.node > 0
    <3>1. c.pc = "refresh" /\ c.node = disk[m].creds.node /\ c.slot = cmd[m].slot
      BY <1>1, <2>1, Holds DEF CmdT
    <3>2. cmd[m].slot = None
      BY <1>2, Holds, ZenonT(60) DEF CmdOk
    <3>3. Mine(m, c.node) /\ nodes[c.node].boot = "used"
      BY <2>1, <3>1, Holds DEF CredsOk
    <3> QED
      BY <3>1, <3>2, <3>3 DEF CmdOk, Mine
  <2>2. CASE ~(disk[m].creds.node > 0)
    BY <1>1, <2>2 DEF CmdOk, IdleCmd
  <2> QED
    BY <2>1, <2>2
<1>5. PICK f, a : f = disk[m] /\ a = agent[m]
  OBVIOUS
<1>6. /\ f \in FilesT /\ a \in AgentT /\ f.key = disk[m].key /\ CredsOk(m, f.creds.node)
      /\ a.saving => CredsOk(m, a.creds.node)
      /\ disk' = [disk EXCEPT ![m] = f] /\ agent' = [agent EXCEPT ![m] = a]
  BY <1>2, <1>5, Holds
<1> QED
  BY <1>2, <1>3, <1>4, <1>6, LocalStep, ZenonT(60)

\* Two machines do not wait for one request.
LEMMA OwnRequest ==
  ASSUME EInv, NEW m \in Machine, NEW o \in Machine, cmd[m].slot # None, cmd[o].slot = cmd[m].slot
  PROVE  o = m
<1>1. Serves(slots[cmd[m].slot], m, cmd[m]) /\ Serves(slots[cmd[o].slot], o, cmd[o])
  BY DEF EInv, CmdOk
<1>2. Key(m) = Key(o)
  BY <1>1 DEF Serves
<1> QED
  BY <1>2, KeyOfOne, ZenonT(60)

LEMMA RequestFailsStep ==
  ASSUME RegistrationAssumption, EInv, NEW m \in Machine, RequestFails(m)
  PROVE  EInv'
<1>1. PICK c, x, s, f, a : /\ c = IdleCmd /\ x = IdleSlot /\ s = cmd[m].slot
                           /\ f = disk[m] /\ a = agent[m]
  BY ZenonT(60)
<1>2. c \in CmdT /\ CmdOk(m, c) /\ CmdOk(m, c)'
  BY <1>1, IdleCmdOk DEF CmdOk, IdleCmd
<1>3. /\ cmd' = [cmd EXCEPT ![m] = c] /\ UNCHANGED <<invites, nodes, disk, agent>>
      /\ s \in Slot
      /\ slots' = slots \/ slots' = [slots EXCEPT ![s] = x]
  BY <1>1, Holds DEF RequestFails, Free, CmdT
<1>4. CASE slots' = slots
  <2>1. /\ f \in FilesT /\ a \in AgentT /\ f.key = disk[m].key /\ CredsOk(m, f.creds.node)
        /\ a.saving => CredsOk(m, a.creds.node)
        /\ disk' = [disk EXCEPT ![m] = f] /\ agent' = [agent EXCEPT ![m] = a]
    BY <1>1, <1>3, Holds
  <2> QED
    BY <1>2, <1>3, <1>4, <2>1, LocalStep, ZenonT(60)
<1>5. CASE slots' = [slots EXCEPT ![s] = x]
  <2>1. \A o \in Machine : o # m => cmd[o].slot # s
    BY <1>1, <1>3, OwnRequest DEF RequestFails
  <2>2. x \in SlotT /\ SlotOk(x) /\ x.stage # "locked"
    BY <1>1, IdleSlotOk
  <2> QED
    BY <1>2, <1>3, <1>5, <2>1, <2>2, CallStep, ZenonT(60)
<1> QED
  BY <1>3, <1>4, <1>5

\* A reply moves the command on and its request is let go of.
LEMMA RegisteredStep ==
  ASSUME RegistrationAssumption, EInv, NEW m \in Machine, Registered(m)
  PROVE  EInv'
<1>h. PICK h : h = IF HasScheduleOverride(m) THEN cmd[m].sched ELSE "fleet"
  BY ZenonT(60)
<1>1. PICK c, x, s, d : /\ x = IdleSlot /\ s = cmd[m].slot /\ d = slots[s].node
                        /\ c = [cmd[m] EXCEPT !.pc = "token", !.slot = None, !.node = d,
                                              !.sched = h]
  BY ZenonT(60)
<1>2. /\ cmd' = [cmd EXCEPT ![m] = c] /\ UNCHANGED <<invites, nodes, disk, agent>>
      /\ slots' = [slots EXCEPT ![s] = x]
      /\ cmd[m].pc = "register" /\ s # None /\ slots[s].stage = "replied"
  <2>1. cmd' = [cmd EXCEPT ![m] = [cmd[m] EXCEPT !.pc = "token", !.slot = None,
                                     !.node = slots[cmd[m].slot].node, !.sched = h]]
    BY <1>h, ZenonT(60) DEF Registered
  <2>2. cmd' = [cmd EXCEPT ![m] = c]
    BY <1>1, <2>1
  <2> QED
    BY <1>1, <2>2, ZenonT(60) DEF Registered, Free, Answered
<1>3. s \in Slot
  BY <1>1, <1>2, Holds DEF CmdT
<1>4. slots[s] \in SlotT /\ SlotOk(slots[s])
  BY <1>3 DEF EInv, RegTypes
<1>5. c \in CmdT /\ c.pc = "token" /\ c.slot = None /\ c.node = d
  <2>1. h \in Scheds /\ cmd[m] \in CmdT /\ d \in Int
    BY <1>h, <1>1, <1>4, Holds DEF CmdT, SlotT, Scheds
  <2> QED
    BY <1>1, <2>1, ZenonT(60) DEF CmdT
<1>6. Serves(slots[s], m, cmd[m]) /\ HasKey(m)
  BY <1>1, <1>2, Holds, ZenonT(60) DEF CmdOk
<1>7. Mine(m, d)
  BY <1>1, <1>2, <1>4, <1>6, ZenonT(60) DEF Serves, SlotOk, Mine
<1>8. CmdOk(m, c)'
  BY <1>2, <1>5, <1>6, <1>7 DEF CmdOk, Mine, HasKey, Key
<1>9. \A o \in Machine : o # m => cmd[o].slot # s
  BY <1>1, <1>2, OwnRequest
<1>10. x \in SlotT /\ SlotOk(x) /\ x.stage # "locked"
  BY <1>1, IdleSlotOk
<1> QED
  BY <1>2, <1>3, <1>5, <1>8, <1>9, <1>10, CallStep, ZenonT(60)

LEMMA GotTokenStep ==
  ASSUME RegistrationAssumption, EInv, NEW m \in Machine, GotToken(m)
  PROVE  EInv'
<1>1. PICK c, x, s : /\ x = IdleSlot /\ s = cmd[m].slot
                     /\ c = [cmd[m] EXCEPT !.pc = "save", !.slot = None, !.token = cmd[m].node]
  OBVIOUS
<1>2. /\ cmd' = [cmd EXCEPT ![m] = c] /\ UNCHANGED <<invites, nodes, disk, agent>>
      /\ slots' = [slots EXCEPT ![s] = x]
      /\ cmd[m].pc \in {"token", "refresh"} /\ s # None /\ slots[s].stage = "replied"
  BY <1>1 DEF GotToken, Free, Answered
<1>3. s \in Slot
  BY <1>1, <1>2, Holds DEF CmdT
<1>4. SlotOk(slots[s])
  BY <1>3 DEF EInv
<1>5. c \in CmdT /\ c.pc = "save" /\ c.slot = None /\ c.node = cmd[m].node
  BY <1>1, Holds, ZenonT(60) DEF CmdT
<1>6. Serves(slots[s], m, cmd[m]) /\ HasKey(m) /\ Mine(m, cmd[m].node)
  BY <1>1, <1>2, Holds DEF CmdOk
<1>7. nodes[cmd[m].node].boot = "used"
  <2>1. CASE cmd[m].pc = "token"
    BY <1>2, <1>4, <1>6, <2>1 DEF Serves, SlotOk
  <2>2. CASE cmd[m].pc = "refresh"
    BY <2>2, Holds, ZenonT(60) DEF CmdOk
  <2> QED
    BY <1>2, <2>1, <2>2, ZenonT(60)
<1>8. CmdOk(m, c)'
  BY <1>2, <1>5, <1>6, <1>7 DEF CmdOk, Mine, HasKey, Key
<1>9. \A o \in Machine : o # m => cmd[o].slot # s
  BY <1>1, <1>2, OwnRequest
<1>10. x \in SlotT /\ SlotOk(x) /\ x.stage # "locked"
  BY <1>1, IdleSlotOk
<1> QED
  BY <1>2, <1>3, <1>5, <1>8, <1>9, <1>10, CallStep, ZenonT(60)

LEMMA SendStep ==
  ASSUME RegistrationAssumption, EInv, NEW m \in Machine,
         NEW kind \in {"register", "token", "refresh"}, Send(m, kind)
  PROVE  EInv'
<1>1. PICK s \in Slot :
        /\ slots[s].stage = "idle"
        /\ slots' = [slots EXCEPT ![s] = [stage |-> "received", kind |-> kind, key |-> Key(m),
                                          invite |-> cmd[m].invite, node |-> cmd[m].node]]
        /\ cmd' = [cmd EXCEPT ![m].slot = s]
  BY ZenonT(60) DEF Send
<1>2. PICK x, c : /\ x = [stage |-> "received", kind |-> kind, key |-> Key(m),
                          invite |-> cmd[m].invite, node |-> cmd[m].node]
                  /\ c = [cmd[m] EXCEPT !.slot = s]
  BY ZenonT(60)
<1>3. /\ slots' = [slots EXCEPT ![s] = x] /\ cmd' = [cmd EXCEPT ![m] = c]
      /\ UNCHANGED <<invites, nodes, disk, agent>> /\ cmd[m].pc = kind
  BY <1>1, <1>2, ZenonT(60) DEF Send
<1>4. cmd[m] \in CmdT /\ CmdOk(m, cmd[m]) /\ disk[m] \in FilesT /\ slots \in [Slot -> SlotT]
  BY Holds, ZenonT(60) DEF EInv, RegTypes
<1>5. /\ x \in SlotT /\ x.stage = "received" /\ x.kind = kind /\ x.key = Key(m)
      /\ x.invite = cmd[m].invite /\ x.node = cmd[m].node
  <2>1. Key(m) \in KeyT
    BY <1>4 DEF Key, KeyT, FilesT
  <2> QED
    BY <1>2, <1>4, <2>1, ZenonT(60) DEF SlotT, CmdT
<1>6. c \in CmdT /\ c.slot = s /\ c.pc = kind /\ c.node = cmd[m].node /\ c.invite = cmd[m].invite
  BY <1>2, <1>3, <1>4, ZenonT(60) DEF CmdT
<1>7. SlotOk(x)
  BY <1>3, <1>4, <1>5, ZenonT(60) DEF SlotOk, CmdOk, Mine
<1>8. CmdOk(m, c)'
  <2>1. slots'[s] = x
    BY <1>3, <1>4, ZenonT(60)
  <2>2. Serves(slots[c.slot], m, c)'
    BY <1>3, <1>5, <1>6, <2>1, ZenonT(60) DEF Serves, Key
  <2>3. /\ HasKey(m) /\ (kind = "register" => c.invite \in Invite)
        /\ kind \in {"token", "refresh"} => Mine(m, c.node)
        /\ kind = "refresh" => nodes[c.node].boot = "used"
    BY <1>3, <1>4, <1>6 DEF CmdOk
  <2> QED
    BY <1>3, <1>6, <2>2, <2>3, ZenonT(60) DEF CmdOk, Mine, HasKey, Key
<1>9. \A o \in Machine : o # m => cmd[o].slot # s
  BY <1>1, IdleUnread DEF RegistrationAssumption
<1> QED
  BY <1>3, <1>5, <1>6, <1>7, <1>8, <1>9, CallStep, ZenonT(60)

LEMMA SaveStep ==
  ASSUME EInv, NEW m \in Machine, SaveConfig(m) \/ SaveCredentials(m)
  PROVE  EInv'
<1>1. CASE SaveConfig(m)
  <2>1. PICK c, f, a : /\ c = [cmd[m] EXCEPT !.pc = "store"] /\ a = agent[m]
                       /\ f = [disk[m] EXCEPT !.cfg = [saved |-> TRUE, sched |-> cmd[m].sched]]
    BY ZenonT(60)
  <2>2. /\ cmd' = [cmd EXCEPT ![m] = c] /\ disk' = [disk EXCEPT ![m] = f]
        /\ agent' = [agent EXCEPT ![m] = a] /\ UNCHANGED <<invites, nodes, slots>>
    BY <1>1, <2>1, Holds DEF SaveConfig
  <2>3. /\ c \in CmdT /\ f \in FilesT /\ a \in AgentT /\ f.key = disk[m].key
        /\ f.creds = disk[m].creds /\ c.pc = "store" /\ c.node = cmd[m].node /\ c.slot = cmd[m].slot
    BY <2>1, Holds, ZenonT(60) DEF CmdT, FilesT
  <2>4. CmdOk(m, c)
    BY <1>1, <2>3, Holds DEF CmdOk, SaveConfig
  <2>5. CredsOk(m, f.creds.node) /\ (a.saving => CredsOk(m, a.creds.node))
    BY <2>1, <2>3, Holds
  <2> QED
    BY <2>2, <2>3, <2>4, <2>5, LocalStep, ZenonT(60)
<1>2. CASE SaveCredentials(m)
  <2>1. PICK c, f, a : /\ c = IdleCmd
                       /\ f = [disk[m] EXCEPT !.creds = [node |-> cmd[m].node, token |-> cmd[m].token]]
                       /\ a = [agent[m] EXCEPT !.node = IF cmd[m].invite = None
                                                        THEN cmd[m].node ELSE agent[m].node]
    BY ZenonT(60)
  <2>2. /\ cmd' = [cmd EXCEPT ![m] = c] /\ disk' = [disk EXCEPT ![m] = f]
        /\ agent' = [agent EXCEPT ![m] = a] /\ UNCHANGED <<invites, nodes, slots>>
    BY <1>2, <2>1 DEF SaveCredentials
  <2>3. /\ c \in CmdT /\ CmdOk(m, c)
    BY <2>1, IdleCmdOk DEF CmdOk, IdleCmd
  <2>4. /\ f \in FilesT /\ a \in AgentT /\ f.key = disk[m].key
        /\ f.creds.node = cmd[m].node /\ a.saving = agent[m].saving /\ a.creds = agent[m].creds
    BY <2>1, Holds, ZenonT(60) DEF CmdT, FilesT, Creds, AgentT
  <2>5. CredsOk(m, f.creds.node)
    BY <1>2, <2>4, Holds DEF SaveCredentials, CmdOk, CredsOk
  <2>6. a.saving => CredsOk(m, a.creds.node)
    BY <2>4, Holds, ZenonT(60)
  <2> QED
    BY <2>2, <2>3, <2>4, <2>5, <2>6, LocalStep, ZenonT(60)
<1> QED
  BY <1>1, <1>2

LEMMA ConfigureStep ==
  ASSUME EInv, NEW m \in Machine, NEW sched \in BOOLEAN, Configure(m, sched)
  PROVE  EInv'
<1>1. PICK g : g = [saved |-> TRUE, sched |-> IF sched THEN "host" ELSE disk[m].cfg.sched]
  BY ZenonT(60)
<1>2. PICK c, f, a : c = cmd[m] /\ f = [disk[m] EXCEPT !.cfg = g] /\ a = agent[m]
  BY ZenonT(60)
<1>3. /\ cmd' = [cmd EXCEPT ![m] = c] /\ disk' = [disk EXCEPT ![m] = f]
      /\ agent' = [agent EXCEPT ![m] = a] /\ UNCHANGED <<invites, nodes, slots>>
  BY <1>1, <1>2, Holds DEF Configure
<1>4. g \in [saved : BOOLEAN, sched : Scheds]
  BY <1>1, Holds DEF FilesT, Scheds
<1>5. /\ c \in CmdT /\ f \in FilesT /\ a \in AgentT /\ f.key = disk[m].key
      /\ f.creds = disk[m].creds
  BY <1>2, <1>4, Holds DEF FilesT
<1>6. /\ CmdOk(m, c) /\ CredsOk(m, f.creds.node)
      /\ a.saving => CredsOk(m, a.creds.node)
  BY <1>2, <1>5, Holds
<1> QED
  BY <1>3, <1>5, <1>6, LocalStep, ZenonT(60)

LEMMA CrashStep ==
  ASSUME EInv, NEW m \in Machine, Crash(m)
  PROVE  EInv'
<1>1. PICK c, a : c = IdleCmd /\ a = IdleAgent
  OBVIOUS
<1>2. /\ cmd' = [cmd EXCEPT ![m] = c] /\ agent' = [agent EXCEPT ![m] = a]
      /\ UNCHANGED <<invites, nodes, slots>>
  BY <1>1, ZenonT(60) DEF Crash
<1>3. c \in CmdT /\ CmdOk(m, c) /\ CmdOk(m, c)' /\ a \in AgentT /\ ~a.saving
  BY <1>1, IdleCmdOk, IdleAgentOk, ZenonT(60) DEF CmdOk, IdleCmd
<1>4. CASE disk[m].key = NoKey /\ disk' = [disk EXCEPT ![m].key = Torn]
  <2>1. PICK f : f = [disk[m] EXCEPT !.key = Torn]
    BY ZenonT(60)
  <2>2. f \in FilesT /\ f.creds = disk[m].creds /\ disk' = [disk EXCEPT ![m] = f]
    BY <1>4, <2>1, Holds DEF FilesT, Torn
  <2>3. ~HasKey(m)
    BY <1>4, SMTT(60) DEF HasKey, NoKey
  <2>4. ~(f.creds.node > 0)
    BY <2>2, <2>3, Holds DEF CredsOk, Mine
  <2>5. CredsOk(m, f.creds.node)'
    BY <2>4 DEF CredsOk
  <2> QED
    BY <1>2, <1>3, <2>2, <2>3, <2>5, MachineStep, ZenonT(60)
<1>5. CASE disk' = [disk EXCEPT ![m].cfg = NoFiles.cfg]
  <2>1. PICK f : f = [disk[m] EXCEPT !.cfg = NoFiles.cfg]
    BY ZenonT(60)
  <2>2. NoFiles.cfg \in [saved : BOOLEAN, sched : Scheds]
    BY DEF NoFiles, Scheds
  <2>3. /\ f \in FilesT /\ f.creds = disk[m].creds /\ f.key = disk[m].key
        /\ disk' = [disk EXCEPT ![m] = f]
    BY <1>5, <2>1, <2>2, Holds DEF FilesT
  <2>4. CredsOk(m, f.creds.node)
    BY <2>3, Holds
  <2> QED
    BY <1>2, <1>3, <2>3, <2>4, LocalStep, ZenonT(60)
<1>6. CASE disk' = [disk EXCEPT ![m].creds = TornCreds]
  <2>1. PICK f : f = [disk[m] EXCEPT !.creds = TornCreds]
    BY ZenonT(60)
  <2>2. /\ f \in FilesT /\ f.creds.node = -1 /\ f.key = disk[m].key
        /\ disk' = [disk EXCEPT ![m] = f]
    BY <1>6, <2>1, Holds, SMTT(60) DEF FilesT, Creds, TornCreds
  <2>3. CredsOk(m, f.creds.node)
    BY <2>2 DEF CredsOk
  <2> QED
    BY <1>2, <1>3, <2>2, <2>3, LocalStep, ZenonT(60)
<1>7. CASE disk' = disk
  <2>1. PICK f : f = disk[m]
    BY ZenonT(60)
  <2>2. /\ f \in FilesT /\ f.key = disk[m].key /\ CredsOk(m, f.creds.node)
        /\ disk' = [disk EXCEPT ![m] = f]
    BY <1>7, <2>1, Holds
  <2> QED
    BY <1>2, <1>3, <2>2, LocalStep, ZenonT(60)
<1> QED
  BY <1>4, <1>5, <1>6, <1>7 DEF Crash

LEMMA AgentStep ==
  ASSUME EInv, NEW m \in Machine, Agent(m)
  PROVE  EInv'
<1>1. PICK c, f : c = cmd[m] /\ f = disk[m]
  OBVIOUS
<1>2. /\ c \in CmdT /\ CmdOk(m, c) /\ f \in FilesT /\ f.key = disk[m].key
      /\ CredsOk(m, f.creds.node) /\ cmd = [cmd EXCEPT ![m] = c] /\ disk = [disk EXCEPT ![m] = f]
  BY <1>1, Holds
<1>3. CASE RefreshAccessToken(m)
  <2>1. PICK d : d = [disk[m].creds EXCEPT !.token = agent[m].node]
    BY ZenonT(60)
  <2>2. d \in Creds /\ d.node = disk[m].creds.node
    BY <2>1, Holds DEF FilesT, Creds, AgentT
  <2>3. PICK a : a = [agent[m] EXCEPT !.creds = d, !.saving = TRUE]
    BY ZenonT(60)
  <2>4. a \in AgentT /\ a.creds = d
    BY <2>2, <2>3, Holds, ZenonT(60) DEF AgentT
  <2>5. CredsOk(m, a.creds.node)
    BY <2>2, <2>4, Holds
  <2>6. /\ agent' = [agent EXCEPT ![m] = a] /\ UNCHANGED <<invites, nodes, slots, disk, cmd>>
    BY <1>3, <2>1, <2>3, ZenonT(60) DEF RefreshAccessToken
  <2> QED
    BY <1>2, <2>4, <2>5, <2>6, LocalStep, ZenonT(60)
<1>4. CASE PersistToken(m)
  <2>1. PICK g, a : /\ g = [disk[m] EXCEPT !.creds = agent[m].creds]
                    /\ a = [agent[m] EXCEPT !.saving = FALSE, !.creds = NoCreds]
    BY ZenonT(60)
  <2>2. g \in FilesT /\ g.key = disk[m].key /\ g.creds = agent[m].creds
    BY <2>1, Holds DEF FilesT, AgentT
  <2>3. a \in AgentT /\ ~a.saving
    <3>1. NoCreds \in Creds /\ agent[m] \in AgentT
      BY Holds DEF NoCreds, Creds
    <3> QED
      BY <2>1, <3>1, ZenonT(60) DEF AgentT
  <2>4. CredsOk(m, g.creds.node)
    BY <1>4, <2>2, Holds DEF PersistToken
  <2>5. /\ disk' = [disk EXCEPT ![m] = g] /\ agent' = [agent EXCEPT ![m] = a]
        /\ UNCHANGED <<invites, nodes, slots, cmd>>
    BY <1>4, <2>1, ZenonT(60) DEF PersistToken
  <2> QED
    BY <1>2, <2>2, <2>3, <2>4, <2>5, LocalStep, ZenonT(60)
<1>5. CASE StopAgent(m)
  <2>1. PICK a : a = IdleAgent
    BY ZenonT(60)
  <2>2. a \in AgentT /\ ~a.saving
    BY <2>1, IdleAgentOk
  <2>3. agent' = [agent EXCEPT ![m] = a] /\ UNCHANGED <<invites, nodes, slots, disk, cmd>>
    BY <1>5, <2>1 DEF StopAgent
  <2> QED
    BY <1>2, <2>2, <2>3, LocalStep, ZenonT(60)
<1> QED
  BY <1>3, <1>4, <1>5 DEF Agent

-----------------------------------------------------------------------------
(* The coordinator's commits.                                              *)

LEMMA NodeReplaced ==
  ASSUME nodes \in Seq(NodeT), NEW k \in 1..Len(nodes), NEW r \in NodeT,
         nodes' = [nodes EXCEPT ![k] = r]
  PROVE  /\ nodes' \in Seq(NodeT) /\ Len(nodes') = Len(nodes)
         /\ \A n \in 1..Len(nodes) : nodes'[n] = IF n = k THEN r ELSE nodes[n]
OBVIOUS

LEMMA SeqAppended ==
  ASSUME NEW S, NEW q \in Seq(S), NEW r \in S
  PROVE  /\ Append(q, r) \in Seq(S) /\ Len(Append(q, r)) = Len(q) + 1
         /\ \A n \in 1..Len(q) : Append(q, r)[n] = q[n]
         /\ Append(q, r)[Len(q) + 1] = r
OBVIOUS

LEMMA NodeTyped ==
  ASSUME RegTypes, NEW n \in 1..Len(nodes)
  PROVE  nodes[n] \in NodeT /\ nodes[n].invite \in Invite /\ nodes[n].issued \in Nat
<1>1. nodes[n] \in NodeT
  BY SMTT(60) DEF RegTypes
<1> QED
  BY <1>1 DEF NodeT

\* What is left to show when the tables change and the machines do not.
LEMMA CommitStep ==
  ASSUME EInv, RegTypes', Grow, NodesOk', LocksOk', \A t \in Slot : SlotOk(slots[t])',
         UNCHANGED <<disk, cmd, agent>>,
         \A t \in Slot : slots[t].stage # "idle" =>
                           /\ slots'[t].stage # "idle" /\ slots'[t].kind = slots[t].kind
                           /\ slots'[t].key = slots[t].key
                           /\ slots[t].kind = "token" => slots'[t].node = slots[t].node
  PROVE  EInv'
<1>1. RegTypes
  BY ZenonT(60) DEF EInv
<1>2. ASSUME NEW m \in Machine
      PROVE  CmdOk(m, cmd[m])'
  <2>1. PICK c : c = cmd[m]
    BY ZenonT(60)
  <2>2. CmdOk(m, c) /\ c = cmd'[m] /\ c \in CmdT
    BY <2>1, Holds, SMTT(60)
  <2>3. c.slot # None => c.slot \in Slot /\ slots[c.slot].stage # "idle" /\ slots[c.slot].kind = c.pc
    BY <2>2, ZenonT(60) DEF CmdOk, Serves, CmdT
  <2>4. CmdOk(m, c)'
    BY <1>1, <2>2, <2>3, CmdKept, ZenonT(60)
  <2> QED
    BY <2>2, <2>4, ZenonT(60) DEF CmdOk, Serves
<1>3. ASSUME NEW m \in Machine
      PROVE  /\ CredsOk(m, disk[m].creds.node)'
             /\ agent'[m].saving => CredsOk(m, agent[m].creds.node)'
  <2>1. PICK n, k : n = disk[m].creds.node /\ k = agent[m].creds.node
    OBVIOUS
  <2>2. CredsOk(m, n) /\ (agent[m].saving => CredsOk(m, k))
    BY <2>1, Holds
  <2>3. CredsOk(m, n)' /\ (agent[m].saving => CredsOk(m, k)')
    BY <1>1, <2>2, CredsKept, ZenonT(60)
  <2> QED
    BY <2>1, <2>3 DEF CredsOk
<1> QED
  BY <1>2, <1>3 DEF EInv

\* Tables whose rows keep what the requests rely on.
LEMMA TableStep ==
  ASSUME EInv, RegTypes', Len(nodes') = Len(nodes),
         UNCHANGED <<slots, disk, cmd, agent>>,
         \A i \in Invite : invites[i].status # "none" =>
                             invites'[i].status = invites[i].status /\ invites'[i].by = invites[i].by,
         \A n \in 1..Len(nodes) :
           /\ nodes'[n].key = nodes[n].key /\ nodes'[n].invite = nodes[n].invite
           /\ nodes'[n].boot = nodes[n].boot /\ nodes'[n].issued = nodes[n].issued
  PROVE  EInv'
<1>1. RegTypes /\ Len(nodes) \in Nat
  BY DEF EInv, RegTypes
<1>2. Grow
  BY <1>1 DEF Grow, HasKey, Key
<1>3. \A n \in 1..Len(nodes) : nodes[n].invite \in Invite
  BY <1>1, NodeTyped, ZenonT(60)
<1>4. NodesOk'
  <2> SUFFICES ASSUME NEW n \in 1..Len(nodes')
               PROVE  /\ invites'[nodes'[n].invite].status = "used"
                      /\ invites'[nodes'[n].invite].by = n
                      /\ nodes'[n].issued <= 1
                      /\ nodes'[n].boot = "unused" => nodes'[n].issued = 0
                      /\ \E m \in Machine : Mine(m, n)'
    BY ZenonT(60) DEF NodesOk
  <2>1. /\ invites[nodes[n].invite].status = "used" /\ invites[nodes[n].invite].by = n
        /\ nodes[n].issued <= 1
        /\ nodes[n].boot = "unused" => nodes[n].issued = 0
    BY ZenonT(60) DEF EInv, NodesOk
  <2>2. PICK m \in Machine : Mine(m, n)
    BY DEF EInv, NodesOk
  <2>3. Mine(m, n)'
    BY <1>1, <1>2, <2>2, MineKept, ZenonT(60)
  <2> QED
    BY <1>3, <2>1, <2>3, SMTT(60)
<1>5. LocksOk'
  BY ZenonT(60) DEF EInv, LocksOk
<1>6. ASSUME NEW t \in Slot
      PROVE  SlotOk(slots[t])'
  <2>1. PICK y : y = slots[t]
    BY ZenonT(60)
  <2>2. SlotOk(y)
    BY <2>1, ZenonT(60) DEF EInv
  <2>3. /\ (y.kind = "register" /\ y.stage = "locked") => invites'[y.invite].status = "active"
        /\ (y.kind = "token" /\ y.stage = "locked") => nodes'[y.node].boot = "unused"
    BY <2>2, ZenonT(60) DEF SlotOk
  <2>4. SlotOk(y)'
    BY <1>1, <1>2, <2>2, <2>3, SlotKept, ZenonT(60)
  <2> QED
    BY <2>1, <2>4, SMTT(60) DEF SlotOk
<1> QED
  BY <1>2, <1>4, <1>5, <1>6, CommitStep, ZenonT(60)

LEMMA ClockStep ==
  ASSUME EInv, \/ \E i \in Invite : CreateInvite(i)
               \/ Expire
  PROVE  EInv'
<1>1. RegTypes
  BY DEF EInv
<1>2. ASSUME NEW i \in Invite, CreateInvite(i)
      PROVE  EInv'
  <2>1. /\ invites' = [invites EXCEPT ![i].status = "active"] /\ invites[i].status = "none"
        /\ UNCHANGED <<nodes, slots, disk, cmd, agent>>
    BY <1>2 DEF CreateInvite
  <2>2. RegTypes'
    BY <1>1, <2>1, ZenonT(60) DEF RegTypes, InviteT
  <2>3. \A j \in Invite : invites[j].status # "none" =>
                            invites'[j].status = invites[j].status /\ invites'[j].by = invites[j].by
    BY <1>1, <2>1 DEF RegTypes, InviteT
  <2> QED
    BY <2>1, <2>2, <2>3, TableStep
<1>3. ASSUME NEW i \in Invite, invites' = [invites EXCEPT ![i].expired = TRUE],
             UNCHANGED <<nodes, slots, disk, cmd, agent>>
      PROVE  EInv'
  <2>1. RegTypes'
    BY <1>1, <1>3, ZenonT(60) DEF RegTypes, InviteT
  <2>2. \A j \in Invite : invites'[j].status = invites[j].status /\ invites'[j].by = invites[j].by
    BY <1>1, <1>3 DEF RegTypes, InviteT
  <2> QED
    BY <1>3, <2>1, <2>2, TableStep
<1>4. ASSUME NEW k \in 1..Len(nodes), nodes' = [nodes EXCEPT ![k].expired = TRUE],
             UNCHANGED <<invites, slots, disk, cmd, agent>>
      PROVE  EInv'
  <2>1. PICK r : r = [nodes[k] EXCEPT !.expired = TRUE]
    BY ZenonT(60)
  <2>2. nodes[k] \in NodeT
    BY <1>1, <1>4 DEF RegTypes
  <2>3. /\ r \in NodeT /\ r.key = nodes[k].key /\ r.invite = nodes[k].invite
        /\ r.boot = nodes[k].boot /\ r.issued = nodes[k].issued
    BY <2>1, <2>2, ZenonT(60) DEF NodeT
  <2>4. nodes' = [nodes EXCEPT ![k] = r]
    BY <1>4, <2>1
  <2>5. /\ nodes' \in Seq(NodeT) /\ Len(nodes') = Len(nodes)
        /\ \A n \in 1..Len(nodes) : nodes'[n] = IF n = k THEN r ELSE nodes[n]
    <3>1. nodes \in Seq(NodeT)
      BY <1>1 DEF RegTypes
    <3> QED
      BY <1>4, <2>3, <2>4, <3>1, NodeReplaced, ZenonT(60)
  <2>6. RegTypes'
    BY <1>1, <1>4, <2>5 DEF RegTypes
  <2>7. \A n \in 1..Len(nodes) :
           /\ nodes'[n].key = nodes[n].key /\ nodes'[n].invite = nodes[n].invite
           /\ nodes'[n].boot = nodes[n].boot /\ nodes'[n].issued = nodes[n].issued
    BY <2>3, <2>5
  <2> QED
    BY <1>4, <2>5, <2>6, <2>7, TableStep
<1> QED
  BY <1>2, <1>3, <1>4, ZenonT(60) DEF Expire

LEMMA RegisterStep ==
  ASSUME EInv, NEW s \in Slot, RegisterNode(s)
  PROVE  EInv'
<1>1. PICK i, n : i = slots[s].invite /\ n = Len(nodes) + 1
  OBVIOUS
<1>2. PICK r, x, v :
        /\ r = [key |-> slots[s].key, invite |-> i, boot |-> "unused", expired |-> FALSE,
                issued |-> 0]
        /\ x = [slots[s] EXCEPT !.stage = "replied", !.node = n]
        /\ v = [invites[i] EXCEPT !.status = "used", !.by = n]
  BY ZenonT(60)
<1>3. /\ nodes' = Append(nodes, r) /\ invites' = [invites EXCEPT ![i] = v]
      /\ slots' = [slots EXCEPT ![s] = x] /\ UNCHANGED <<disk, cmd, agent>>
      /\ slots[s].stage = "locked" /\ slots[s].kind = "register"
  BY <1>1, <1>2, ZenonT(60) DEF RegisterNode
<1>4. RegTypes /\ slots[s] \in SlotT /\ SlotOk(slots[s]) /\ nodes \in Seq(NodeT) /\ Len(nodes) \in Nat
  BY SMTT(60) DEF EInv, RegTypes
<1>5. i \in Invite /\ invites[i].status = "active" /\ n \in Nat
  BY <1>1, <1>3, <1>4, SMTT(60) DEF SlotOk
<1>6. PICK m \in Machine : HasKey(m) /\ slots[s].key = Key(m)
  BY <1>3, <1>4 DEF SlotOk
<1>7. r \in NodeT /\ r.key = slots[s].key /\ r.invite = i /\ r.boot = "unused" /\ r.issued = 0
  BY <1>2, <1>4, <1>5 DEF NodeT, SlotT
<1>8. /\ x \in SlotT /\ x.stage = "replied" /\ x.node = n /\ x.kind = "register"
      /\ x.key = slots[s].key /\ x.invite = i
  <2>1. PICK y : y = slots[s]
    BY ZenonT(60)
  <2>2. y \in SlotT /\ y.kind = "register" /\ y.invite = i
    BY <1>1, <1>3, <1>4, <2>1
  <2>3. PICK z : z = [y EXCEPT !.stage = "replied"]
    BY ZenonT(60)
  <2>4. /\ z \in SlotT /\ z.kind = "register" /\ z.invite = i /\ z.stage = "replied"
        /\ z.key = y.key
    BY <2>2, <2>3 DEF SlotT
  <2>5. x = [z EXCEPT !.node = n]
    BY <1>2, <2>1, <2>3
  <2> QED
    BY <1>5, <2>1, <2>4, <2>5 DEF SlotT
<1>9. v \in InviteT /\ v.status = "used" /\ v.by = n
  BY <1>2, <1>4, <1>5, ZenonT(60) DEF RegTypes, InviteT
<1>10. /\ nodes' \in Seq(NodeT) /\ Len(nodes') = n /\ nodes'[n] = r
       /\ \A k \in 1..Len(nodes) : nodes'[k] = nodes[k]
  BY <1>1, <1>3, <1>4, <1>7, SeqAppended, SMTT(60)
<1>11. RegTypes'
  BY <1>3, <1>4, <1>5, <1>8, <1>9, <1>10 DEF RegTypes
<1>12. /\ \A t \in Slot : slots'[t] = IF t = s THEN x ELSE slots[t]
       /\ \A j \in Invite : invites'[j] = IF j = i THEN v ELSE invites[j]
  BY <1>3, <1>4 DEF RegTypes
<1>13. Grow
  <2>1. Len(nodes') >= Len(nodes)
    BY <1>1, <1>4, <1>10, SMTT(60)
  <2> QED
    BY <1>3, <1>10, <2>1 DEF Grow, HasKey, Key
<1>14. NodesOk'
  <2> SUFFICES ASSUME NEW k \in 1..Len(nodes')
               PROVE  /\ invites'[nodes'[k].invite].status = "used"
                      /\ invites'[nodes'[k].invite].by = k
                      /\ nodes'[k].issued <= 1
                      /\ nodes'[k].boot = "unused" => nodes'[k].issued = 0
                      /\ \E o \in Machine : Mine(o, k)'
    BY ZenonT(60) DEF NodesOk
  <2>1. CASE k \in 1..Len(nodes)
    <3>1. /\ invites[nodes[k].invite].status = "used" /\ invites[nodes[k].invite].by = k
          /\ nodes[k].issued <= 1
          /\ nodes[k].boot = "unused" => nodes[k].issued = 0
      BY <2>1 DEF EInv, NodesOk
    <3>2. nodes[k].invite \in Invite /\ nodes[k].invite # i
      BY <1>4, <1>5, <2>1, <3>1, NodeTyped, ZenonT(60)
    <3>3. PICK o \in Machine : Mine(o, k)
      BY <2>1 DEF EInv, NodesOk
    <3>4. Mine(o, k)'
      BY <1>4, <1>11, <1>13, <3>3, MineKept, ZenonT(60)
    <3> QED
      BY <1>10, <1>12, <2>1, <3>1, <3>2, <3>4, ZenonT(60)
  <2>2. CASE k = n
    <3>1. Mine(m, k)'
      BY <1>3, <1>6, <1>7, <1>10, <2>2, ZenonT(60) DEF Mine, HasKey, Key
    <3> QED
      BY <1>5, <1>7, <1>9, <1>10, <1>12, <2>2, <3>1, SMTT(60)
  <2> QED
    BY <1>1, <1>4, <1>10, <2>1, <2>2, SMTT(60)
<1>15. LocksOk'
  <2> SUFFICES ASSUME NEW t \in Slot, NEW u \in Slot, SameRow(slots'[t], slots'[u])
               PROVE  t = u
    BY ZenonT(60) DEF LocksOk, SameRow
  <2>1. t # s /\ u # s
    BY <1>8, <1>12, ZenonT(60) DEF SameRow
  <2>2. slots'[t] = slots[t] /\ slots'[u] = slots[u]
    BY <1>12, <2>1, SMTT(60)
  <2>3. SameRow(slots[t], slots[u])
    BY <2>2, ZenonT(60)
  <2> QED
    BY <2>3, ZenonT(60) DEF EInv, LocksOk
<1>16. ASSUME NEW t \in Slot
       PROVE  SlotOk(slots[t])'
  <2>1. CASE t = s
    <3>1. SlotOk(x)'
      <4>1. n \in 1..Len(nodes')
        BY <1>1, <1>4, <1>10
      <4>2. \E o \in Machine : HasKey(o)' /\ x.key = Key(o)'
        BY <1>3, <1>6, <1>8, ZenonT(60) DEF HasKey, Key
      <4> QED
        BY <1>5, <1>7, <1>8, <1>10, <4>1, <4>2 DEF SlotOk
    <3> QED
      BY <1>12, <2>1, <3>1, ZenonT(60) DEF SlotOk
  <2>2. CASE t # s
    <3>1. PICK y : y = slots[t]
      BY ZenonT(60)
    <3>s. \A q \in Slot : SlotOk(slots[q])
      BY ZenonT(60) DEF EInv
    <3>2. SlotOk(y) /\ y = slots'[t]
      BY <1>12, <2>2, <3>1, <3>s, ZenonT(60)
    <3>3. (y.kind = "register" /\ y.stage = "locked") => y.invite \in Invite /\ y.invite # i
      BY <1>1, <1>3, <2>2, <3>1, <3>2, ZenonT(60) DEF EInv, LocksOk, SameRow, SlotOk
    <3>4. (y.kind = "register" /\ y.stage = "locked") => invites'[y.invite].status = "active"
      BY <1>12, <3>2, <3>3, ZenonT(60) DEF SlotOk
    <3>5. (y.kind = "token" /\ y.stage = "locked") => nodes'[y.node].boot = "unused"
      BY <1>10, <3>2, ZenonT(60) DEF SlotOk
    <3>6. SlotOk(y)'
      BY <1>4, <1>11, <1>13, <3>2, <3>4, <3>5, SlotKept, ZenonT(60)
    <3> QED
      BY <3>2, <3>6, ZenonT(60) DEF SlotOk
  <2> QED
    BY <2>1, <2>2, ZenonT(60)
<1> QED
  BY <1>3, <1>8, <1>11, <1>12, <1>13, <1>14, <1>15, <1>16, CommitStep

LEMMA BootstrapStep ==
  ASSUME EInv, NEW s \in Slot, ConsumeBootstrap(s)
  PROVE  EInv'
<1>1. PICK n : n = slots[s].node
  BY ZenonT(60)
<1>2. PICK r, x :
        /\ r = [nodes[n] EXCEPT !.boot = "used", !.issued = nodes[n].issued + 1]
        /\ x = [slots[s] EXCEPT !.stage = "replied"]
  BY ZenonT(60)
<1>3. /\ nodes' = [nodes EXCEPT ![n] = r] /\ slots' = [slots EXCEPT ![s] = x]
      /\ UNCHANGED <<invites, disk, cmd, agent>>
      /\ slots[s].stage = "locked" /\ slots[s].kind = "token"
  BY <1>1, <1>2, ZenonT(60) DEF ConsumeBootstrap, Stage
<1>4. RegTypes /\ slots[s] \in SlotT /\ SlotOk(slots[s]) /\ nodes \in Seq(NodeT) /\ Len(nodes) \in Nat
  BY DEF EInv, RegTypes
<1>5. n \in 1..Len(nodes) /\ nodes[n].boot = "unused"
  BY <1>1, <1>3, <1>4, ZenonT(60) DEF SlotOk
<1>6. nodes[n].issued = 0 /\ nodes[n] \in NodeT
  BY <1>4, <1>5, NodeTyped DEF EInv, NodesOk
<1>7. /\ r \in NodeT /\ r.key = nodes[n].key /\ r.invite = nodes[n].invite
      /\ r.boot = "used" /\ r.issued = 1
  <2>1. PICK y, u : y = nodes[n] /\ u = [y EXCEPT !.boot = "used"]
    BY ZenonT(60)
  <2>2. /\ u \in NodeT /\ u.key = y.key /\ u.invite = y.invite /\ u.boot = "used"
    BY <1>6, <2>1 DEF NodeT
  <2>3. r = [u EXCEPT !.issued = 1]
    BY <1>2, <1>6, <2>1
  <2> QED
    BY <2>1, <2>2, <2>3, ZenonT(60) DEF NodeT
<1>8. /\ x \in SlotT /\ x.stage = "replied" /\ x.node = n /\ x.kind = "token"
      /\ x.key = slots[s].key
  BY <1>1, <1>2, <1>3, <1>4 DEF SlotT
<1>9. /\ nodes' \in Seq(NodeT) /\ Len(nodes') = Len(nodes)
      /\ \A k \in 1..Len(nodes) : nodes'[k] = IF k = n THEN r ELSE nodes[k]
  BY <1>3, <1>4, <1>5, <1>7, NodeReplaced, ZenonT(60)
<1>10. RegTypes'
  BY <1>3, <1>4, <1>8, <1>9 DEF RegTypes
<1>11. \A t \in Slot : slots'[t] = IF t = s THEN x ELSE slots[t]
  BY <1>3, <1>4 DEF RegTypes
<1>12. Grow
  <2>1. \A k \in 1..Len(nodes) : /\ nodes'[k].key = nodes[k].key
                                 /\ nodes[k].boot = "used" => nodes'[k].boot = "used"
    BY <1>7, <1>9
  <2>2. Len(nodes') >= Len(nodes)
    BY <1>4, <1>9
  <2> QED
    BY <1>3, <2>1, <2>2 DEF Grow, HasKey, Key
<1>13. NodesOk'
  <2> SUFFICES ASSUME NEW k \in 1..Len(nodes')
               PROVE  /\ invites'[nodes'[k].invite].status = "used"
                      /\ invites'[nodes'[k].invite].by = k
                      /\ nodes'[k].issued <= 1
                      /\ nodes'[k].boot = "unused" => nodes'[k].issued = 0
                      /\ \E o \in Machine : Mine(o, k)'
    BY DEF NodesOk
  <2>1. k \in 1..Len(nodes)
    BY <1>9, SMTT(60)
  <2>2. /\ invites[nodes[k].invite].status = "used" /\ invites[nodes[k].invite].by = k
        /\ nodes[k].issued <= 1
        /\ nodes[k].boot = "unused" => nodes[k].issued = 0
    BY <2>1, ZenonT(60) DEF EInv, NodesOk
  <2>3. PICK o \in Machine : Mine(o, k)
    BY <2>1, ZenonT(60) DEF EInv, NodesOk
  <2>4. Mine(o, k)'
    BY <1>4, <1>10, <1>12, <2>3, MineKept, ZenonT(60)
  <2> QED
    BY <1>3, <1>7, <1>9, <2>1, <2>2, <2>4, SMTT(60)
<1>14. LocksOk'
  BY <1>8, <1>11 DEF EInv, LocksOk, SameRow
<1>15. ASSUME NEW t \in Slot
       PROVE  SlotOk(slots[t])'
  <2>1. CASE t = s
    <3>1. SlotOk(x)'
      BY <1>5, <1>7, <1>8, <1>9, SMTT(60) DEF SlotOk
    <3> QED
      BY <1>11, <2>1, <3>1, ZenonT(60) DEF SlotOk
  <2>2. CASE t # s
    <3>1. PICK y : y = slots[t]
      BY ZenonT(60)
    <3>2. SlotOk(y) /\ y = slots'[t]
      BY <1>11, <2>2, <3>1, ZenonT(60) DEF EInv
    <3>3. (y.kind = "token" /\ y.stage = "locked") => y.node \in 1..Len(nodes) /\ y.node # n
      BY <1>1, <1>3, <2>2, <3>1, <3>2, ZenonT(60) DEF EInv, LocksOk, SameRow, SlotOk
    <3>4. (y.kind = "token" /\ y.stage = "locked") => nodes'[y.node].boot = "unused"
      BY <1>9, <3>2, <3>3, ZenonT(60) DEF SlotOk
    <3>5. (y.kind = "register" /\ y.stage = "locked") => invites'[y.invite].status = "active"
      BY <1>3, <3>2, ZenonT(60) DEF SlotOk
    <3>6. SlotOk(y)'
      BY <1>4, <1>10, <1>12, <3>2, <3>4, <3>5, SlotKept, ZenonT(60)
    <3> QED
      BY <3>2, <3>6, ZenonT(60) DEF SlotOk
  <2> QED
    BY <2>1, <2>2, SMTT(60)
<1> QED
  BY <1>1, <1>3, <1>8, <1>10, <1>11, <1>12, <1>13, <1>14, <1>15, CommitStep

-----------------------------------------------------------------------------
LEMMA EInvInit ==
  ASSUME Init
  PROVE  EInv
<1>1. /\ invites = [i \in Invite |-> [status |-> "none", expired |-> FALSE, by |-> 0]]
      /\ nodes = <<>> /\ slots = [s \in Slot |-> IdleSlot]
      /\ disk = [m \in Machine |-> NoFiles] /\ cmd = [m \in Machine |-> IdleCmd]
      /\ agent = [m \in Machine |-> IdleAgent]
  BY DEF Init
<1>2. NoFiles \in FilesT /\ NoFiles.creds.node = 0
  BY DEF NoFiles, FilesT, Creds, Scheds, NoCreds, NoKey
<1>3. IdleCmd \in CmdT /\ IdleCmd.pc = "idle" /\ IdleCmd.slot = None
  BY DEF IdleCmd, CmdT, Scheds
<1>4. [status |-> "none", expired |-> FALSE, by |-> 0] \in InviteT
  BY ZenonT(60) DEF InviteT
<1>5. RegTypes
  BY <1>1, <1>2, <1>3, <1>4, IdleSlotOk, IdleAgentOk DEF RegTypes
<1>6. NodesOk
  BY <1>1 DEF NodesOk
<1>7. LocksOk /\ \A s \in Slot : SlotOk(slots[s])
  BY <1>1, IdleSlotOk, ZenonT(60) DEF LocksOk, SameRow
<1>8. ASSUME NEW m \in Machine
      PROVE  /\ CmdOk(m, cmd[m]) /\ CredsOk(m, disk[m].creds.node)
             /\ agent[m].saving => CredsOk(m, agent[m].creds.node)
  BY <1>1, <1>2, <1>3, IdleAgentOk DEF CmdOk, CredsOk
<1> QED
  BY <1>5, <1>6, <1>7, <1>8 DEF EInv

LEMMA EInvStep ==
  ASSUME RegistrationAssumption, EInv, [Next]_vars
  PROVE  EInv'
<1>1. ASSUME NEW m \in Machine, Command(m)
      PROVE  EInv'
  <2>1. ASSUME NEW i \in Invite, Login(m, i)
        PROVE  EInv'
    BY <2>1, LoginStep
  <2>2. CASE Login(m, None)
    BY <2>2, LoginStep
  <2>3. CASE Send(m, "register") \/ Send(m, "token") \/ Send(m, "refresh")
    BY <2>3, SendStep
  <2>4. CASE \E sched \in BOOLEAN : Configure(m, sched)
    BY <2>4, ConfigureStep
  <2> QED
    BY <1>1, <2>1, <2>2, <2>3, <2>4, LoadStep, RegisteredStep, GotTokenStep, RequestFailsStep,
       SaveStep, CrashStep, ZenonT(60) DEF Command
<1>2. ASSUME NEW s \in Slot, Handle(s)
      PROVE  EInv'
  BY <1>2, HandlerStep, RegisterStep, BootstrapStep, UnreadStep DEF Handle
<1>3. CASE UNCHANGED vars
  <2>1. UNCHANGED <<invites, nodes, slots, disk, cmd, agent>>
    BY <1>3, ZenonT(60) DEF vars
  <2>2. RegTypes'
    BY <2>1 DEF EInv, RegTypes
  <2> QED
    BY <2>1, <2>2, TableStep
<1> QED
  BY <1>1, <1>2, <1>3, ClockStep, RepeatStep, AgentStep, SMTT(60) DEF Next

LEMMA EInvHolds ==
  ASSUME RegistrationAssumption
  PROVE  Spec => []EInv
<1>1. EInv /\ [Next]_vars => EInv'
  BY EInvStep
<1> QED
  BY <1>1, EInvInit, PTL DEF Spec

\* An invite makes one node and a bootstrap token yields one access token
\* (pgstore.go RegisterNode and ConsumeBootstrap), for any number of machines,
\* invites and concurrent requests, whichever requests are repeated, lost or fail.
THEOREM TokensUsedOnce ==
  ASSUME RegistrationAssumption
  PROVE  Spec => []TokensOnce
<1>1. EInv => TokensOnce
  BY ZenonT(60) DEF EInv, NodesOk, TokensOnce, InviteOnce, BootstrapOnce
<1> QED
  BY <1>1, EInvHolds, PTL

\* The credentials in a data directory name a node that was registered with the key
\* of that directory and whose bootstrap token is used (client.go Login,
\* RefreshAccessToken), wherever a command or the machine stopped before.
THEOREM CredentialsUsable ==
  ASSUME RegistrationAssumption
  PROVE  Spec => []CredentialsMatchKey
<1>1. EInv => CredentialsMatchKey
  BY DEF EInv, CredsOk, Mine, CredentialsMatchKey
<1> QED
  BY <1>1, EInvHolds, PTL

\* The key a node was registered with stays on the disk of a machine (identity.go
\* LoadOrCreateKey), through every stop and every later login.
THEOREM KeysStay ==
  ASSUME RegistrationAssumption
  PROVE  Spec => []RegisteredKeyKept
<1>1. EInv => RegisteredKeyKept
  BY DEF EInv, NodesOk, Mine, RegisteredKeyKept
<1> QED
  BY <1>1, EInvHolds, PTL
=============================================================================
