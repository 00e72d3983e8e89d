----------------------------- MODULE TftpProofs -----------------------------
(***************************************************************************)
(* Control blocks and connection arguments come and go together, for any   *)
(* number of clients, any pool, any files, any network and any failures.   *)
(* A transfer that its client takes for done is whole, and an upload stays *)
(* alive and is counted once, for any number of repetitions, over a        *)
(* network that loses, repeats and reorders.                               *)
(***************************************************************************)
EXTENDS Tftp, FiniteSetTheorems, Sums, TLAPS

\* The tables have an entry for every port, and what args holds are records.
IsArgs(a) == a = [block |-> a.block, total |-> a.total, len |-> a.len, live |-> a.live]

Tables ==
    /\ pcb = [p \in Port |-> pcb[p]]
    /\ args = [p \in Port |-> args[p]]
    /\ \A p \in Port : IsArgs(args[p]) /\ args[p].live \in BOOLEAN

IInv == Tables /\ NoOrphan

\* A connected control block is not a free one.
LEMMA ConnectedNotFree ==
    ASSUME NEW c, NEW recv \in {"rrq", "wrq"}
    PROVE  Connected(c, recv) # Free
BY DEF Connected, Free

LEMMA NoneIsArgs == IsArgs(None) /\ None.live = FALSE
BY DEF IsArgs, None

\* What is not a session before and after a step does not disturb the others:
\* one port changes, in both tables or in none.
LEMMA OnePort ==
    ASSUME IInv, NEW p, NEW b, NEW a,
           IsArgs(a), a.live \in BOOLEAN, (b # Free) <=> a.live,
           pcb' = [pcb EXCEPT ![p] = b], args' = [args EXCEPT ![p] = a]
    PROVE  IInv'
<1>1. /\ pcb' = [q \in Port |-> IF q = p THEN b ELSE pcb[q]]
      /\ args' = [q \in Port |-> IF q = p THEN a ELSE args[q]]
  BY DEF IInv, Tables
<1>2. Tables'
  BY <1>1 DEF IInv, Tables, IsArgs
<1>3. NoOrphan'
  BY <1>1 DEF IInv, NoOrphan
<1> QED BY <1>2, <1>3 DEF IInv

LEMMA CleanupInv ==
    ASSUME IInv, NEW p, Cleanup(p)
    PROVE  IInv'
<1>1. (Free # Free) <=> None.live
  BY NoneIsArgs
<1> QED BY <1>1, NoneIsArgs, OnePort DEF Cleanup

\* A new session: its control block is connected and its arguments are live.
LEMMA SessionInv ==
    ASSUME IInv, NEW p, NEW c, NEW recv \in {"rrq", "wrq"}, NEW a, IsArgs(a), a.live = TRUE,
           pcb' = [pcb EXCEPT ![p] = Connected(c, recv)], args' = [args EXCEPT ![p] = a]
    PROVE  IInv'
<1>1. (Connected(c, recv) # Free) <=> a.live
  BY ConnectedNotFree
<1> QED BY <1>1, OnePort

\* A session that goes on: its control block is kept, and live arguments too.
LEMMA KeptInv ==
    ASSUME IInv, NEW p \in Port, pcb[p] # Free, NEW a, IsArgs(a), a.live = TRUE,
           pcb' = pcb, args' = [args EXCEPT ![p] = a]
    PROVE  IInv'
<1>1. pcb' = [pcb EXCEPT ![p] = pcb[p]]
  BY DEF IInv, Tables
<1>2. (pcb[p] # Free) <=> a.live
  OBVIOUS
<1> QED BY <1>1, <1>2, OnePort

\* tftp_send_next_block leaves live arguments behind.
LEMMA NextBlockArgs ==
    ASSUME NEW p, NEW c, NEW a, NextBlock(p, c, a)
    PROVE  \E b : IsArgs(b) /\ b.live = TRUE /\ args' = [args EXCEPT ![p] = b]
<1> DEFINE l == IF a.total >= DataMax THEN DataMax ELSE a.total
           b == [block |-> (a.block + 1) % BlockMod,
                 total |-> a.total - l, len |-> l, live |-> TRUE]
<1>1. args' = [args EXCEPT ![p] = b]
  BY DEF NextBlock
<1>2. IsArgs(b) /\ b.live = TRUE
  BY DEF IsArgs
<1> QED BY <1>1, <1>2

\* Whatever the datagram, the arguments stay live.
LEMMA AcceptArgs ==
    ASSUME NEW a, NEW m, IsArgs(a), a.live = TRUE
    PROVE  IsArgs(Accept(a, m)) /\ Accept(a, m).live = TRUE
<1>1. CASE m.num = (a.block + 1) % BlockMod
  <2> DEFINE x == (a.block + 1) % BlockMod
             y == a.total + m.len
             b == [a EXCEPT !.block = x, !.total = y]
             R == [block : {a.block, x}, total : {a.total, y}, len : {a.len}, live : {a.live}]
  <2>1. Accept(a, m) = b
    BY <1>1 DEF Accept
  <2>2. a \in R
    BY DEF IsArgs
  <2>3. b \in R /\ b.live = a.live
    <3> HIDE DEF x, y
    <3> QED BY <2>2
  <2>4. IsArgs(b)
    <3> HIDE DEF b
    <3> QED BY <2>3 DEF IsArgs
  <2> HIDE DEF b
  <2> QED BY <2>1, <2>3, <2>4
<1>2. CASE ~(m.num = (a.block + 1) % BlockMod)
  BY <1>2 DEF Accept
<1> QED BY <1>1, <1>2

LEMMA InitInv == Init => IInv
<1> SUFFICES ASSUME Init PROVE IInv
  OBVIOUS
<1>1. Tables
  BY NoneIsArgs DEF Init, Tables
<1>2. NoOrphan
  BY NoneIsArgs DEF Init, NoOrphan
<1> QED BY <1>1, <1>2 DEF IInv

\* A request opens a session or cleans up, in every one of its branches.
LEMMA RequestInv ==
    ASSUME IInv, NEW m, Request(m)
    PROVE  IInv'
<1> DEFINE p == NewPort
<1>1. CASE UNCHANGED <<pcb, args>>
  BY <1>1 DEF IInv, Tables, NoOrphan
<1>2. CASE ProcessRead(p, m.src)
  <2> DEFINE a0 == [block |-> 1, total |-> FileLen, len |-> 0, live |-> TRUE]
  <2>1. CASE /\ NextBlock(p, m.src, a0)
             /\ pcb' = [pcb EXCEPT ![p] = Connected(m.src, "rrq")]
    <3>1. PICK b : IsArgs(b) /\ b.live = TRUE /\ args' = [args EXCEPT ![p] = b]
      BY <2>1, NextBlockArgs
    <3> HIDE DEF p
    <3> QED BY <2>1, <3>1, SessionInv
  <2>2. CASE Cleanup(p)
    BY <2>2, CleanupInv
  <2> QED BY <1>2, <2>1, <2>2 DEF ProcessRead
<1>3. CASE ProcessWrite(p, m.src)
  <2> DEFINE a0 == [block |-> 0, total |-> 0, len |-> 0, live |-> TRUE]
  <2>1. CASE /\ pcb' = [pcb EXCEPT ![p] = Connected(m.src, "wrq")]
             /\ args' = [args EXCEPT ![p] = a0]
    <3>1. IsArgs(a0) /\ a0.live = TRUE
      BY DEF IsArgs
    <3> HIDE DEF p, a0
    <3> QED BY <2>1, <3>1, SessionInv
  <2>2. CASE Cleanup(p)
    BY <2>2, CleanupInv
  <2> QED BY <1>3, <2>1, <2>2 DEF ProcessWrite
<1> QED BY <1>1, <1>2, <1>3 DEF Request

LEMMA ReadDataInv ==
    ASSUME IInv, NEW m, NEW p \in Port, ReadData(m, p)
    PROVE  IInv'
<1>1. pcb[p] # Free
  BY DEF ReadData, Matches
<1>2. CASE Cleanup(p)
  BY <1>2, CleanupInv
<1>3. CASE pcb' = pcb /\ \E a : NextBlock(p, m.src, a)
  <2>1. PICK b : IsArgs(b) /\ b.live = TRUE /\ args' = [args EXCEPT ![p] = b]
    BY <1>3, NextBlockArgs
  <2> QED BY <1>1, <1>3, <2>1, KeptInv
<1> QED BY <1>2, <1>3 DEF ReadData, RrqRecv

LEMMA WriteDataInv ==
    ASSUME IInv, NEW m, NEW p \in Port, WriteData(m, p)
    PROVE  IInv'
<1>1. pcb[p] # Free
  BY DEF WriteData, Matches
<1>2. IsArgs(args[p]) /\ args[p].live = TRUE
  BY <1>1 DEF IInv, Tables, NoOrphan
<1>3. CASE Cleanup(p)
  BY <1>3, CleanupInv
<1>4. CASE pcb' = pcb /\ args' = [args EXCEPT ![p] = Accept(args[p], m)]
  BY <1>1, <1>2, <1>4, AcceptArgs, KeptInv
<1> QED BY <1>3, <1>4 DEF WriteData, WrqRecv

LEMMA NextInv ==
    ASSUME IInv, [Next]_vars
    PROVE  IInv'
<1>1. CASE UNCHANGED <<pcb, args>>
  BY <1>1 DEF IInv, Tables, NoOrphan
<1>2. ASSUME NEW m \in up, Request(m)
      PROVE  IInv'
  BY <1>2, RequestInv
<1>3. ASSUME NEW m \in up, NotForUs(m)
      PROVE  IInv'
  BY <1>1, <1>3 DEF NotForUs, server
<1>4. ASSUME NEW m \in up, NEW p \in Port, ReadData(m, p)
      PROVE  IInv'
  BY <1>4, ReadDataInv
<1>5. ASSUME NEW m \in up, NEW p \in Port, WriteData(m, p)
      PROVE  IInv'
  BY <1>5, WriteDataInv
<1>6. ASSUME NEW m \in down, NEW c \in Clients, ClientRecv(c, m)
      PROVE  IInv'
  BY <1>1, <1>6 DEF ClientRecv, server
<1>7. ASSUME NEW c \in Clients, ClientRequest(c) \/ ClientTimeout(c)
      PROVE  IInv'
  BY <1>1, <1>7 DEF ClientRequest, ClientTimeout, server
<1>8. CASE UNCHANGED vars
  BY <1>1, <1>8 DEF vars
<1> QED BY <1>2, <1>3, <1>4, <1>5, <1>6, <1>7, <1>8 DEF Next, Deliver

\* No path of the server's callbacks, with whatever failure, leaves a control
\* block without its connection arguments or arguments without their block.
THEOREM SessionsAreWhole == Spec => []NoOrphan
<1>1. Init => IInv
  BY InitInv
<1>2. IInv /\ [Next]_vars => IInv'
  BY NextInv
<1>3. IInv => NoOrphan
  BY DEF IInv
<1> QED BY <1>1, <1>2, <1>3, PTL DEF Spec

----------------------------------------------------------------------------
(* Types. *)

\* Once more round the ports is the same port.
LEMMA OnceRound ==
    ASSUME NEW k \in Nat \ {0}, NEW n \in 0 .. (k - 1)
    PROVE  (n + k) % k = n
<1>1. n + k \in 0 .. (k + k - 1) /\ ~(n + k < k) /\ (n + k) - k = n
  OBVIOUS
<1> QED BY <1>1, OneRound

\* While a control block is left udp_new_port finds a port: there are at least
\* as many ports as control blocks.
LEMMA NewPortIs ==
    ASSUME TypeOK, PcbLeft
    PROVE  NewPort \in Port
<1> DEFINE After(i) == ((lastPort + i - 1) % Ports) + 1
           Fits(i) == After(i) \notin Open /\ \A j \in 1 .. (i - 1) : After(j) \in Open
           S == {i \in Port : After(i) \notin Open}
<1>1. lastPort \in Port /\ Port = 1 .. Ports /\ Ports \in Nat /\ Ports >= 1
  BY SizeAssumption DEF TypeOK, Port
<1>2. PICK q \in Port : q \notin Open
  <2>1. Open \subseteq Port BY DEF Open
  <2>2. Cardinality(Port) = Ports
    BY <1>1, FS_Interval
  <2>3. Open # Port BY <1>1, <2>2, SizeAssumption DEF PcbLeft
  <2> QED BY <2>1, <2>3
<1>3. \E i \in Port : After(i) = q
  <2>1. CASE q > lastPort
    <3>1. q - lastPort \in Port /\ lastPort + (q - lastPort) - 1 = q - 1 BY <1>1, <2>1
    <3>2. (q - 1) % Ports = q - 1 BY <1>1
    <3>3. After(q - lastPort) = q BY <1>1, <3>1, <3>2
    <3> QED BY <3>1, <3>3
  <2>2. CASE ~(q > lastPort)
    <3>1. q - lastPort + Ports \in Port /\ lastPort + (q - lastPort + Ports) - 1 = (q - 1) + Ports BY <1>1, <2>2
    <3>2. ((q - 1) + Ports) % Ports = q - 1
      <4>1. Ports \in Nat \ {0} /\ q - 1 \in 0 .. (Ports - 1) BY <1>1
      <4> QED BY <4>1, OnceRound
    <3>3. After(q - lastPort + Ports) = q
      <4> DEFINE i == q - lastPort + Ports
      <4>1. After(i) = ((lastPort + i - 1) % Ports) + 1 OBVIOUS
      <4>2. lastPort + i - 1 = (q - 1) + Ports BY <3>1
      <4> HIDE DEF i
      <4>3. After(i) = (q - 1) + 1 BY <4>1, <4>2, <3>2
      <4> QED BY <4>3, <1>1 DEF i
    <3> QED BY <3>1, <3>3
  <2> QED BY <2>1, <2>2
<1>4. S # {} /\ S \subseteq Nat
  <2>1. Port \subseteq Nat BY <1>1
  <2> HIDE DEF After
  <2> QED BY <2>1, <1>2, <1>3
<1>5. PICK x \in S : \A y \in S : x <= y BY <1>4, LeastNumber
<1>6. x \in Port /\ Fits(x)
  <2>1. \A j \in 1 .. (x - 1) : j \in Port /\ ~(x <= j) BY <1>1, <1>5
  <2> HIDE DEF After
  <2> QED BY <1>5, <2>1
<1>7. \A i \in Port : After(i) \in Port BY <1>1
<1>8. NewPort = After(CHOOSE i \in Port : Fits(i)) BY DEF NewPort
<1>9. (CHOOSE i \in Port : Fits(i)) \in Port
  <2> HIDE DEF Fits
  <2> QED BY <1>6
<1> HIDE DEF After, Fits
<1> QED BY <1>7, <1>8, <1>9

Args == [block : 0 .. (BlockMod - 1), total : Nat, len : 0 .. DataMax, live : BOOLEAN]
Blks == {Free} \cup [remote : Clients, recv : {"rrq", "wrq"}]

LEMMA Modulo ==
    ASSUME NEW n \in Nat
    PROVE  n % BlockMod \in 0 .. (BlockMod - 1)
BY SizeAssumption

\* A callback that changes one port and may send one datagram.
LEMMA ServerTypes ==
    ASSUME TypeOK, NEW p \in Port, NEW b \in Blks, NEW a \in Args,
           pcb' = [pcb EXCEPT ![p] = b], args' = [args EXCEPT ![p] = a],
           lastPort' \in Port, reported' \subseteq (Clients \X Nat),
           UNCHANGED client, up' \subseteq up, \A m \in down' : m \in down \/ m \in DownMsg
    PROVE  TypeOK'
<1>1. pcb' \in [Port -> Blks] BY DEF TypeOK, Blks
<1>2. args' \in [Port -> Args] BY DEF TypeOK, Args
<1> QED BY <1>1, <1>2 DEF TypeOK, Blks, Args

LEMMA SentTypes ==
    ASSUME TypeOK, NEW p \in Port, NEW c \in Clients, NEW n \in Nums, NEW l \in 0 .. DataMax,
           SendData(p, c, n, l) \/ SendAck(p, c, n) \/ SendError(p, c, n) \/ SendNone
    PROVE  \A m \in down' : m \in down \/ m \in DownMsg
<1>1. 0 \in 0 .. DataMax /\ 1 \in 0 .. DataMax BY SizeAssumption
<1> QED BY <1>1 DEF SendData, SendAck, SendError, SendNone, Send, DownMsg

LEMMA NextBlockTypes ==
    ASSUME TypeOK, NEW p \in Port, NEW c \in Clients, NEW a \in Args, NextBlock(p, c, a)
    PROVE  /\ \E x \in Args : args' = [args EXCEPT ![p] = x]
           /\ \A m \in down' : m \in down \/ m \in DownMsg
<1> DEFINE l == IF a.total >= DataMax THEN DataMax ELSE a.total
           x == [block |-> (a.block + 1) % BlockMod, total |-> a.total - l, len |-> l, live |-> TRUE]
<1>1. l \in 0 .. DataMax /\ a.total - l \in Nat /\ a.block \in Nat /\ a.block \in Nums
  BY SizeAssumption DEF Args, Nums
<1>2. SendData(p, c, a.block, l) /\ args' = [args EXCEPT ![p] = x] BY DEF NextBlock
<1> HIDE DEF l
<1>3. (a.block + 1) % BlockMod \in 0 .. (BlockMod - 1) BY <1>1, Modulo
<1>4. x \in Args BY <1>1, <1>3 DEF Args
<1> QED BY <1>1, <1>2, <1>4, SentTypes

LEMMA SmallNums ==
    /\ 0 \in Nums /\ 2 \in Nums /\ UnknownId \in Nums /\ 0 .. (BlockMod - 1) \subseteq Nums
    /\ None \in Args /\ Free \in Blks /\ 0 \in 0 .. DataMax /\ 1 \in 0 .. DataMax
    /\ 0 \in 0 .. (BlockMod - 1) /\ 1 \in 0 .. (BlockMod - 1)
    /\ \A c \in Clients : Connected(c, "rrq") \in Blks /\ Connected(c, "wrq") \in Blks
    /\ \A c : Op(c) \in {"RRQ", "WRQ", "OTHER"}
BY SizeAssumption DEF Nums, None, Args, Blks, Connected, Op

LEMMA RequestTypes ==
    ASSUME TypeOK, NEW m \in up, Request(m)
    PROVE  TypeOK'
<1>1. m.src \in Clients BY DEF TypeOK, UpMsg
<1>2. reported' = reported /\ UNCHANGED client /\ up' \subseteq up
  BY DEF Request, Take, Without
<1>3. CASE ~PcbLeft
  BY <1>2, <1>3 DEF Request, SendNone, TypeOK
<1>4. CASE PcbLeft
  <2>1. NewPort \in Port BY <1>4, NewPortIs
  <2>2. PICK p \in Port : p = NewPort BY <2>1
  <2>3. lastPort' \in Port /\ reported' \subseteq (Clients \X Nat) BY <1>2, <1>4, <2>1 DEF Request, TypeOK
  <2>4. CASE ProcessRead(p, m.src)
    <3> DEFINE a0 == [block |-> 1, total |-> FileLen, len |-> 0, live |-> TRUE]
    <3>1. CASE NextBlock(p, m.src, a0) /\ pcb' = [pcb EXCEPT ![p] = Connected(m.src, "rrq")]
      <4>1. a0 \in Args BY SmallNums, SizeAssumption DEF Args
      <4> HIDE DEF a0
      <4>2. PICK x \in Args : args' = [args EXCEPT ![p] = x] BY <1>1, <3>1, <4>1, NextBlockTypes
      <4>3. \A k \in down' : k \in down \/ k \in DownMsg BY <1>1, <3>1, <4>1, NextBlockTypes
      <4> QED BY <1>1, <1>2, <2>3, <3>1, <4>2, <4>3, SmallNums, ServerTypes
    <3>2. CASE SendError(p, m.src, 0) /\ Cleanup(p)
      <4>1. \A k \in down' : k \in down \/ k \in DownMsg BY <1>1, <3>2, SmallNums, SentTypes
      <4> QED BY <1>2, <2>3, <3>2, <4>1, SmallNums, ServerTypes DEF Cleanup
    <3> QED BY <2>4, <3>1, <3>2 DEF ProcessRead
  <2>5. CASE ProcessWrite(p, m.src)
    <3> DEFINE a0 == [block |-> 0, total |-> 0, len |-> 0, live |-> TRUE]
    <3>1. CASE /\ pcb' = [pcb EXCEPT ![p] = Connected(m.src, "wrq")]
               /\ args' = [args EXCEPT ![p] = a0] /\ SendAck(p, m.src, 0)
      <4>1. a0 \in Args BY SmallNums DEF Args
      <4> HIDE DEF a0
      <4>2. \A k \in down' : k \in down \/ k \in DownMsg BY <1>1, <3>1, SmallNums, SentTypes
      <4> QED BY <1>1, <1>2, <2>3, <3>1, <4>1, <4>2, SmallNums, ServerTypes
    <3>2. CASE SendError(p, m.src, 0) /\ Cleanup(p)
      <4>1. \A k \in down' : k \in down \/ k \in DownMsg BY <1>1, <3>2, SmallNums, SentTypes
      <4> QED BY <1>2, <2>3, <3>2, <4>1, SmallNums, ServerTypes DEF Cleanup
    <3> QED BY <2>5, <3>1, <3>2 DEF ProcessWrite
  <2>6. CASE SendError(p, m.src, 2) /\ UNCHANGED <<pcb, args>>
    <3>1. \A k \in down' : k \in down \/ k \in DownMsg BY <1>1, <2>6, SmallNums, SentTypes
    <3> QED BY <1>2, <2>3, <2>6, <3>1 DEF TypeOK
  <2> QED BY <1>4, <2>2, <2>4, <2>5, <2>6 DEF Request
<1> QED BY <1>3, <1>4

LEMMA ReadDataTypes ==
    ASSUME TypeOK, NEW m \in up, NEW p \in Port, ReadData(m, p)
    PROVE  TypeOK'
<1>1. m.src \in Clients /\ args[p] \in Args BY DEF TypeOK, UpMsg, Args
<1>2. /\ UNCHANGED client /\ up' \subseteq up /\ lastPort' \in Port /\ reported' \subseteq (Clients \X Nat)
  BY DEF ReadData, Take, Without, TypeOK
<1> DEFINE a == IF IsCorrectAck(m, args[p].block)
                THEN [args[p] EXCEPT !.block = (@ + 1) % BlockMod] ELSE args[p]
<1>3. a \in Args
  <2>1. (args[p].block + 1) % BlockMod \in 0 .. (BlockMod - 1) BY <1>1, Modulo DEF Args
  <2> QED BY <1>1, <2>1 DEF Args
<1>4. CASE Cleanup(p) /\ SendNone
  <2>1. \A k \in down' : k \in down \/ k \in DownMsg BY <1>4 DEF SendNone
  <2> QED BY <1>2, <1>4, <2>1, SmallNums, ServerTypes DEF Cleanup
<1>5. CASE NextBlock(p, m.src, a) /\ UNCHANGED pcb
  <2> HIDE DEF a
  <2>1. PICK x \in Args : args' = [args EXCEPT ![p] = x] BY <1>1, <1>3, <1>5, NextBlockTypes
  <2>2. \A k \in down' : k \in down \/ k \in DownMsg BY <1>1, <1>3, <1>5, NextBlockTypes
  <2>3. pcb[p] \in Blks /\ pcb' = [pcb EXCEPT ![p] = pcb[p]] BY <1>5 DEF TypeOK, Blks
  <2> QED BY <1>2, <2>1, <2>2, <2>3, ServerTypes
<1> QED BY <1>4, <1>5 DEF ReadData, RrqRecv

LEMMA WriteDataTypes ==
    ASSUME TypeOK, NEW m \in up, NEW p \in Port, WriteData(m, p)
    PROVE  TypeOK'
<1>1. m.src \in Clients /\ m.len \in Nat /\ args[p] \in Args
  BY SizeAssumption DEF TypeOK, UpMsg, Args
<1>2. UNCHANGED client /\ up' \subseteq up /\ lastPort' \in Port /\ reported \subseteq (Clients \X Nat)
  BY DEF WriteData, Take, Without, TypeOK
<1> DEFINE a == Accept(args[p], m)
<1>3. a \in Args
  <2>1. (args[p].block + 1) % BlockMod \in 0 .. (BlockMod - 1) /\ args[p].total + m.len \in Nat
    BY <1>1, Modulo DEF Args
  <2> QED BY <1>1, <2>1 DEF Args, Accept
<1>4. SendAck(p, m.src, a.block) BY DEF WriteData, WrqRecv
<1>5. \/ Cleanup(p) /\ reported' = reported \cup {<<m.src, a.total>>}
      \/ args' = [args EXCEPT ![p] = a] /\ UNCHANGED <<pcb, reported>>
  BY DEF WriteData, WrqRecv
<1> HIDE DEF a
<1>6. a.block \in Nums /\ a.total \in Nat BY <1>3, SmallNums DEF Args
<1>7. \A k \in down' : k \in down \/ k \in DownMsg BY <1>1, <1>4, <1>6, SmallNums, SentTypes
<1>8. reported' \subseteq (Clients \X Nat) BY <1>1, <1>2, <1>5, <1>6
<1>9. pcb[p] \in Blks /\ (UNCHANGED pcb => pcb' = [pcb EXCEPT ![p] = pcb[p]]) BY DEF TypeOK, Blks
<1> QED BY <1>2, <1>3, <1>5, <1>7, <1>8, <1>9, SmallNums, ServerTypes DEF Cleanup

ClientType == [state : {"idle", "asked", "runs", "done", "failed"},
               tid : Port \cup {Tftp69}, blk : Nat, got : Nat, tries : 0 .. Retries]

\* A client that changes its own record and may say one thing.
LEMMA ClientTypes ==
    ASSUME TypeOK, UNCHANGED server, down' \subseteq down, \A m \in up' : m \in up \/ m \in UpMsg,
           NEW c \in Clients, NEW r \in ClientType,
           client' = client \/ client' = [client EXCEPT ![c] = r]
    PROVE  TypeOK'
<1>1. client' \in [Clients -> ClientType] BY DEF TypeOK, ClientType
<1> QED BY <1>1 DEF TypeOK, ClientType, server

\* What a client says: a request, an error, an acknowledgement or a block.
LEMMA SaidTypes ==
    ASSUME TypeOK, NEW c \in Clients, NEW dst \in Port \cup {Tftp69}, NEW num \in Nums, NEW n \in Nat,
           \/ Say(c, Op(c), Tftp69, 0, 0) \/ Say(c, "ERROR", dst, UnknownId, 1)
           \/ Say(c, "ACK", dst, num, 0) \/ SayBlock(c, dst, n) \/ UNCHANGED up
    PROVE  \A m \in up' : m \in up \/ m \in UpMsg
<1>1. n % BlockMod \in Nums BY Modulo, SmallNums
<1>2. BlockLen(UploadLen, n) \in 0 .. DataMax
  <2>1. UploadLen % DataMax \in 0 .. DataMax BY SizeAssumption
  <2> QED BY <2>1, SizeAssumption DEF BlockLen
<1>3. Op(c) \in {"RRQ", "WRQ", "OTHER"} BY SmallNums
<1>4. CASE Say(c, Op(c), Tftp69, 0, 0) BY <1>3, <1>4, SmallNums DEF Say, UpMsg
<1>5. CASE Say(c, "ERROR", dst, UnknownId, 1) BY <1>5, SmallNums DEF Say, UpMsg
<1>6. CASE Say(c, "ACK", dst, num, 0) BY <1>6, SmallNums DEF Say, UpMsg
<1>7. CASE SayBlock(c, dst, n)
  <2> DEFINE k == n % BlockMod
             l == BlockLen(UploadLen, n)
  <2>1. k \in Nums /\ l \in 0 .. DataMax BY <1>1, <1>2
  <2>2. Say(c, "DATA", dst, k, l) BY <1>7 DEF SayBlock
  <2> HIDE DEF k, l
  <2> QED BY <2>1, <2>2 DEF Say, UpMsg
<1> QED BY <1>4, <1>5, <1>6, <1>7

LEMMA ClientRecvTypes ==
    ASSUME TypeOK, NEW c \in Clients, NEW m \in down, ClientRecv(c, m)
    PROVE  TypeOK'
<1>1. client[c] \in ClientType /\ m.src \in Port /\ m.num \in Nums /\ m.len \in Nat
  BY SizeAssumption DEF TypeOK, ClientType, DownMsg
<1>2. UNCHANGED server /\ down' \subseteq down BY DEF ClientRecv, Without
<1>3. CASE Proceed(c, m)
  <2> DEFINE last == IF Op(c) = "RRQ" THEN m.len < DataMax ELSE client[c].blk = Blocks(UploadLen)
             goes == [client[c] EXCEPT !.state = IF last THEN "done" ELSE "runs", !.tid = m.src]
             x == [goes EXCEPT !.blk = @ + 1, !.got = @ + m.len]
             y == [goes EXCEPT !.blk = @ + 1]
  <2>1. goes \in ClientType BY <1>1 DEF ClientType
  <2>2. \/ Set(c, x) /\ Say(c, "ACK", m.src, m.num, 0)
        \/ Set(c, goes) /\ UNCHANGED up
        \/ Set(c, y) /\ SayBlock(c, m.src, client[c].blk + 1)
    BY <1>3 DEF Proceed
  <2> HIDE DEF goes
  <2>3. x \in ClientType /\ y \in ClientType
    <3>1. goes.blk + 1 \in Nat /\ goes.got + m.len \in Nat BY <1>1, <2>1 DEF ClientType
    <3> QED BY <2>1, <3>1 DEF ClientType
  <2> HIDE DEF x, y
  <2>4. client[c].blk + 1 \in Nat BY <1>1 DEF ClientType
  <2>5. \A k \in up' : k \in up \/ k \in UpMsg BY <1>1, <2>2, <2>4, SaidTypes
  <2>6. \E r \in ClientType : client' = [client EXCEPT ![c] = r] BY <2>1, <2>2, <2>3 DEF Set
  <2> QED BY <1>2, <2>5, <2>6, ClientTypes
<1>4. CASE /\ Say(c, "ERROR", m.src, UnknownId, 1) \/ Say(c, "ACK", m.src, m.num, 0) \/ UNCHANGED up
           /\ UNCHANGED client
  <2>1. \A k \in up' : k \in up \/ k \in UpMsg BY <1>1, <1>4, SaidTypes
  <2> QED BY <1>1, <1>2, <1>4, <2>1, ClientTypes
<1>5. CASE Set(c, [client[c] EXCEPT !.state = "failed"]) /\ UNCHANGED up
  <2> DEFINE r == [client[c] EXCEPT !.state = "failed"]
  <2>1. r \in ClientType BY <1>1 DEF ClientType
  <2>2. client' = [client EXCEPT ![c] = r] BY <1>5 DEF Set
  <2> HIDE DEF r
  <2> QED BY <1>2, <1>5, <2>1, <2>2, ClientTypes
<1> QED BY <1>3, <1>4, <1>5 DEF ClientRecv

LEMMA ClientSpeaksTypes ==
    ASSUME TypeOK, NEW c \in Clients, ClientRequest(c) \/ ClientTimeout(c)
    PROVE  TypeOK'
<1>1. client[c] \in ClientType BY DEF TypeOK, ClientType
<1>2. UNCHANGED server /\ down' = down BY DEF ClientRequest, ClientTimeout
<1>3. client[c].blk \in Nat /\ client[c].blk % BlockMod \in Nums /\ client[c].tid \in Port \cup {Tftp69}
  BY <1>1, Modulo, SmallNums DEF ClientType
<1> DEFINE x == [client[c] EXCEPT !.state = "asked"]
           y == [client[c] EXCEPT !.state = "failed"]
           z == [client[c] EXCEPT !.tries = @ - 1]
<1>4. x \in ClientType /\ y \in ClientType /\ (client[c].tries # 0 => z \in ClientType)
  BY <1>1, SizeAssumption DEF ClientType
<1>5. Set(c, x) \/ Set(c, y) \/ (client[c].tries # 0 /\ Set(c, z))
  BY DEF ClientRequest, ClientTimeout
<1> HIDE DEF x, y, z
<1>6. \E r \in ClientType : client' = [client EXCEPT ![c] = r] BY <1>4, <1>5 DEF Set
<1>7. \/ Say(c, Op(c), Tftp69, 0, 0) \/ Say(c, "ACK", client[c].tid, client[c].blk % BlockMod, 0)
      \/ SayBlock(c, client[c].tid, client[c].blk) \/ UNCHANGED up
  BY DEF ClientRequest, ClientTimeout
<1>8. \A k \in up' : k \in up \/ k \in UpMsg BY <1>3, <1>7, SaidTypes
<1> QED BY <1>2, <1>6, <1>8, ClientTypes

\* Block numbers stay within their 16 bits, blocks within 512 bytes, and control
\* blocks at ports that udp_new_port gives.
THEOREM TypeCorrect == Spec => []TypeOK
<1>1. Init => TypeOK
  <2> SUFFICES ASSUME Init PROVE TypeOK
    OBVIOUS
  <2>1. pcb \in [Port -> Blks] /\ args \in [Port -> Args] BY SmallNums DEF Init
  <2>2. lastPort \in Port BY SizeAssumption DEF Init, Port
  <2>3. client \in [Clients -> ClientType] BY SizeAssumption DEF Init, ClientType
  <2> QED BY <2>1, <2>2, <2>3 DEF Init, TypeOK, Blks, Args, ClientType
<1>2. TypeOK /\ [Next]_vars => TypeOK'
  <2> SUFFICES ASSUME TypeOK, [Next]_vars PROVE TypeOK'
    OBVIOUS
  <2>1. ASSUME NEW m \in up, NotForUs(m) PROVE TypeOK'
    <3>1. UNCHANGED <<server, down, client>> /\ up' \subseteq up BY <2>1 DEF NotForUs, Take, Without
    <3> QED BY <3>1 DEF TypeOK, server
  <2>2. CASE UNCHANGED vars BY <2>2 DEF vars, TypeOK
  <2> QED BY <2>1, <2>2, RequestTypes, ReadDataTypes, WriteDataTypes, ClientRecvTypes, ClientSpeaksTypes
          DEF Next, Deliver
<1> QED BY <1>1, <1>2, PTL DEF Spec

----------------------------------------------------------------------------
(* The transfer. *)

\* What the theorems suppose: the network loses, repeats and reorders, as long as
\* the ports go round once (Lossy); block numbers do not go round in one file;
\* and the datagram of an ERROR is shorter than a full block.
Roomy ==
    /\ Lossy = TRUE /\ DataMax >= 2
    /\ Blocks(FileLen) + 1 < BlockMod /\ Blocks(UploadLen) < BlockMod

Begun(c) == client[c].state \notin {"idle", "asked"}

\* The arguments of a session that reads: the number is one ahead of the block
\* sent last, and what is left of the file is what comes after that.
Reads(a) ==
    /\ a.block \in 2 .. (Blocks(FileLen) + 1)
    /\ a.total = FileLen - BytesOf(FileLen, a.block - 1)
    /\ a.len = BlockLen(FileLen, a.block - 1)

\* Those of a session that writes, of which only the one its writer has taken up
\* gets beyond the first acknowledgement, and never far from its writer.
Writes(a, p, c) ==
    /\ a.block \in 0 .. (Blocks(UploadLen) - 1)
    /\ a.total = BytesOf(UploadLen, a.block)
    /\ a.block # 0 => Begun(c) /\ client[c].tid = p
    /\ Begun(c) /\ client[c].tid = p => a.block \in {client[c].blk - 1, client[c].blk}

Session(b, a, p) ==
    \/ b = Free
    \/ \E c \in Readers : b = Connected(c, "rrq") /\ Reads(a)
    \/ \E c \in Writers : b = Connected(c, "wrq") /\ Writes(a, p, c)

Sessions ==
    /\ lastPort \in Port
    /\ \A p \in Port : p > lastPort => pcb[p] = Free
    /\ \A p \in Port : Session(pcb[p], args[p], p)

Used == 1 .. lastPort

\* A datagram to the server: acknowledgements are of blocks that were sent, data
\* is the writer's own up to the block it is at, and errors go to strangers.
UpRight(m) ==
    /\ m.src \in Clients
    /\ \/ m.dst = Tftp69 /\ m.type = Op(m.src)
       \/ /\ m.type = "ACK" /\ m.src \in Readers /\ m.dst \in Used /\ m.num \in Nat
          /\ pcb[m.dst].recv = "rrq" => m.num < args[m.dst].block
       \/ /\ m.type = "DATA" /\ m.src \in Writers /\ m.dst \in Used
          /\ Begun(m.src) /\ client[m.src].tid = m.dst
          /\ m.num \in 1 .. client[m.src].blk /\ m.num <= Blocks(UploadLen)
          /\ m.len = BlockLen(UploadLen, m.num)
       \/ /\ m.type = "ERROR" /\ m.dst \in Used /\ m.len = 1 /\ m.num = UnknownId
          /\ Begun(m.src) /\ client[m.src].tid # m.dst

\* A datagram to a client: data is the block of the file its number says, and an
\* acknowledgement means what it says of the session, of the whole file if it is
\* the last, and that the session is there if its writer waits for one.
DownRight(m) ==
    /\ m.dst \in Clients /\ m.src \in Used
    /\ \/ /\ m.type = "DATA" /\ m.dst \in Readers
          /\ m.num \in 1 .. Blocks(FileLen) /\ m.len = BlockLen(FileLen, m.num)
          /\ pcb[m.src].recv = "rrq" => m.num < args[m.src].block
       \/ /\ m.type = "ACK" /\ m.dst \in Writers /\ m.num \in 0 .. Blocks(UploadLen)
          /\ pcb[m.src].recv = "wrq" => m.num <= args[m.src].block
          /\ m.num = Blocks(UploadLen) => <<m.dst, UploadLen>> \in reported
          /\ ~Begun(m.dst) => pcb[m.src] = Connected(m.dst, "wrq")
       \/ m.type = "ERROR"

Reader(c) ==
    /\ ~Begun(c) => client[c].blk = 0 /\ client[c].got = 0
    /\ client[c].state = "runs" =>
         /\ client[c].tid \in Used
         /\ client[c].blk \in 1 .. (Blocks(FileLen) - 1)
         /\ client[c].got = BytesOf(FileLen, client[c].blk)
         /\ pcb[client[c].tid].recv = "rrq" => client[c].blk < args[client[c].tid].block
    /\ client[c].state = "done" => client[c].got = FileLen

Writer(c) ==
    /\ ~Begun(c) => client[c].blk = 0
    /\ client[c].state = "runs" =>
         /\ client[c].tid \in Used
         /\ client[c].blk \in 1 .. Blocks(UploadLen)
         /\ client[c].blk < Blocks(UploadLen) => pcb[client[c].tid] = Connected(c, "wrq")
    /\ client[c].state = "done" => <<c, UploadLen>> \in reported

Parties ==
    /\ client \in [Clients -> [state : {"idle", "asked", "runs", "done", "failed"},
                               tid : Nat, blk : Nat, got : Nat, tries : Nat]]
    /\ \A c \in Clients : client[c].tid \in 0 .. lastPort
    /\ \A c \in Readers : Reader(c)
    /\ \A c \in Writers : Writer(c)
    /\ \A c \in Clients \ (Readers \cup Writers) : client[c].state \notin {"runs", "done"}

UpAll   == \A m \in up : UpRight(m)
DownAll == \A m \in down : DownRight(m)

Transfer == IInv /\ Sessions /\ UpAll /\ DownAll /\ Parties

----------------------------------------------------------------------------
(* Blocks of a file. *)

\* Remainders of a division by a positive number.
LEMMA Division ==
    ASSUME NEW len \in Nat
    PROVE  /\ len \div DataMax \in Nat /\ len % DataMax \in 0 .. (DataMax - 1)
           /\ len = (len \div DataMax) * DataMax + (len % DataMax)
BY SizeAssumption

\* A block number below BlockMod is its own remainder.
LEMMA SmallMod ==
    ASSUME NEW n \in Nat, n < BlockMod
    PROVE  n % BlockMod = n
BY SizeAssumption

\* A file has at least one block, an empty one if need be.
LEMMA BlocksAre ==
    ASSUME NEW len \in Nat
    PROVE  Blocks(len) \in Nat /\ Blocks(len) >= 1
BY Division DEF Blocks

\* The first n blocks and the next one are the first n + 1.
LEMMA BytesStep ==
    ASSUME NEW len \in Nat, NEW n \in 0 .. (Blocks(len) - 1)
    PROVE  /\ BytesOf(len, n) \in Nat /\ BytesOf(len, n) <= len
           /\ BlockLen(len, n + 1) \in 0 .. DataMax
           /\ BytesOf(len, n + 1) = BytesOf(len, n) + BlockLen(len, n + 1)
<1> DEFINE q == len \div DataMax
           r == len % DataMax
<1>1. q \in Nat /\ r \in 0 .. (DataMax - 1) /\ len = q * DataMax + r /\ DataMax \in Nat /\ DataMax >= 1
  BY Division, SizeAssumption
<1>2. Blocks(len) = q + 1 /\ n \in Nat /\ n <= q
  BY <1>1 DEF Blocks
<1>3. BytesOf(len, n) = n * DataMax
  BY <1>1, <1>2 DEF BytesOf
<1>4. BlockLen(len, n + 1) = IF n < q THEN DataMax ELSE r
  BY <1>1, <1>2 DEF BlockLen
<1>5. BytesOf(len, n + 1) = IF n < q THEN (n + 1) * DataMax ELSE len
  BY <1>1, <1>2 DEF BytesOf
<1>6. n * DataMax \in Nat
  BY <1>1, <1>2
<1>7. (n + 1) * DataMax = n * DataMax + DataMax
  BY <1>1, <1>2
<1>8. n * DataMax + (q - n) * DataMax = q * DataMax /\ (q - n) * DataMax \in Nat
  <2>1. q - n \in Nat BY <1>1, <1>2
  <2> DEFINE d == q - n
  <2>2. q = n + d /\ d \in Nat BY <1>1, <1>2
  <2> HIDE DEF d, q
  <2>3. (n + d) * DataMax = n * DataMax + d * DataMax BY <1>1, <1>2, <2>2
  <2> QED BY <1>1, <2>2, <2>3 DEF d
<1> HIDE DEF q, r
<1>9. CASE n < q
  BY <1>1, <1>2, <1>3, <1>4, <1>5, <1>6, <1>7, <1>8, <1>9
<1>10. CASE n = q
  BY <1>1, <1>2, <1>3, <1>4, <1>5, <1>6, <1>10
<1> QED BY <1>1, <1>2, <1>9, <1>10

\* tftp_send_next_block: what is left tells the length of the next block.
LEMMA RestTells ==
    ASSUME NEW len \in Nat, NEW n \in 0 .. (Blocks(len) - 1)
    PROVE  LET rest == len - BytesOf(len, n)
           IN  BlockLen(len, n + 1) = IF rest >= DataMax THEN DataMax ELSE rest
<1> DEFINE q == len \div DataMax
           r == len % DataMax
<1>1. q \in Nat /\ r \in 0 .. (DataMax - 1) /\ len = q * DataMax + r /\ DataMax \in Nat /\ DataMax >= 1
  BY Division, SizeAssumption
<1>2. Blocks(len) = q + 1 /\ n \in Nat /\ n <= q
  BY <1>1 DEF Blocks
<1>3. BytesOf(len, n) = n * DataMax
  BY <1>1, <1>2 DEF BytesOf
<1>4. BlockLen(len, n + 1) = IF n < q THEN DataMax ELSE r
  BY <1>1, <1>2 DEF BlockLen
<1> HIDE DEF q, r
<1>5. CASE n = q
  BY <1>1, <1>3, <1>4, <1>5
<1>6. CASE n < q
  <2> DEFINE d == q - n - 1
  <2>1. d \in Nat /\ q = n + (d + 1) BY <1>1, <1>2, <1>6
  <2> HIDE DEF d
  <2>2. (n + (d + 1)) * DataMax = n * DataMax + (d * DataMax + DataMax) /\ d * DataMax \in Nat /\ n * DataMax \in Nat
    BY <1>1, <1>2, <2>1
  <2> QED BY <1>1, <1>3, <1>4, <1>6, <2>1, <2>2
<1> QED BY <1>1, <1>2, <1>5, <1>6

\* A block is full unless it is the last, and the last one ends the file.
LEMMA LastIsShort ==
    ASSUME NEW len \in Nat, NEW n \in 1 .. Blocks(len)
    PROVE  /\ BlockLen(len, n) < DataMax <=> n = Blocks(len)
           /\ n < Blocks(len) => BlockLen(len, n) = DataMax
           /\ BytesOf(len, Blocks(len)) = len
BY Division, BlocksAre, SizeAssumption DEF BlockLen, BytesOf

----------------------------------------------------------------------------
(* What a step of the server and one of a client have in common. *)

\* A control block tells its remote and its callback.
LEMMA Tellings ==
    /\ Free.recv = "none"
    /\ \A c : Connected(c, "rrq").recv = "rrq" /\ Connected(c, "wrq").recv = "wrq"
    /\ \A c, d, r, s : Connected(c, r) = Connected(d, s) => c = d /\ r = s
    /\ \A c, r : Connected(c, r).remote = c
BY DEF Free, Connected

\* A client asks for one operation only.
LEMMA Operations ==
    /\ \A c \in Readers : Op(c) = "RRQ"
    /\ \A c \in Writers : Op(c) = "WRQ"
    /\ \A c \in Clients \ (Readers \cup Writers) : Op(c) = "OTHER"
    /\ Readers \subseteq Clients /\ Writers \subseteq Clients /\ Readers \cap Writers = {}
BY ClientsAssumption DEF Op, Clients

\* The numbers the steps below calculate with.
LEMMA Numbers ==
    /\ Blocks(FileLen) \in Nat /\ Blocks(FileLen) >= 1
    /\ Blocks(UploadLen) \in Nat /\ Blocks(UploadLen) >= 1
    /\ DataMax \in Nat /\ BlockMod \in Nat /\ BlockMod >= 2 /\ Ports \in Nat
BY BlocksAre, SizeAssumption

\* A session is one that reads or one that writes, and its number is a number.
LEMMA OfSession ==
    ASSUME NEW b, NEW a, NEW p, Session(b, a, p)
    PROVE  /\ b # Free => a.block \in Nat /\ b.recv \in {"rrq", "wrq"}
           /\ b.recv = "rrq" => (\E c \in Readers : b = Connected(c, "rrq")) /\ Reads(a)
           /\ b.recv = "wrq" => \E c \in Writers : b = Connected(c, "wrq") /\ Writes(a, p, c)
           /\ \A c : b = Connected(c, "wrq") => c \in Writers /\ Writes(a, p, c)
           /\ \A c : b = Connected(c, "rrq") => c \in Readers /\ Reads(a)
<1>1. \A c : Reads(a) \/ Writes(a, p, c) => a.block \in Nat
  BY Numbers DEF Reads, Writes
<1>2. \A c, d : Connected(c, "rrq") # Connected(d, "wrq") /\ Connected(c, "rrq") # Free /\ Connected(c, "wrq") # Free
  BY Tellings
<1> QED BY <1>1, <1>2, Tellings DEF Session

\* A callback changes one port: it opens a session, carries one on or ends it.
\* It may not end one whose writer waits for it.
LEMMA ServerKeeps ==
    ASSUME Transfer, IInv', NEW p \in Port, NEW b, NEW a,
           pcb' = [pcb EXCEPT ![p] = b], args' = [args EXCEPT ![p] = a],
           client' = client, up' = up, reported \subseteq reported',
           lastPort' \in Port, lastPort <= lastPort', p <= lastPort',
           Session(b, a, p),
           p <= lastPort => b = Free \/ (b = pcb[p] /\ args[p].block <= a.block),
           \A c \in Writers : b = Free /\ pcb[p] = Connected(c, "wrq") =>
               /\ Begun(c)
               /\ client[c].tid = p => ~(client[c].state = "runs" /\ client[c].blk < Blocks(UploadLen)),
           \A m \in down' : m \in down \/ DownRight(m)'
    PROVE  Transfer'
<1>1. \A q \in Port : /\ pcb'[q] = IF q = p THEN b ELSE pcb[q]
                      /\ args'[q] = IF q = p THEN a ELSE args[q]
  BY DEF Transfer, IInv, Tables
<1>2. Used \subseteq Used' /\ Used \subseteq Port /\ lastPort \in Nat /\ lastPort' \in Nat
  BY Numbers DEF Used, Port, Transfer, Sessions
<1>3. Sessions'
  <2>1. \A q \in Port : q > lastPort' => pcb'[q] = Free
    BY <1>1, <1>2 DEF Transfer, Sessions, Port
  <2>2. ASSUME NEW q \in Port PROVE Session(pcb'[q], args'[q], q)
    BY <1>1 DEF Transfer, Sessions
  <2>3. \A q \in Port : Session(pcb[q], args[q], q)'
    BY <2>2 DEF Session, Reads, Writes, Begun
  <2> QED BY <2>1, <2>3 DEF Sessions
<1>4. \A q \in Used : pcb'[q] # Free => pcb'[q] = pcb[q] /\ args[q].block <= args'[q].block
                                       /\ args[q].block \in Nat /\ args'[q].block \in Nat
  <2> SUFFICES ASSUME NEW q \in Used, pcb'[q] # Free
               PROVE  /\ pcb'[q] = pcb[q] /\ args[q].block <= args'[q].block
                      /\ args[q].block \in Nat /\ args'[q].block \in Nat
    OBVIOUS
  <2>1. Session(pcb[q], args[q], q) /\ q \in Port BY <1>2 DEF Transfer, Sessions
  <2>2. CASE q # p
    <3>1. pcb'[q] = pcb[q] /\ args'[q] = args[q] BY <1>1, <2>1, <2>2
    <3>2. args[q].block \in Nat BY <2>1, <3>1, OfSession
    <3> QED BY <3>1, <3>2
  <2>3. CASE q = p
    <3>1. b = pcb[p] /\ args[p].block <= a.block /\ b # Free
      BY <1>1, <1>2, <2>1, <2>3 DEF Used
    <3>2. args[p].block \in Nat /\ a.block \in Nat BY <2>1, <2>3, <3>1, OfSession
    <3> QED BY <1>1, <2>1, <2>3, <3>1, <3>2
  <2> QED BY <2>2, <2>3
<1>5. ASSUME NEW q \in Used, NEW c \in Writers, pcb[q] = Connected(c, "wrq"), pcb'[q] # pcb[q]
      PROVE  Begun(c) /\ (client[c].tid = q => ~(client[c].state = "runs" /\ client[c].blk < Blocks(UploadLen)))
  <2>1. q = p /\ p <= lastPort BY <1>1, <1>2, <1>5 DEF Used
  <2>2. b = Free BY <1>1, <1>5, <2>1
  <2> QED BY <1>5, <2>1, <2>2
<1>6. \A q \in Used : /\ pcb'[q].recv = "rrq" => pcb[q].recv = "rrq" /\ args[q].block <= args'[q].block
                                                 /\ args[q].block \in Nat /\ args'[q].block \in Nat
                      /\ pcb'[q].recv = "wrq" => pcb[q].recv = "wrq" /\ args[q].block <= args'[q].block
                                                 /\ args[q].block \in Nat /\ args'[q].block \in Nat
  BY <1>4, Tellings
<1>7. \A c : Begun(c)' = Begun(c)
  BY DEF Begun
<1>8. UpAll'
  <2> SUFFICES ASSUME NEW m \in up PROVE UpRight(m)'
    BY DEF UpAll
  <2>1. UpRight(m) BY DEF Transfer, UpAll
  <2>2. CASE m.dst = Tftp69 BY <2>1, <2>2 DEF UpRight, Used, Tftp69
  <2>3. CASE m.type = "ACK" /\ m.src \in Readers /\ m.dst \in Used /\ m.num \in Nat
             /\ (pcb[m.dst].recv = "rrq" => m.num < args[m.dst].block)
    <3>1. pcb'[m.dst].recv = "rrq" => m.num < args'[m.dst].block BY <1>6, <2>3
    <3> QED BY <1>2, <2>1, <2>3, <3>1 DEF UpRight
  <2>4. CASE m.type = "DATA" /\ m.dst \in Used BY <1>2, <1>7, <2>1, <2>4 DEF UpRight, Used, Tftp69
  <2>5. CASE m.type = "ERROR" /\ m.dst \in Used BY <1>2, <1>7, <2>1, <2>5 DEF UpRight, Used, Tftp69
  <2> QED BY <2>1, <2>2, <2>3, <2>4, <2>5 DEF UpRight
<1>9. ASSUME NEW m \in down PROVE DownRight(m)'
  <2>1. DownRight(m) BY DEF Transfer, DownAll
  <2>2. m.src \in Used /\ m.dst \in Clients BY <2>1 DEF DownRight
  <2>3. CASE m.type = "DATA"
    <3>1. pcb'[m.src].recv = "rrq" => m.num < args'[m.src].block
      BY <1>6, <2>1, <2>2, <2>3, Numbers DEF DownRight
    <3> QED BY <1>2, <2>1, <2>3, <3>1 DEF DownRight
  <2>4. CASE m.type = "ACK"
    <3>1. pcb'[m.src].recv = "wrq" => m.num <= args'[m.src].block
      BY <1>6, <2>1, <2>2, <2>4, Numbers DEF DownRight
    <3>2. m.dst \in Writers BY <2>1, <2>4 DEF DownRight
    <3>3. ~Begun(m.dst) => pcb'[m.src] = Connected(m.dst, "wrq")
      BY <1>5, <2>1, <2>2, <2>4, <3>2 DEF DownRight
    <3> QED BY <1>2, <1>7, <2>1, <2>4, <3>1, <3>3 DEF DownRight
  <2>5. CASE m.type = "ERROR" BY <1>2, <2>1, <2>5 DEF DownRight
  <2> QED BY <2>1, <2>3, <2>4, <2>5 DEF DownRight
<1>10. Parties'
  <2>1. ASSUME NEW c \in Readers PROVE Reader(c)'
    <3>1. Reader(c) BY DEF Transfer, Parties
    <3>2. client[c].state = "runs" /\ pcb'[client[c].tid].recv = "rrq" => client[c].blk < args'[client[c].tid].block
      BY <1>6, <3>1, Numbers DEF Reader
    <3> QED BY <1>2, <1>7, <3>1, <3>2 DEF Reader
  <2>2. ASSUME NEW c \in Writers PROVE Writer(c)'
    <3>1. Writer(c) BY DEF Transfer, Parties
    <3>2. client[c].state = "runs" /\ client[c].blk < Blocks(UploadLen) => pcb'[client[c].tid] = Connected(c, "wrq")
      BY <1>5, <3>1 DEF Writer
    <3> QED BY <1>2, <1>7, <3>1, <3>2 DEF Writer
  <2>3. \A c \in Clients : client'[c].tid \in 0 .. lastPort' BY <1>2 DEF Transfer, Parties
  <2> QED BY <2>1, <2>2, <2>3 DEF Transfer, Parties
<1> QED BY <1>3, <1>8, <1>9, <1>10 DEF Transfer, DownAll

\* A client that goes on neither forgets its session nor goes back.
LEMMA ClientKeeps ==
    ASSUME Transfer, UNCHANGED <<server, down>>, NEW c \in Clients, NEW r,
           r \in [state : {"idle", "asked", "runs", "done", "failed"},
                  tid : Nat, blk : Nat, got : Nat, tries : Nat],
           client' = [client EXCEPT ![c] = r],
           \A m \in up' : m \in up \/ UpRight(m)',
           Begun(c) => Begun(c)' /\ r.tid = client[c].tid /\ client[c].blk <= r.blk,
           \A p \in Port : c \in Writers /\ pcb[p] = Connected(c, "wrq") => Writes(args[p], p, c)',
           c \in Readers => Reader(c)',
           c \in Writers => Writer(c)',
           c \notin Readers \cup Writers => r.state \notin {"runs", "done"},
           r.tid \in 0 .. lastPort
    PROVE  Transfer'
<1>1. \A d \in Clients : client'[d] = IF d = c THEN r ELSE client[d]
  BY DEF Transfer, Parties
<1>2. pcb' = pcb /\ args' = args /\ lastPort' = lastPort /\ reported' = reported /\ down' = down /\ Used' = Used
  BY DEF server, Used
<1>3. IInv' BY <1>2 DEF Transfer, IInv, Tables, NoOrphan
<1>4. \A d \in Clients : d # c => (Begun(d)' <=> Begun(d))
  BY <1>1 DEF Begun
<1>5. Sessions'
  <2>1. ASSUME NEW p \in Port PROVE Session(pcb[p], args[p], p)'
    <3>1. Session(pcb[p], args[p], p) BY DEF Transfer, Sessions
    <3>2. CASE pcb[p] = Free BY <1>2, <3>2 DEF Session
    <3>3. ASSUME NEW d \in Readers, pcb[p] = Connected(d, "rrq"), Reads(args[p]) PROVE Session(pcb[p], args[p], p)'
      BY <1>2, <3>3 DEF Session, Reads
    <3>4. ASSUME NEW d \in Writers, pcb[p] = Connected(d, "wrq"), Writes(args[p], p, d) PROVE Session(pcb[p], args[p], p)'
      <4>1. d \in Clients BY Operations
      <4>2. d # c => Writes(args[p], p, d)' BY <1>1, <1>2, <1>4, <3>4, <4>1 DEF Writes
      <4>3. Writes(args[p], p, d)' BY <3>4, <4>2
      <4> QED BY <1>2, <3>4, <4>3 DEF Session
    <3> QED BY <3>1, <3>2, <3>3, <3>4 DEF Session
  <2> QED BY <1>2, <2>1 DEF Transfer, Sessions
<1>6. UpAll'
  <2> SUFFICES ASSUME NEW m \in up PROVE UpRight(m)'
    BY DEF UpAll
  <2>1. UpRight(m) BY DEF Transfer, UpAll
  <2>2. m.src \in Clients BY <2>1 DEF UpRight
  <2>3. Begun(m.src) => /\ Begun(m.src)' /\ client'[m.src].tid = client[m.src].tid
                        /\ client[m.src].blk <= client'[m.src].blk
                        /\ client[m.src].blk \in Nat /\ client'[m.src].blk \in Nat
    <3>1. client[m.src].blk \in Nat /\ r.blk \in Nat BY <2>2 DEF Transfer, Parties
    <3> QED BY <1>1, <1>4, <2>2, <3>1
  <2>4. Begun(m.src) /\ m.num \in 1 .. client[m.src].blk => m.num \in 1 .. client'[m.src].blk
    BY <2>3
  <2> QED BY <1>2, <2>1, <2>3, <2>4 DEF UpRight
<1>7. DownAll'
  <2> SUFFICES ASSUME NEW m \in down PROVE DownRight(m)'
    BY <1>2 DEF DownAll
  <2>1. DownRight(m) BY DEF Transfer, DownAll
  <2>2. m.dst \in Clients BY <2>1 DEF DownRight
  <2>3. Begun(m.dst) => Begun(m.dst)' BY <1>4, <2>2
  <2> QED BY <1>2, <2>1, <2>3 DEF DownRight
<1>8. Parties'
  <2>1. client' \in [Clients -> [state : {"idle", "asked", "runs", "done", "failed"},
                                 tid : Nat, blk : Nat, got : Nat, tries : Nat]]
    BY DEF Transfer, Parties
  <2>2. ASSUME NEW d \in Readers PROVE Reader(d)'
    <3>1. d \in Clients /\ Reader(d) BY Operations DEF Transfer, Parties
    <3>2. d # c => Reader(d)' BY <1>1, <1>2, <1>4, <3>1 DEF Reader
    <3> QED BY <3>2
  <2>3. ASSUME NEW d \in Writers PROVE Writer(d)'
    <3>1. d \in Clients /\ Writer(d) BY Operations DEF Transfer, Parties
    <3>2. d # c => Writer(d)' BY <1>1, <1>2, <1>4, <3>1 DEF Writer
    <3> QED BY <3>2
  <2>4. \A d \in Clients \ (Readers \cup Writers) : client'[d].state \notin {"runs", "done"}
    BY <1>1 DEF Transfer, Parties
  <2>5. \A d \in Clients : client'[d].tid \in 0 .. lastPort' BY <1>1, <1>2 DEF Transfer, Parties
  <2> QED BY <2>1, <2>2, <2>3, <2>4, <2>5 DEF Parties
<1> QED BY <1>3, <1>5, <1>6, <1>7, <1>8 DEF Transfer

----------------------------------------------------------------------------
(* The steps of the clients. *)

ClientStates == {"idle", "asked", "runs", "done", "failed"}

\* What the invariant says of one client.
LEMMA ClientIs ==
    ASSUME Transfer, NEW c \in Clients
    PROVE  /\ client[c] \in [state : ClientStates, tid : Nat, blk : Nat, got : Nat, tries : Nat]
           /\ client[c].tid \in 0 .. lastPort
           /\ c \in Readers => Reader(c)
           /\ c \in Writers => Writer(c)
           /\ c \notin Readers \cup Writers => client[c].state \notin {"runs", "done"}
           /\ \A r : client' = [client EXCEPT ![c] = r] => client'[c] = r
BY DEF Transfer, Parties, ClientStates

\* The sessions of a writer that keeps its place keep theirs.
LEMMA PlaceKept ==
    ASSUME Transfer, UNCHANGED server, NEW c \in Writers, NEW p \in Port, pcb[p] = Connected(c, "wrq"),
           client'[c].tid = client[c].tid, client'[c].blk = client[c].blk,
           Begun(c) => Begun(c)'
    PROVE  Writes(args[p], p, c)'
<1>1. Writes(args[p], p, c)
  <2>1. Session(pcb[p], args[p], p) BY DEF Transfer, Sessions
  <2> QED BY <2>1, OfSession
<1>2. c \in Clients /\ Writer(c) /\ client[c].blk \in Nat
  BY Operations, ClientIs
<1>3. CASE Begun(c) BY <1>1, <1>3 DEF Writes, server
<1>4. CASE ~Begun(c)
  <2>1. args[p].block = 0 /\ client[c].blk = 0 BY <1>1, <1>2, <1>4 DEF Writes, Writer
  <2> QED BY <1>1, <2>1 DEF Writes, server
<1> QED BY <1>3, <1>4

\* A client asks.
LEMMA ClientRequestKeeps ==
    ASSUME Transfer, NEW c \in Clients, ClientRequest(c)
    PROVE  Transfer'
<1> DEFINE r == [client[c] EXCEPT !.state = "asked"]
<1>1. /\ UNCHANGED <<server, down>> /\ client' = [client EXCEPT ![c] = r] /\ client[c].state = "idle"
      /\ up' = up \cup {[type |-> Op(c), src |-> c, dst |-> Tftp69, num |-> 0, len |-> 0]}
  BY DEF ClientRequest, Set, Say
<1>2. /\ r \in [state : ClientStates, tid : Nat, blk : Nat, got : Nat, tries : Nat]
      /\ r.state = "asked" /\ r.tid = client[c].tid /\ r.blk = client[c].blk /\ r.got = client[c].got
  BY ClientIs DEF ClientStates
<1> HIDE DEF r
<1>3. client'[c] = r /\ ~Begun(c) /\ ~Begun(c)' BY <1>1, <1>2, ClientIs DEF Begun
<1>4. \A m \in up' : m \in up \/ UpRight(m)' BY <1>1 DEF UpRight
<1>5. \A p \in Port : c \in Writers /\ pcb[p] = Connected(c, "wrq") => Writes(args[p], p, c)'
  BY <1>1, <1>2, <1>3, PlaceKept
<1>6. c \in Readers => Reader(c)' BY <1>2, <1>3, ClientIs DEF Reader
<1>7. c \in Writers => Writer(c)' BY <1>2, <1>3, ClientIs DEF Writer
<1>8. r.tid \in 0 .. lastPort BY <1>2, ClientIs
<1> QED BY <1>1, <1>2, <1>3, <1>4, <1>5, <1>6, <1>7, <1>8, ClientKeeps DEF ClientStates

SaysAgain(c) ==
    CASE client[c].state = "asked" -> Say(c, Op(c), Tftp69, 0, 0)
      [] client[c].state = "runs" /\ Op(c) = "RRQ" -> Say(c, "ACK", client[c].tid, client[c].blk % BlockMod, 0)
      [] OTHER -> SayBlock(c, client[c].tid, client[c].blk)

\* What a client says again is what it has said.
LEMMA ClientTimeoutKeeps ==
    ASSUME Transfer, Roomy, NEW c \in Clients, ClientTimeout(c)
    PROVE  Transfer'
<1>1. /\ UNCHANGED <<server, down>> /\ client[c].state \in {"asked", "runs"}
      /\ UNCHANGED <<pcb, args, lastPort, reported>>
  BY DEF ClientTimeout, server
<1>2. PICK r : /\ client' = [client EXCEPT ![c] = r]
               /\ r \in [state : ClientStates, tid : Nat, blk : Nat, got : Nat, tries : Nat]
               /\ r.state \in {client[c].state, "failed"}
               /\ r.tid = client[c].tid /\ r.blk = client[c].blk /\ r.got = client[c].got
               /\ \/ up' = up
                  \/ SaysAgain(c)
  <2>1. CASE client[c].tries = 0
    <3> DEFINE r == [client[c] EXCEPT !.state = "failed"]
    <3>1. /\ r \in [state : ClientStates, tid : Nat, blk : Nat, got : Nat, tries : Nat] /\ r.state = "failed"
          /\ r.tid = client[c].tid /\ r.blk = client[c].blk /\ r.got = client[c].got
      BY ClientIs DEF ClientStates
    <3>2. client' = [client EXCEPT ![c] = r] /\ up' = up BY <2>1 DEF ClientTimeout, Set
    <3> HIDE DEF r
    <3> QED BY <3>1, <3>2
  <2>2. CASE client[c].tries # 0
    <3> DEFINE r == [client[c] EXCEPT !.tries = @ - 1]
    <3>1. client[c].tries - 1 \in Nat BY <2>2, ClientIs
    <3>2. /\ r \in [state : ClientStates, tid : Nat, blk : Nat, got : Nat, tries : Nat] /\ r.state = client[c].state
          /\ r.tid = client[c].tid /\ r.blk = client[c].blk /\ r.got = client[c].got
      BY <3>1, ClientIs
    <3>3. client' = [client EXCEPT ![c] = r] BY <2>2 DEF ClientTimeout, Set
    <3>4. SaysAgain(c) BY <2>2 DEF ClientTimeout, SaysAgain
    <3> HIDE DEF r
    <3> QED BY <3>2, <3>3, <3>4
  <2> QED BY <2>1, <2>2
<1>3. client'[c] = r /\ (Begun(c) => Begun(c)') BY <1>1, <1>2, ClientIs DEF Begun
<1>4. Used' = Used BY <1>1 DEF Used
<1>5. ASSUME NEW m \in up', m \notin up PROVE UpRight(m)'
  <2>1. CASE client[c].state = "asked"
    <3>1. m = [type |-> Op(c), src |-> c, dst |-> Tftp69, num |-> 0, len |-> 0]
      BY <1>2, <1>5, <2>1 DEF Say, SaysAgain
    <3> QED BY <3>1 DEF UpRight
  <2>2. CASE client[c].state = "runs" /\ c \in Readers
    <3>1. /\ client[c].tid \in Used /\ client[c].blk \in 1 .. (Blocks(FileLen) - 1)
          /\ pcb[client[c].tid].recv = "rrq" => client[c].blk < args[client[c].tid].block
      BY <2>2, ClientIs DEF Reader
    <3>2. client[c].blk % BlockMod = client[c].blk /\ client[c].blk \in Nat
      BY <3>1, Numbers, SmallMod DEF Roomy
    <3>3. m = [type |-> "ACK", src |-> c, dst |-> client[c].tid, num |-> client[c].blk, len |-> 0]
      BY <1>2, <1>5, <2>2, <3>2, Operations DEF Say, SaysAgain
    <3> QED BY <1>1, <1>4, <2>2, <3>1, <3>2, <3>3 DEF UpRight
  <2>3. CASE client[c].state = "runs" /\ c \in Writers
    <3>1. client[c].tid \in Used /\ client[c].blk \in 1 .. Blocks(UploadLen)
      BY <2>3, ClientIs DEF Writer
    <3>2. client[c].blk % BlockMod = client[c].blk /\ client[c].blk \in Nat /\ client[c].blk >= 1
      BY <3>1, Numbers, SmallMod DEF Roomy
    <3>3. m = [type |-> "DATA", src |-> c, dst |-> client[c].tid, num |-> client[c].blk,
               len |-> BlockLen(UploadLen, client[c].blk)]
      BY <1>2, <1>5, <2>3, <3>2, Operations DEF Say, SayBlock, SaysAgain
    <3>4. Begun(c)' /\ client'[c].tid = client[c].tid /\ client'[c].blk = client[c].blk
      BY <1>2, <1>3, <2>3 DEF Begun
    <3>5. m.num \in 1 .. client'[c].blk /\ m.num <= Blocks(UploadLen)
      BY <3>1, <3>2, <3>3, <3>4, Numbers
    <3> QED BY <1>4, <2>3, <3>1, <3>3, <3>4, <3>5 DEF UpRight
  <2> QED BY <1>1, <2>1, <2>2, <2>3, ClientIs
<1>6. \A p \in Port : c \in Writers /\ pcb[p] = Connected(c, "wrq") => Writes(args[p], p, c)'
  BY <1>1, <1>2, <1>3, PlaceKept
<1>7. c \in Readers => Reader(c)' BY <1>1, <1>2, <1>3, <1>4, ClientIs DEF Reader, Begun
<1>8. c \in Writers => Writer(c)' BY <1>1, <1>2, <1>3, <1>4, ClientIs DEF Writer, Begun
<1>9. c \notin Readers \cup Writers => r.state \notin {"runs", "done"} BY <1>2, ClientIs
<1>10. Begun(c) => Begun(c)' /\ r.tid = client[c].tid /\ client[c].blk <= r.blk BY <1>2, <1>3, ClientIs
<1>11. r.tid \in 0 .. lastPort BY <1>2, ClientIs
<1> QED BY <1>1, <1>2, <1>5, <1>6, <1>7, <1>8, <1>9, <1>10, <1>11, ClientKeeps DEF ClientStates

\* No blocks are no bytes.
LEMMA NoBytesYet == ASSUME NEW len \in Nat PROVE BytesOf(len, 0) = 0
BY BlocksAre, SizeAssumption DEF BytesOf

\* A client that only says something, or that fails.
LEMMA ClientStays ==
    ASSUME Transfer, NEW c \in Clients, UNCHANGED <<server, down>>,
           client' = client \/ (/\ client' = [client EXCEPT ![c] = [client[c] EXCEPT !.state = "failed"]]
                                /\ client[c].state \in {"asked", "runs"}),
           \A m \in up' : m \in up \/ UpRight(m)'
    PROVE  Transfer'
<1>1. PICK r : /\ client' = [client EXCEPT ![c] = r]
               /\ r \in [state : ClientStates, tid : Nat, blk : Nat, got : Nat, tries : Nat]
               /\ r.state \in {client[c].state, "failed"} /\ (Begun(c) => r.state \notin {"idle", "asked"})
               /\ r.tid = client[c].tid /\ r.blk = client[c].blk /\ r.got = client[c].got
               /\ r.state = "idle" => client[c].state = "idle"
  <2>1. CASE client' = client
    <3>1. client' = [client EXCEPT ![c] = client[c]] BY <2>1 DEF Transfer, Parties
    <3> QED BY <3>1, ClientIs DEF Begun
  <2>2. CASE client' = [client EXCEPT ![c] = [client[c] EXCEPT !.state = "failed"]]
    <3> DEFINE r == [client[c] EXCEPT !.state = "failed"]
    <3>1. /\ r \in [state : ClientStates, tid : Nat, blk : Nat, got : Nat, tries : Nat] /\ r.state = "failed"
          /\ r.tid = client[c].tid /\ r.blk = client[c].blk /\ r.got = client[c].got
      BY ClientIs DEF ClientStates
    <3>2. client' = [client EXCEPT ![c] = r] BY <2>2
    <3> HIDE DEF r
    <3> QED BY <3>1, <3>2
  <2> QED BY <2>1, <2>2
<1>2. client'[c] = r /\ (Begun(c) => Begun(c)') BY <1>1, ClientIs DEF Begun
<1>3. Used' = Used /\ UNCHANGED <<pcb, args, lastPort, reported, server>> BY DEF Used, server
<1>4. ~Begun(c)' => ~Begun(c) BY <1>2
<1>5. \A p \in Port : c \in Writers /\ pcb[p] = Connected(c, "wrq") => Writes(args[p], p, c)'
  BY <1>1, <1>2, <1>3, PlaceKept
<1>6. c \in Readers => Reader(c)' BY <1>1, <1>2, <1>3, <1>4, ClientIs DEF Reader
<1>7. c \in Writers => Writer(c)' BY <1>1, <1>2, <1>3, <1>4, ClientIs DEF Writer
<1>8. c \notin Readers \cup Writers => r.state \notin {"runs", "done"} BY <1>1, ClientIs
<1>9. Begun(c) => Begun(c)' /\ r.tid = client[c].tid /\ client[c].blk <= r.blk BY <1>1, <1>2, ClientIs
<1>10. r.tid \in 0 .. lastPort BY <1>1, ClientIs
<1> QED BY <1>1, <1>5, <1>6, <1>7, <1>8, <1>9, <1>10, ClientKeeps DEF ClientStates

\* A reader takes the block it awaits, and with the last one it has them all.
LEMMA ReaderProceeds ==
    ASSUME Transfer, Roomy, NEW c \in Readers, NEW m \in down, m.dst = c, UNCHANGED <<server, down>>,
           Awaited(c, m), Proceed(c, m)
    PROVE  Transfer'
<1>1. c \in Clients /\ Op(c) = "RRQ" /\ c \notin Writers /\ Reader(c)
  BY Operations, ClientIs
<1>2. UNCHANGED <<pcb, args, lastPort, reported>> /\ Used' = Used BY DEF server, Used
<1>3. /\ client[c].state = "asked" \/ (client[c].state = "runs" /\ m.src = client[c].tid)
      /\ m.type = "DATA" /\ m.num = (client[c].blk + 1) % BlockMod
  BY <1>1 DEF Awaited
<1>4. /\ m.src \in Used /\ m.num \in 1 .. Blocks(FileLen) /\ m.len = BlockLen(FileLen, m.num)
      /\ pcb[m.src].recv = "rrq" => m.num < args[m.src].block
  BY <1>3 DEF Transfer, DownAll, DownRight
<1>5. client[c].blk \in 0 .. (Blocks(FileLen) - 1) /\ client[c].got = BytesOf(FileLen, client[c].blk)
  <2>1. CASE client[c].state = "asked"
    <3>1. client[c].blk = 0 /\ client[c].got = 0 BY <1>1, <2>1 DEF Reader, Begun
    <3> QED BY <3>1, Numbers, NoBytesYet, SizeAssumption
  <2>2. CASE client[c].state = "runs" BY <1>1, <2>2, Numbers DEF Reader
  <2> QED BY <1>3, <2>1, <2>2
<1>6. m.num = client[c].blk + 1 /\ client[c].blk \in Nat
  BY <1>3, <1>5, Numbers, SmallMod DEF Roomy
<1>7. m.len \in 0 .. DataMax /\ BytesOf(FileLen, m.num) = client[c].got + m.len
  BY <1>4, <1>5, <1>6, BytesStep, SizeAssumption
<1>8. m.len < DataMax <=> m.num = Blocks(FileLen)
  BY <1>4, LastIsShort, SizeAssumption
<1>9. BytesOf(FileLen, Blocks(FileLen)) = FileLen
  BY Numbers, LastIsShort, SizeAssumption
<1> DEFINE state == IF m.len < DataMax THEN "done" ELSE "runs"
           goes == [client[c] EXCEPT !.state = state, !.tid = m.src]
           r == [goes EXCEPT !.blk = @ + 1, !.got = @ + m.len]
<1>10. /\ client' = [client EXCEPT ![c] = r]
       /\ up' = up \cup {[type |-> "ACK", src |-> c, dst |-> m.src, num |-> m.num, len |-> 0]}
  BY <1>1 DEF Proceed, Set, Say
<1>11. /\ r \in [state : ClientStates, tid : Nat, blk : Nat, got : Nat, tries : Nat]
       /\ r.state = state /\ r.tid = m.src /\ r.blk = m.num /\ r.got = BytesOf(FileLen, m.num)
  <2>1. m.src \in Nat /\ m.len \in Nat BY <1>4, <1>7, Numbers DEF Used
  <2>2. client[c] \in [state : ClientStates, tid : Nat, blk : Nat, got : Nat, tries : Nat] BY <1>1, ClientIs
  <2>3. client[c].blk + 1 \in Nat /\ client[c].got + m.len \in Nat BY <2>1, <2>2
  <2>4. state \in ClientStates BY DEF ClientStates
  <2> HIDE DEF state
  <2>5. goes \in [state : ClientStates, tid : Nat, blk : Nat, got : Nat, tries : Nat]
        /\ goes.state = state /\ goes.tid = m.src /\ goes.blk = client[c].blk /\ goes.got = client[c].got
    BY <2>1, <2>2, <2>4
  <2> HIDE DEF goes
  <2>6. /\ r \in [state : ClientStates, tid : Nat, blk : Nat, got : Nat, tries : Nat]
        /\ r.state = state /\ r.tid = m.src /\ r.blk = client[c].blk + 1 /\ r.got = client[c].got + m.len
    BY <2>3, <2>5
  <2> QED BY <1>6, <1>7, <2>6
<1> HIDE DEF r
<1>12. client'[c] = r BY <1>1, <1>10, ClientIs
<1>13. Begun(c)' BY <1>11, <1>12 DEF Begun
<1>14. \A n \in up' : n \in up \/ UpRight(n)'
  <2>1. m.num \in Nat BY <1>4, Numbers
  <2> QED BY <1>1, <1>2, <1>4, <1>10, <2>1 DEF UpRight
<1>15. Reader(c)'
  <2>1. CASE m.num = Blocks(FileLen) BY <1>8, <1>9, <1>11, <1>12, <1>13, <2>1 DEF Reader
  <2>2. CASE m.num # Blocks(FileLen)
    <3>1. m.num \in 1 .. (Blocks(FileLen) - 1) BY <1>4, <2>2, Numbers
    <3>2. state = "runs" BY <1>8, <2>2
    <3> QED BY <1>2, <1>4, <1>11, <1>12, <1>13, <3>1, <3>2 DEF Reader
  <2> QED BY <2>1, <2>2
<1>16. Begun(c) => Begun(c)' /\ r.tid = client[c].tid /\ client[c].blk <= r.blk
  BY <1>3, <1>6, <1>11, <1>13 DEF Begun
<1>17. r.tid \in 0 .. lastPort BY <1>4, <1>11 DEF Used
<1> QED BY <1>1, <1>10, <1>11, <1>14, <1>15, <1>16, <1>17, ClientKeeps DEF ClientStates

\* A writer goes on with an acknowledgement of the block it is at.
LEMMA WriterProceeds ==
    ASSUME Transfer, Roomy, NEW c \in Writers, NEW m \in down, m.dst = c, UNCHANGED <<server, down>>,
           Awaited(c, m), Proceed(c, m)
    PROVE  Transfer'
<1>1. c \in Clients /\ Op(c) = "WRQ" /\ c \notin Readers /\ Writer(c)
  BY Operations, ClientIs
<1>2. UNCHANGED <<pcb, args, lastPort, reported>> /\ Used' = Used BY DEF server, Used
<1>3. /\ client[c].state = "asked" \/ (client[c].state = "runs" /\ m.src = client[c].tid)
      /\ m.type = "ACK" /\ m.num = client[c].blk % BlockMod
  BY <1>1 DEF Awaited
<1>4. /\ m.src \in Used /\ m.src \in Nat /\ (pcb[m.src].recv = "wrq" => m.num <= args[m.src].block)
      /\ m.num = Blocks(UploadLen) => <<c, UploadLen>> \in reported
      /\ ~Begun(c) => pcb[m.src] = Connected(c, "wrq")
  <2>1. DownRight(m) BY DEF Transfer, DownAll
  <2>2. m.src \in Nat BY <2>1 DEF DownRight, Used
  <2> QED BY <1>3, <2>1, <2>2 DEF DownRight
<1>5. client[c].blk \in 0 .. Blocks(UploadLen) /\ (client[c].state = "asked" => client[c].blk = 0)
  BY <1>1, <1>3, Numbers DEF Writer, Begun
<1>6. m.num = client[c].blk /\ client[c].blk \in Nat
  BY <1>3, <1>5, Numbers, SmallMod DEF Roomy
<1>7. CASE client[c].blk = Blocks(UploadLen)
  <2> DEFINE r == [client[c] EXCEPT !.state = "done", !.tid = m.src]
  <2>1. client' = [client EXCEPT ![c] = r] /\ up' = up
    BY <1>1, <1>7 DEF Proceed, Set
  <2>2. /\ r \in [state : ClientStates, tid : Nat, blk : Nat, got : Nat, tries : Nat]
        /\ r.state = "done" /\ r.tid = m.src /\ r.blk = client[c].blk
    BY <1>1, <1>4, ClientIs DEF ClientStates
  <2> HIDE DEF r
  <2>3. client'[c] = r BY <1>1, <2>1, ClientIs
  <2>4. client[c].state = "runs" /\ m.src = client[c].tid /\ Begun(c)' /\ Begun(c)
    BY <1>3, <1>5, <1>7, <2>2, <2>3, Numbers DEF Begun
  <2>5. \A p \in Port : pcb[p] = Connected(c, "wrq") => Writes(args[p], p, c)'
    BY <2>2, <2>3, <2>4, PlaceKept
  <2>6. Writer(c)' BY <1>2, <1>4, <1>6, <1>7, <2>2, <2>3, <2>4 DEF Writer
  <2>7. Begun(c) => Begun(c)' /\ r.tid = client[c].tid /\ client[c].blk <= r.blk
    BY <1>6, <2>2, <2>4
  <2>8. r.tid \in 0 .. lastPort BY <1>4, <2>2 DEF Used
  <2> QED BY <1>1, <2>1, <2>2, <2>5, <2>6, <2>7, <2>8, ClientKeeps DEF ClientStates
<1>8. CASE client[c].blk # Blocks(UploadLen)
  <2> DEFINE goes == [client[c] EXCEPT !.state = "runs", !.tid = m.src]
             r == [goes EXCEPT !.blk = @ + 1]
             n == client[c].blk + 1
  <2>1. n \in 1 .. Blocks(UploadLen) /\ n % BlockMod = n /\ n \in Nat
    BY <1>5, <1>6, <1>8, Numbers, SmallMod DEF Roomy
  <2>2. /\ client' = [client EXCEPT ![c] = r]
        /\ up' = up \cup {[type |-> "DATA", src |-> c, dst |-> m.src, num |-> n, len |-> BlockLen(UploadLen, n)]}
    BY <1>1, <1>8, <2>1 DEF Proceed, Set, SayBlock, Say
  <2>3. /\ r \in [state : ClientStates, tid : Nat, blk : Nat, got : Nat, tries : Nat]
        /\ r.state = "runs" /\ r.tid = m.src /\ r.blk = n
    <3>1. client[c] \in [state : ClientStates, tid : Nat, blk : Nat, got : Nat, tries : Nat] BY <1>1, ClientIs
    <3>2. goes \in [state : ClientStates, tid : Nat, blk : Nat, got : Nat, tries : Nat]
          /\ goes.state = "runs" /\ goes.tid = m.src /\ goes.blk = client[c].blk
      BY <1>4, <3>1 DEF ClientStates
    <3> HIDE DEF goes
    <3> QED BY <2>1, <3>2
  <2> HIDE DEF r
  <2>4. client'[c] = r /\ Begun(c)' BY <1>1, <2>2, <2>3, ClientIs DEF Begun
  <2>5. Begun(c) => client[c].state = "runs" /\ m.src = client[c].tid BY <1>3 DEF Begun
  <2>6. pcb[m.src] = Connected(c, "wrq")
    <3>1. client[c].blk < Blocks(UploadLen) BY <1>5, <1>8, Numbers
    <3> QED BY <1>1, <1>4, <2>5, <3>1 DEF Writer
  <2>7. client[c].blk <= args[m.src].block BY <1>4, <1>6, <2>6, Tellings
  <2>8. \A k \in up' : k \in up \/ UpRight(k)'
    <3>1. n \in 1 .. client'[c].blk /\ n <= Blocks(UploadLen) BY <2>1, <2>3, <2>4, Numbers
    <3> QED BY <1>1, <1>2, <1>4, <2>2, <2>3, <2>4, <3>1 DEF UpRight
  <2>9. ASSUME NEW p \in Port, pcb[p] = Connected(c, "wrq") PROVE Writes(args[p], p, c)'
    <3>1. Writes(args[p], p, c)
      <4>1. Session(pcb[p], args[p], p) BY DEF Transfer, Sessions
      <4> QED BY <2>9, <4>1, OfSession
    <3>2. args[p].block \in Nat BY <3>1, Numbers DEF Writes
    <3>3. args[p].block # 0 => m.src = p BY <2>5, <3>1 DEF Writes
    <3>4. m.src = p => args[p].block \in {n - 1, n}
      <4> SUFFICES ASSUME m.src = p PROVE args[p].block \in {n - 1, n}
        OBVIOUS
      <4>1. CASE Begun(c)
        <5>1. args[p].block \in {client[c].blk - 1, client[c].blk} BY <2>5, <3>1, <4>1 DEF Writes
        <5> QED BY <1>6, <2>7, <3>2, <5>1
      <4>2. CASE ~Begun(c)
        <5>1. args[p].block = 0 /\ client[c].blk = 0 BY <1>1, <3>1, <4>2 DEF Writes, Writer
        <5> QED BY <5>1
      <4> QED BY <4>1, <4>2
    <3> QED BY <1>2, <2>3, <2>4, <3>1, <3>3, <3>4 DEF Writes
  <2>10. Writer(c)' BY <1>2, <1>4, <2>1, <2>3, <2>4, <2>6 DEF Writer
  <2>11. Begun(c) => Begun(c)' /\ r.tid = client[c].tid /\ client[c].blk <= r.blk
    BY <1>6, <2>3, <2>4, <2>5
  <2>12. r.tid \in 0 .. lastPort BY <1>4, <2>3 DEF Used
  <2> QED BY <1>1, <2>2, <2>3, <2>8, <2>9, <2>10, <2>11, <2>12, ClientKeeps DEF ClientStates
<1> QED BY <1>7, <1>8

\* A client gets a datagram: the one it awaits, a stranger's, an old one, an error.
LEMMA ClientRecvKeeps ==
    ASSUME Transfer, Roomy, NEW c \in Clients, NEW m \in down, ClientRecv(c, m)
    PROVE  Transfer'
<1>1. m.dst = c /\ UNCHANGED <<server, down>> BY DEF ClientRecv, Without, Roomy
<1>2. UNCHANGED <<pcb, args, lastPort>> /\ Used' = Used BY <1>1 DEF server, Used
<1>3. CASE Awaited(c, m)
  <2>1. Proceed(c, m) BY <1>3 DEF ClientRecv
  <2>2. c \in Readers \cup Writers BY <1>3, Operations DEF Awaited
  <2> QED BY <1>1, <1>3, <2>1, <2>2, ReaderProceeds, WriterProceeds
<1>4. CASE ~Awaited(c, m)
  <2>1. DownRight(m) BY DEF Transfer, DownAll
  <2>2. CASE /\ client[c].state \in {"runs", "done"} /\ m.src # client[c].tid
             /\ Say(c, "ERROR", m.src, UnknownId, 1) /\ UNCHANGED client
    <3>1. up' = up \cup {[type |-> "ERROR", src |-> c, dst |-> m.src, num |-> UnknownId, len |-> 1]}
      BY <2>2 DEF Say
    <3>2. m.src \in Used' /\ Begun(c)' /\ client'[c].tid # m.src
      BY <1>2, <2>1, <2>2 DEF DownRight, Begun
    <3>3. \A k \in up' : k \in up \/ UpRight(k)' BY <3>1, <3>2 DEF UpRight
    <3> QED BY <1>1, <2>2, <3>3, ClientStays
  <2>3. CASE m.type = "DATA" /\ Say(c, "ACK", m.src, m.num, 0) /\ UNCHANGED client
    <3>1. up' = up \cup {[type |-> "ACK", src |-> c, dst |-> m.src, num |-> m.num, len |-> 0]}
      BY <2>3 DEF Say
    <3>2. c \in Readers /\ m.src \in Used' /\ m.num \in Nat /\ (pcb'[m.src].recv = "rrq" => m.num < args'[m.src].block)
      BY <1>1, <1>2, <2>1, <2>3, Numbers DEF DownRight
    <3>3. \A k \in up' : k \in up \/ UpRight(k)' BY <3>1, <3>2 DEF UpRight
    <3> QED BY <1>1, <2>3, <3>3, ClientStays
  <2>4. CASE client[c].state \in {"asked", "runs"} /\ Set(c, [client[c] EXCEPT !.state = "failed"]) /\ UNCHANGED up
    BY <1>1, <2>4, ClientStays DEF Set
  <2>5. CASE UNCHANGED <<client, up>>
    BY <1>1, <2>5, ClientStays
  <2> QED BY <1>4, <2>2, <2>3, <2>4, <2>5 DEF ClientRecv
<1> QED BY <1>3, <1>4

----------------------------------------------------------------------------
(* The callbacks. *)

\* One datagram more, or none.
Sends(m) == down' = down \cup {m} \/ down' = down

\* As long as the ports have not gone round the next one is new.
LEMMA NextPort ==
    ASSUME Transfer, lastPort < Ports
    PROVE  NewPort = lastPort + 1 /\ NewPort \in Port /\ pcb[NewPort] = Free
<1> DEFINE After(i) == ((lastPort + i - 1) % Ports) + 1
           Fits(i) == After(i) \notin Open /\ \A j \in 1 .. (i - 1) : After(j) \in Open
<1>1. lastPort \in 1 .. Ports /\ Ports \in Nat BY Numbers DEF Transfer, Sessions, Port
<1>2. lastPort + 1 \in Port /\ pcb[lastPort + 1] = Free BY <1>1 DEF Transfer, Sessions, Port
<1>3. After(1) = lastPort + 1
  <2>1. lastPort % Ports = lastPort BY <1>1
  <2>2. lastPort + 1 - 1 = lastPort BY <1>1
  <2> QED BY <2>1, <2>2
<1>4. 1 \in Port /\ Fits(1)
  <2>1. lastPort + 1 \notin Open BY <1>2 DEF Open
  <2>2. 1 .. (1 - 1) = {} OBVIOUS
  <2> QED BY <1>1, <1>3, <2>1, <2>2 DEF Port
<1>5. \A i \in Port : Fits(i) => i = 1
  <2> SUFFICES ASSUME NEW i \in Port, Fits(i), i # 1 PROVE FALSE
    OBVIOUS
  <2>1. 1 \in 1 .. (i - 1) BY <1>1 DEF Port
  <2>2. After(1) \in Open BY <2>1
  <2> QED BY <1>4, <2>2
<1>6. (CHOOSE i \in Port : Fits(i)) = 1
  <2> HIDE DEF Fits
  <2> QED BY <1>4, <1>5
<1>7. NewPort = After(CHOOSE i \in Port : Fits(i)) BY DEF NewPort
<1> QED BY <1>2, <1>3, <1>6, <1>7

\* tftp_send_next_block of block n.
LEMMA NextBlockRight ==
    ASSUME Roomy, NEW p, NEW c, NEW a, NEW n \in 1 .. Blocks(FileLen),
           a.block = n, a.total = FileLen - BytesOf(FileLen, n - 1), NextBlock(p, c, a)
    PROVE  \E x : /\ args' = [args EXCEPT ![p] = x] /\ Reads(x) /\ x.block = n + 1
                  /\ Sends([type |-> "DATA", src |-> p, dst |-> c, num |-> n, len |-> BlockLen(FileLen, n)])
<1> DEFINE l == IF a.total >= DataMax THEN DataMax ELSE a.total
           x == [block |-> (a.block + 1) % BlockMod, total |-> a.total - l, len |-> l, live |-> TRUE]
<1>1. n \in Nat /\ n >= 1 /\ n <= Blocks(FileLen) /\ n - 1 \in 0 .. (Blocks(FileLen) - 1) /\ n - 1 + 1 = n
  BY Numbers
<1>2. l = BlockLen(FileLen, n) BY <1>1, RestTells, SizeAssumption
<1>3. /\ BytesOf(FileLen, n) = BytesOf(FileLen, n - 1) + l
      /\ BytesOf(FileLen, n - 1) \in Nat /\ l \in Nat
  BY <1>1, <1>2, BytesStep, Numbers, SizeAssumption
<1>4. (a.block + 1) % BlockMod = n + 1 BY <1>1, Numbers, SmallMod DEF Roomy
<1>5. args' = [args EXCEPT ![p] = x] /\ Sends([type |-> "DATA", src |-> p, dst |-> c, num |-> n, len |-> l])
  BY DEF NextBlock, SendData, Send, Sends
<1>6. x.block = n + 1 /\ x.len = l /\ x.total = FileLen - BytesOf(FileLen, n)
  <2>1. x.total = a.total - l OBVIOUS
  <2>2. a.total - l = FileLen - BytesOf(FileLen, n) BY <1>3, SizeAssumption
  <2> QED BY <1>4, <2>1, <2>2
<1> HIDE DEF x, l
<1>7. Reads(x)
  <2>1. n + 1 \in 2 .. (Blocks(FileLen) + 1) /\ n + 1 - 1 = n BY <1>1, Numbers
  <2> QED BY <1>2, <1>6, <2>1 DEF Reads
<1> QED BY <1>2, <1>5, <1>6, <1>7

\* server_recv_cb: the session is at a port no datagram and no client knows yet.
LEMMA RequestKeeps ==
    ASSUME Transfer, IInv', Roomy, NEW m \in up, Request(m)
    PROVE  Transfer'
<1>1. m.dst = Tftp69 /\ client' = client /\ reported' = reported /\ up' = up /\ lastPort < Ports
  BY DEF Request, Take, Without, Roomy
<1>2. m.type = Op(m.src) /\ m.src \in Clients
  BY <1>1 DEF Transfer, UpAll, UpRight, Used, Tftp69
<1>3. lastPort \in Nat /\ lastPort \in Port BY Numbers DEF Transfer, Sessions, Port
<1>4. PICK p \in Port : /\ p = NewPort /\ p = lastPort + 1 /\ pcb[p] = Free
                       /\ ~(p <= lastPort) /\ lastPort <= p /\ p \in 1 .. p
  <2>1. NewPort = lastPort + 1 /\ NewPort \in Port /\ pcb[NewPort] = Free BY <1>1, NextPort
  <2>2. ~(NewPort <= lastPort) /\ lastPort <= NewPort /\ NewPort \in 1 .. NewPort BY <1>3, <2>1
  <2>3. \E q : q = NewPort OBVIOUS
  <2> QED BY <2>1, <2>2, <2>3
<1>5. \A c : pcb[p] # Connected(c, "wrq") BY <1>4, Tellings
<1>6. CASE ~PcbLeft
  <2>1. UNCHANGED <<vars>> BY <1>1, <1>6 DEF Request, SendNone, vars
  <2> QED BY <2>1 DEF vars, Transfer, IInv, Tables, NoOrphan, Sessions, Session, Reads, Writes, Begun, Used,
                      UpAll, UpRight, DownAll, DownRight, Parties, Reader, Writer
<1>7. CASE PcbLeft
  <2>1. /\ lastPort' = p /\ lastPort' \in Port /\ lastPort <= lastPort' /\ p <= lastPort'
        /\ reported \subseteq reported' /\ client' = client /\ up' = up
    BY <1>1, <1>4, <1>7 DEF Request
  <2>2. CASE m.type = "RRQ" /\ NextBlock(p, m.src, [block |-> 1, total |-> FileLen, len |-> 0, live |-> TRUE])
             /\ pcb' = [pcb EXCEPT ![p] = Connected(m.src, "rrq")]
    <3> DEFINE a0 == [block |-> 1, total |-> FileLen, len |-> 0, live |-> TRUE]
    <3>1. 1 \in 1 .. Blocks(FileLen) /\ a0.block = 1 /\ a0.total = FileLen - BytesOf(FileLen, 1 - 1)
      BY Numbers, NoBytesYet, SizeAssumption
    <3> HIDE DEF a0
    <3>2. PICK x : /\ args' = [args EXCEPT ![p] = x] /\ Reads(x) /\ x.block = 1 + 1
                   /\ Sends([type |-> "DATA", src |-> p, dst |-> m.src, num |-> 1, len |-> BlockLen(FileLen, 1)])
      BY <2>2, <3>1, NextBlockRight DEF a0
    <3>3. m.src \in Readers BY <1>2, <2>2, Operations
    <3>4. Session(Connected(m.src, "rrq"), x, p) BY <3>2, <3>3 DEF Session
    <3>5. p \in Used' /\ args'[p].block = 2
      BY <1>4, <2>1, <3>2 DEF Used, Transfer, IInv, Tables
    <3>6. \A k \in down' : k \in down \/ DownRight(k)'
      BY <1>2, <3>1, <3>2, <3>3, <3>5 DEF Sends, DownRight
    <3>7. args' = [args EXCEPT ![p] = x] BY <3>2
    <3>8. pcb' = [pcb EXCEPT ![p] = Connected(m.src, "rrq")] BY <2>2
    <3>9. ~(p <= lastPort) /\ p \in Port BY <1>4
    <3> QED BY <3>9, <1>5, <2>1, <3>8, <3>7, <3>4, <3>6, ServerKeeps, Zenon
  <2>3. CASE m.type = "WRQ" /\ SendAck(p, m.src, 0)
             /\ pcb' = [pcb EXCEPT ![p] = Connected(m.src, "wrq")]
             /\ args' = [args EXCEPT ![p] = [block |-> 0, total |-> 0, len |-> 0, live |-> TRUE]]
    <3> DEFINE x == [block |-> 0, total |-> 0, len |-> 0, live |-> TRUE]
    <3>1. Sends([type |-> "ACK", src |-> p, dst |-> m.src, num |-> 0, len |-> 0])
      BY <2>3 DEF SendAck, Send, Sends
    <3>2. m.src \in Writers BY <1>2, <2>3, Operations
    <3>3. Writes(x, p, m.src)
      <4>1. x.block \in 0 .. (Blocks(UploadLen) - 1) /\ x.total = BytesOf(UploadLen, 0) /\ x.block = 0
        BY Numbers, NoBytesYet, SizeAssumption
      <4>2. client[m.src].tid # p BY <1>2, <1>3, <1>4, ClientIs
      <4> QED BY <4>1, <4>2 DEF Writes
    <3>4. Session(Connected(m.src, "wrq"), x, p) BY <3>2, <3>3 DEF Session
    <3>5. p \in Used' /\ args'[p].block = 0 /\ pcb'[p] = Connected(m.src, "wrq")
      BY <1>4, <2>1, <2>3 DEF Used, Transfer, IInv, Tables
    <3>6. \A k \in down' : k \in down \/ DownRight(k)'
      BY <1>2, <3>1, <3>2, <3>5, Numbers DEF Sends, DownRight
    <3>7. args' = [args EXCEPT ![p] = x] BY <2>3
    <3> HIDE DEF x
    <3>8. pcb' = [pcb EXCEPT ![p] = Connected(m.src, "wrq")] BY <2>3
    <3>9. ~(p <= lastPort) /\ p \in Port BY <1>4
    <3> QED BY <3>9, <1>5, <2>1, <3>4, <3>6, <3>7, <3>8, ServerKeeps, Zenon
  <2>4. CASE \E n : SendError(p, m.src, n) /\ \/ Cleanup(p) \/ UNCHANGED <<pcb, args>>
    <3>1. PICK n : SendError(p, m.src, n) BY <2>4
    <3>2. Sends([type |-> "ERROR", src |-> p, dst |-> m.src, num |-> n, len |-> 1])
      BY <3>1 DEF SendError, Send, Sends
    <3>3. PICK a : pcb' = [pcb EXCEPT ![p] = Free] /\ args' = [args EXCEPT ![p] = a]
      <4>1. CASE Cleanup(p) BY <4>1 DEF Cleanup
      <4>2. CASE UNCHANGED <<pcb, args>>
        <5>1. pcb' = [pcb EXCEPT ![p] = Free] /\ args' = [args EXCEPT ![p] = args[p]]
          BY <1>4, <4>2 DEF Transfer, IInv, Tables
        <5> QED BY <5>1
      <4> QED BY <2>4, <4>1, <4>2
    <3>4. Session(Free, a, p) BY DEF Session
    <3>5. \A k \in down' : k \in down \/ DownRight(k)'
      BY <1>2, <1>4, <2>1, <3>2 DEF Sends, DownRight, Used
    <3> QED BY <1>4, <1>5, <2>1, <3>3, <3>4, <3>5, ServerKeeps, Zenon
  <2> QED BY <1>4, <1>7, <2>2, <2>3, <2>4 DEF Request, ProcessRead, ProcessWrite
<1> QED BY <1>6, <1>7

\* rrq_recv_callback: no acknowledgement is of the block not sent yet, so whatever
\* comes sends the next block or, after the last one, ends the session.
LEMMA ReadDataKeeps ==
    ASSUME Transfer, IInv', Roomy, NEW m \in up, NEW p \in Port, ReadData(m, p)
    PROVE  Transfer'
<1>1. /\ m.dst = p /\ pcb[p] # Free /\ pcb[p].remote = m.src /\ pcb[p].recv = "rrq"
      /\ client' = client /\ reported' = reported /\ up' = up /\ lastPort' = lastPort /\ RrqRecv(p, m)
  BY DEF ReadData, Matches, Take, Without, Roomy
<1>2. /\ p <= lastPort /\ lastPort \in Nat /\ p \in Nat /\ p \in Used /\ p # Tftp69 /\ lastPort \in Port
      /\ reported \subseteq reported' /\ lastPort' \in Port /\ lastPort <= lastPort' /\ p <= lastPort'
  BY <1>1, Numbers DEF Transfer, Sessions, Port, Used, Tftp69
<1>3. Session(pcb[p], args[p], p) BY DEF Transfer, Sessions
<1>4. PICK c \in Readers : pcb[p] = Connected(c, "rrq") BY <1>1, <1>3, OfSession
<1>5. Reads(args[p]) /\ c = m.src /\ \A d : pcb[p] # Connected(d, "wrq")
  BY <1>1, <1>3, <1>4, OfSession, Tellings
<1>6. UpRight(m) BY DEF Transfer, UpAll
<1>7. ~IsCorrectAck(m, args[p].block)
  <2>1. m.type = "ACK" => m.num \in Nat /\ m.num < args[p].block BY <1>1, <1>2, <1>6 DEF UpRight
  <2>2. args[p].block \in Nat BY <1>5, Numbers DEF Reads
  <2> QED BY <2>1, <2>2 DEF IsCorrectAck
<1>8. PICK n \in Nat : n = args[p].block
  BY <1>5, Numbers DEF Reads
<1>9. /\ n - 1 \in 1 .. Blocks(FileLen) /\ n \in Nat /\ n - 1 + 1 = n
      /\ args[p].len = BlockLen(FileLen, n - 1) /\ args[p].total = FileLen - BytesOf(FileLen, n - 1)
  BY <1>5, <1>8, Numbers DEF Reads
<1>10. CASE args[p].len < DataMax /\ Cleanup(p) /\ SendNone
  <2>1. /\ pcb' = [pcb EXCEPT ![p] = Free] /\ args' = [args EXCEPT ![p] = None] /\ down' = down
    BY <1>10 DEF Cleanup, SendNone
  <2>2. Session(Free, None, p) BY DEF Session
  <2>3. \A k \in down' : k \in down BY <2>1
  <2> QED BY <1>1, <1>2, <1>5, <2>1, <2>2, <2>3, ServerKeeps, Zenon
<1>11. CASE ~(args[p].len < DataMax) /\ NextBlock(p, m.src, args[p]) /\ pcb' = pcb
  <2>1. n \in 1 .. Blocks(FileLen)
    <3>1. n - 1 # Blocks(FileLen) BY <1>9, <1>11, LastIsShort, SizeAssumption
    <3> QED BY <1>9, <3>1, Numbers
  <2>2. PICK x : /\ args' = [args EXCEPT ![p] = x] /\ Reads(x) /\ x.block = n + 1
                 /\ Sends([type |-> "DATA", src |-> p, dst |-> c, num |-> n, len |-> BlockLen(FileLen, n)])
    BY <1>5, <1>8, <1>9, <1>11, <2>1, NextBlockRight
  <2>3. pcb' = [pcb EXCEPT ![p] = Connected(c, "rrq")]
    BY <1>4, <1>11 DEF Transfer, IInv, Tables
  <2>4. Session(Connected(c, "rrq"), x, p) BY <2>2 DEF Session
  <2>5. args[p].block <= x.block BY <1>8, <2>2
  <2>6. args'[p].block = n + 1 /\ p \in Used' /\ c \in Clients
    BY <1>1, <1>2, <2>2, Operations DEF Used, Transfer, IInv, Tables
  <2>7. \A k \in down' : k \in down \/ DownRight(k)'
    BY <1>8, <2>1, <2>2, <2>6 DEF Sends, DownRight
  <2> QED BY <1>1, <1>2, <1>4, <1>5, <2>2, <2>3, <2>4, <2>5, <2>7, ServerKeeps, Zenon
<1> QED BY <1>1, <1>5, <1>7, <1>10, <1>11 DEF RrqRecv

\* wrq_recv_callback: a short datagram is the last block, or comes from a writer that
\* has given up this session for another; a full one is counted if it is the next.
LEMMA WriteDataKeeps ==
    ASSUME Transfer, IInv', Roomy, NEW m \in up, NEW p \in Port, WriteData(m, p)
    PROVE  Transfer'
<1>1. /\ m.dst = p /\ pcb[p] # Free /\ pcb[p].remote = m.src /\ pcb[p].recv = "wrq"
      /\ client' = client /\ up' = up /\ lastPort' = lastPort /\ WrqRecv(p, m)
  BY DEF WriteData, Matches, Take, Without, Roomy
<1>2. /\ p <= lastPort /\ lastPort \in Nat /\ p \in Nat /\ p \in Used /\ p # Tftp69 /\ lastPort \in Port
      /\ lastPort' \in Port /\ lastPort <= lastPort' /\ p <= lastPort' /\ p \in Used'
  BY <1>1, Numbers DEF Transfer, Sessions, Port, Used, Tftp69
<1>3. PICK c \in Writers : pcb[p] = Connected(c, "wrq") /\ Writes(args[p], p, c)
  <2>1. Session(pcb[p], args[p], p) BY DEF Transfer, Sessions
  <2> QED BY <1>1, <2>1, OfSession
<1>4. c = m.src /\ c \in Clients /\ c \notin Readers /\ \A d : pcb[p] = Connected(d, "wrq") => d = c
  BY <1>1, <1>3, Tellings, Operations
<1>5. PICK n \in 0 .. (Blocks(UploadLen) - 1) : n = args[p].block /\ args[p].total = BytesOf(UploadLen, n)
  BY <1>3 DEF Writes
<1>6. n \in Nat /\ n + 1 \in 1 .. Blocks(UploadLen) /\ (n + 1) % BlockMod = n + 1
  BY <1>5, Numbers, SmallMod DEF Roomy
<1>7. UpRight(m) BY DEF Transfer, UpAll
<1>8. client[c].blk \in Nat BY <1>4, ClientIs
<1> DEFINE a == Accept(args[p], m)
<1>9. /\ m.num = n + 1 => a.block = n + 1 /\ a.total = BytesOf(UploadLen, n) + m.len
      /\ m.num # n + 1 => a = args[p]
  <2>1. IsArgs(args[p]) BY DEF Transfer, IInv, Tables
  <2> QED BY <1>5, <1>6, <2>1 DEF Accept, IsArgs
<1> HIDE DEF a
<1>10. Begun(c) /\ \/ /\ client[c].tid = p /\ n \in {client[c].blk - 1, client[c].blk}
                      /\ m.num \in 1 .. client[c].blk /\ m.num <= Blocks(UploadLen)
                      /\ m.len = BlockLen(UploadLen, m.num)
                   \/ client[c].tid # p /\ n = 0 /\ m.len = 1 /\ m.num = UnknownId
  <2>1. Begun(c) /\ client[c].tid = p => n \in {client[c].blk - 1, client[c].blk}
    BY <1>3, <1>5 DEF Writes
  <2>2. n # 0 => client[c].tid = p BY <1>3, <1>5 DEF Writes
  <2>3. m.type # Op(c) \/ m.dst # Tftp69 BY <1>1, <1>2
  <2> QED BY <1>1, <1>2, <1>4, <1>7, <2>1, <2>2 DEF UpRight
<1>11. PICK k : k = a.block OBVIOUS
<1>12. Sends([type |-> "ACK", src |-> p, dst |-> c, num |-> k, len |-> 0])
  BY <1>1, <1>4, <1>11 DEF WrqRecv, SendAck, Send, Sends, a
\* A step that ends the session is right when its acknowledgement is.
<1>13. CASE /\ m.len < DataMax /\ k \in 0 .. Blocks(UploadLen)
            /\ k = Blocks(UploadLen) => <<c, UploadLen>> \in reported'
            /\ client[c].tid = p => client[c].blk >= Blocks(UploadLen)
  <2>1. /\ pcb' = [pcb EXCEPT ![p] = Free] /\ args' = [args EXCEPT ![p] = None]
        /\ reported \subseteq reported'
    BY <1>1, <1>13 DEF WrqRecv, Cleanup
  <2>2. Session(Free, None, p) BY DEF Session
  <2>3. pcb'[p].recv = "none" /\ Begun(c)'
    BY <1>1, <1>10, <2>1, Tellings DEF Begun, Transfer, IInv, Tables
  <2>4. \A j \in down' : j \in down \/ DownRight(j)'
    BY <1>2, <1>3, <1>4, <1>12, <1>13, <2>3 DEF Sends, DownRight
  <2>5. \A d \in Writers : pcb[p] = Connected(d, "wrq") =>
          /\ Begun(d)
          /\ client[d].tid = p => ~(client[d].state = "runs" /\ client[d].blk < Blocks(UploadLen))
    BY <1>4, <1>8, <1>10, <1>13, Numbers
  <2> QED BY <1>1, <1>2, <2>1, <2>2, <2>4, <2>5, ServerKeeps, Zenon
\* One that goes on is right when it stays with its writer.
<1>14. CASE /\ ~(m.len < DataMax) /\ client[c].tid = p /\ k \in {n, n + 1} /\ k < Blocks(UploadLen)
            /\ a.total = BytesOf(UploadLen, k) /\ k \in {client[c].blk - 1, client[c].blk}
  <2>1. /\ pcb' = pcb /\ args' = [args EXCEPT ![p] = a] /\ reported' = reported
    BY <1>1, <1>14 DEF WrqRecv, a
  <2>2. PICK x : x = a OBVIOUS
  <2>3. x.block = k /\ k \in Nat /\ k <= Blocks(UploadLen) - 1 /\ args[p].block <= x.block
    BY <1>5, <1>6, <1>11, <1>14, <2>2, Numbers
  <2>4. Session(Connected(c, "wrq"), x, p)
    BY <1>10, <1>14, <2>2, <2>3, Numbers DEF Session, Writes
  <2>5. pcb' = [pcb EXCEPT ![p] = Connected(c, "wrq")] /\ args' = [args EXCEPT ![p] = x]
    BY <1>3, <2>1, <2>2 DEF Transfer, IInv, Tables
  <2>6. args'[p].block = k /\ Begun(c)'
    BY <1>1, <1>10, <2>3, <2>5 DEF Begun, Transfer, IInv, Tables
  <2>7. \A j \in down' : j \in down \/ DownRight(j)'
    BY <1>2, <1>3, <1>4, <1>12, <1>14, <2>3, <2>6, Numbers DEF Sends, DownRight
  <2>8. Connected(c, "wrq") # Free /\ reported \subseteq reported' BY <2>1, Tellings
  <2> QED BY <1>1, <1>2, <1>3, <2>3, <2>4, <2>5, <2>7, <2>8, ServerKeeps, Zenon
<1>15. CASE client[c].tid # p
  <2>1. n = 0 /\ m.len = 1 /\ m.num = 5 BY <1>10, <1>15 DEF UnknownId
  <2>2. k = 0
    <3>1. m.num # n + 1 BY <2>1
    <3>2. a.block = n BY <1>5, <1>9, <3>1
    <3> QED BY <1>11, <2>1, <3>2
  <2> QED BY <1>13, <1>15, <2>1, <2>2, Numbers DEF Roomy
<1>16. CASE client[c].tid = p
  <2>1. /\ n \in {client[c].blk - 1, client[c].blk} /\ m.num \in 1 .. client[c].blk
        /\ m.num \in 1 .. Blocks(UploadLen) /\ m.len = BlockLen(UploadLen, m.num) /\ m.num \in Nat
    BY <1>8, <1>10, <1>16, Numbers
  <2>2. m.len < DataMax <=> m.num = Blocks(UploadLen) BY <2>1, LastIsShort, SizeAssumption
  <2>3. CASE m.num = n + 1
    <3>1. k = n + 1 /\ a.total = BytesOf(UploadLen, n + 1)
      BY <1>5, <1>9, <1>11, <2>1, <2>3, BytesStep, SizeAssumption
    <3>2. CASE m.num = Blocks(UploadLen)
      <4>1. a.total = UploadLen BY <2>1, <2>3, <3>1, <3>2, LastIsShort, SizeAssumption
      <4>2. <<c, UploadLen>> \in reported' BY <1>1, <1>4, <2>2, <3>2, <4>1 DEF WrqRecv, a
      <4> QED BY <1>8, <1>13, <1>16, <2>1, <2>2, <2>3, <3>1, <3>2, <4>2, Numbers
    <3>3. CASE m.num # Blocks(UploadLen)
      <4>1. n + 1 = client[c].blk BY <1>6, <1>8, <2>1, <2>3
      <4> QED BY <1>6, <1>14, <1>16, <2>2, <2>3, <3>1, <3>3, <4>1, Numbers
    <3> QED BY <3>2, <3>3
  <2>4. CASE m.num # n + 1
    <3>1. m.num # Blocks(UploadLen) BY <1>5, <1>6, <1>8, <2>1, <2>4, Numbers
    <3>2. k = n /\ a.total = BytesOf(UploadLen, n) BY <1>5, <1>9, <1>11, <2>4
    <3> QED BY <1>5, <1>6, <1>14, <1>16, <2>1, <2>2, <3>1, <3>2, Numbers
  <2> QED BY <2>3, <2>4
<1> QED BY <1>15, <1>16

----------------------------------------------------------------------------
(* The invariant and what follows from it. *)

\* Nobody has said anything yet.
LEMMA InitTransfer ==
    ASSUME Roomy, Init
    PROVE  Transfer
<1>1. IInv BY InitInv
<1>2. 1 \in Port /\ Ports \in Nat BY SizeAssumption DEF Port
<1>3. Sessions BY <1>2 DEF Init, Sessions, Session
<1>4. UpAll /\ DownAll BY DEF Init, UpAll, DownAll
<1>5. Parties
  <2>1. \A c \in Clients : ~Begun(c) /\ client[c].state = "idle" /\ client[c].tid = 0
                           /\ client[c].blk = 0 /\ client[c].got = 0
    BY DEF Init, Begun, Tftp69
  <2>2. client \in [Clients -> [state : {"idle", "asked", "runs", "done", "failed"},
                                tid : Nat, blk : Nat, got : Nat, tries : Nat]]
    BY SizeAssumption DEF Init, Tftp69
  <2>3. 0 \in 0 .. lastPort BY DEF Init
  <2> QED BY <2>1, <2>2, <2>3, Operations DEF Parties, Reader, Writer
<1> QED BY <1>1, <1>3, <1>4, <1>5 DEF Transfer

\* A datagram that stays in the network and is for nobody changes nothing.
LEMMA SameTransfer ==
    ASSUME Transfer, UNCHANGED vars
    PROVE  Transfer'
BY DEF vars, Transfer, IInv, Tables, NoOrphan, Sessions, Session, Reads, Writes, Begun, Used,
       UpAll, UpRight, DownAll, DownRight, Parties, Reader, Writer

\* Every step keeps the invariant.
LEMMA NextTransfer ==
    ASSUME Roomy, Transfer, [Next]_vars
    PROVE  Transfer'
<1>1. IInv' BY NextInv DEF Transfer
<1>2. CASE Next
  <2>1. ASSUME NEW m \in up, NotForUs(m) PROVE Transfer'
    <3>1. UNCHANGED vars BY <2>1 DEF NotForUs, Take, Without, Roomy, server, vars
    <3> QED BY <3>1, SameTransfer
  <2> QED BY <1>1, <1>2, <2>1, RequestKeeps, ReadDataKeeps, WriteDataKeeps, ClientRecvKeeps,
             ClientRequestKeeps, ClientTimeoutKeeps DEF Next, Deliver
<1>3. CASE UNCHANGED vars BY <1>3, SameTransfer
<1> QED BY <1>2, <1>3

\* What a reader gets is the file, block by block, and nothing is skipped.
LEMMA TransferReads == ASSUME Transfer PROVE ReadsInSequence
<1>1. ASSUME NEW p \in Port, pcb[p].recv = "rrq"
      PROVE  args[p].total + BytesOf(FileLen, args[p].block - 1) = FileLen
  <2>1. Session(pcb[p], args[p], p) BY DEF Transfer, Sessions
  <2>2. Reads(args[p]) BY <1>1, <2>1, OfSession
  <2>3. PICK n \in 1 .. Blocks(FileLen) : n = args[p].block - 1
    BY <2>2, Numbers DEF Reads
  <2>4. BytesOf(FileLen, n) \in Nat
    <3>1. CASE n < Blocks(FileLen)
      BY <2>3, <3>1, Numbers, BytesStep, SizeAssumption
    <3>2. CASE n = Blocks(FileLen)
      BY <2>3, <3>2, Numbers, LastIsShort, SizeAssumption
    <3> QED BY <2>3, <3>1, <3>2, Numbers
  <2> QED BY <2>2, <2>3, <2>4, SizeAssumption DEF Reads
<1>2. ASSUME NEW m \in down, m.type = "DATA"
      PROVE  m.num >= 1 /\ m.len = (IF m.num > Blocks(FileLen) THEN 0 ELSE BlockLen(FileLen, m.num))
  <2>1. DownRight(m) BY DEF Transfer, DownAll
  <2> QED BY <1>2, <2>1, Numbers DEF DownRight
<1> QED BY <1>1, <1>2 DEF ReadsInSequence

\* What a client takes for done is.
LEMMA TransferDone == ASSUME Transfer PROVE DoneIsWhole
BY Operations DEF Transfer, Parties, Reader, Writer, DoneIsWhole

\* What the server keeps of an upload is what its writer has sent.
LEMMA TransferUpload == ASSUME Transfer PROVE UploadIntact
<1>1. CountedOnce
  <2> SUFFICES ASSUME NEW p \in Port, pcb[p].recv = "wrq"
               PROVE  LET c == pcb[p].remote
                      IN  /\ args[p].total = BytesOf(UploadLen, args[p].block)
                          /\ client[c].state = "runs" /\ client[c].tid = p /\ args[p].block # 0
                               => args[p].block \in {client[c].blk - 1, client[c].blk}
    BY DEF CountedOnce
  <2>1. PICK c \in Writers : pcb[p] = Connected(c, "wrq") /\ Writes(args[p], p, c)
    <3>1. Session(pcb[p], args[p], p) BY DEF Transfer, Sessions
    <3> QED BY <3>1, OfSession
  <2>2. pcb[p].remote = c BY <2>1, Tellings
  <2> QED BY <2>1, <2>2 DEF Writes, Begun
<1>2. UploadAlive
  <2> SUFFICES ASSUME NEW c \in Writers, client[c].state = "runs", client[c].blk < Blocks(UploadLen)
               PROVE  /\ pcb[client[c].tid] = Connected(c, "wrq")
                      /\ args[client[c].tid].block + 1 >= client[c].blk
    BY DEF UploadAlive
  <2>1. c \in Clients /\ Writer(c) /\ client[c].blk \in Nat BY Operations, ClientIs
  <2>2. client[c].tid \in Port /\ pcb[client[c].tid] = Connected(c, "wrq") /\ Begun(c)
    BY <2>1, Numbers DEF Writer, Begun, Used, Port, Transfer, Sessions
  <2>3. Writes(args[client[c].tid], client[c].tid, c)
    <3>1. Session(pcb[client[c].tid], args[client[c].tid], client[c].tid) BY <2>2 DEF Transfer, Sessions
    <3> QED BY <2>2, <3>1, OfSession
  <2>4. args[client[c].tid].block \in {client[c].blk - 1, client[c].blk} BY <2>2, <2>3 DEF Writes
  <2> QED BY <2>1, <2>2, <2>4
<1> QED BY <1>1, <1>2 DEF UploadIntact

\* Whatever the network loses, repeats or reorders and whatever fails, the block
\* on its way is the block of the file its number says, and what is left of the
\* file fits the number to come (rrq_recv_callback, tftp_send_next_block).
THEOREM BlocksInSequence ==
    ASSUME Roomy
    PROVE  Spec => []ReadsInSequence
<1>1. Init => Transfer BY InitTransfer
<1>2. Transfer /\ [Next]_vars => Transfer' BY NextTransfer
<1>3. Transfer => ReadsInSequence BY TransferReads
<1> QED BY <1>1, <1>2, <1>3, PTL DEF Spec

\* A transfer that its client takes for done is whole: the reader has every byte
\* of the file, and the server has reported every byte of the writer's.
THEOREM DoneMeansWhole ==
    ASSUME Roomy
    PROVE  Spec => []DoneIsWhole
<1>1. Init => Transfer BY InitTransfer
<1>2. Transfer /\ [Next]_vars => Transfer' BY NextTransfer
<1>3. Transfer => DoneIsWhole BY TransferDone
<1> QED BY <1>1, <1>2, <1>3, PTL DEF Spec

\* Nothing that is lost, late or repeated ends an upload before its last block
\* or counts a block twice (wrq_recv_callback).
THEOREM UploadsStayIntact ==
    ASSUME Roomy
    PROVE  Spec => []UploadIntact
<1>1. Init => Transfer BY InitTransfer
<1>2. Transfer /\ [Next]_vars => Transfer' BY NextTransfer
<1>3. Transfer => UploadIntact BY TransferUpload
<1> QED BY <1>1, <1>2, <1>3, PTL DEF Spec

=============================================================================
