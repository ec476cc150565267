----------------------------- MODULE NetProofs -----------------------------
(***************************************************************************)
(* Proofs that the safety invariants of Net hold for every set of peers,   *)
(* every size of the ARP cache and every depth of nested calls.            *)
(***************************************************************************)
EXTENDS Net, SequenceTheorems, TLAPS

\* The C frames the stack can hold: cpsw_rx_poll(), arp_resolve() inside an
\* ip_tx(), and netcore_ping().
Payload  == Seqs \cup Data
PollCall == [fn : {"poll"}]
ResolveCall == [fn : {"resolve"}, pc : {"poll", "check"}, kind : Senders,
                ip : Peers, arg : Payload, left : Nat \ {0}]
PingCall == [fn : {"ping"}, pc : {"poll", "check"}, seq : Seqs,
             left : Nat \ {0}, heard : BOOLEAN]
Call == PollCall \cup ResolveCall \cup PingCall

Entry == [ip : Peers, ts : Nat]

\* The variables have their types.
TypeOK ==
    /\ up \in {"clock", "ss", "cpdma", "mac", "bd", "on", "failed"}
    /\ rx \in Frames \cup {Armed, Blank}
    /\ fresh \in BOOLEAN /\ tx \in BOOLEAN
    /\ g_arp \in [Slots -> Entry \cup {None}]
    /\ now \in Nat
    /\ g_icmp_rep \in Packets \cup {None}
    /\ buf \in [Senders -> Payload \cup {0}]
    /\ stack \in Seq(Call)

\* At most one slot of cache c holds an entry of host ip.
Single(c) == \A i, j \in Slots : c[i] # None /\ c[j] # None /\ c[i].ip = c[j].ip => i = j

\* Only the outermost call is netcore_ping(), and an answer it would take has
\* been heard since it began.
PingOK(st, rep) ==
    \A k \in 1 .. Len(st) : st[k].fn = "ping" =>
        k = 1 /\ (rep # None /\ rep.val = st[k].seq => st[k].heard)

\* The pending sends in st find their payload in b.
BufOK(st, b) ==
    \A k \in 1 .. Len(st) : st[k].fn = "resolve" =>
        IF st[k].kind = "udp" THEN b["udp"] \in Data ELSE b[st[k].kind] = st[k].arg

Answering(st, k) == st[k].fn = "resolve" /\ st[k].kind = "echo_rep"

\* While an answer to an echo request waits for the address of the peer, the
\* request it answers holds the receive descriptor, the innermost call is
\* about to poll it once more, and the cache has no entry of the peer.
EchoHeld(st) ==
    \A k \in 1 .. Len(st) : Answering(st, k) =>
        /\ rx.type = "echo_req" /\ st[k].ip = rx.peer /\ st[k].arg = rx.val
        /\ Answering(st, Len(st)) /\ st[Len(st)].pc = "poll"
        /\ \A i \in Slots : ~Matches(g_arp, i, rx.peer)

\* The inductive invariant.
IInv == /\ TypeOK
        /\ ~Running => stack = <<>>
        /\ Single(g_arp)
        /\ PingOK(stack, g_icmp_rep)
        /\ BufOK(stack, buf)
        /\ EchoHeld(stack)

-----------------------------------------------------------------------------
(* Facts about frames and the cache *)

\* What a received packet carries.
LEMMA FrameFacts ==
    ASSUME NEW f \in Frames \cup {Armed, Blank}
    PROVE  /\ f.type \in {"arp_req", "arp_rep", "echo_req", "echo_rep", "udp"}
                 => f \in Packets /\ f.peer \in Peers
           /\ f.type \in {"echo_req", "echo_rep"} => f.val \in Seqs
           /\ f.type = "udp" => f.val \in Data
           /\ f # None
  <1>1. f \in Packets \/ f = Junk \/ f = Armed \/ f = Blank
    BY DEF Frames
  <1>2. CASE f \in Packets
    <2>1. PICK t \in DOMAIN Values : f \in [type : {t}, peer : Peers, val : Values[t]]
      BY <1>2, Zenon DEF Packets
    <2>2. f.type = t /\ f.peer \in Peers /\ f.val \in Values[t]
      BY <2>1
    <2>3. t \in {"arp_req", "arp_rep", "echo_req", "echo_rep", "udp"}
          /\ Values["echo_req"] = Seqs /\ Values["echo_rep"] = Seqs /\ Values["udp"] = Data
      BY DEF Values
    <2> QED BY <1>2, <2>2, <2>3 DEF None
  <1>3. CASE f \in {Junk, Armed, Blank}
    BY <1>3 DEF Junk, Armed, Blank, None
  <1> QED BY <1>1, <1>2, <1>3

\* arp_find() only invalidates entries.
LEMMA FindFacts ==
    ASSUME NEW c \in [Slots -> Entry \cup {None}], NEW ip, Single(c)
    PROVE  /\ arp_find(c, ip) \in [Slots -> Entry \cup {None}]
           /\ \A i \in Slots : arp_find(c, ip)[i] \in {None, c[i]}
           /\ Single(arp_find(c, ip))
  BY DEF arp_find, Single

\* An address that arp_find() does not find has no entry left: with a single
\* entry per host, none is live behind an expired one.
LEMMA MissFacts ==
    ASSUME NEW c \in [Slots -> Entry \cup {None}], NEW ip, Single(c), arp_hit(c, ip) = {}
    PROVE  \A i \in Slots : ~Matches(arp_find(c, ip), i, ip)
  <1>1. \A i \in Slots : ~Live(c, i, ip)
    <2> SUFFICES ASSUME NEW i \in Slots, Live(c, i, ip) PROVE FALSE
      OBVIOUS
    <2>1. \A j \in 1 .. i - 1 : j \in Slots /\ j # i
      BY NetAssumption DEF Slots
    <2>2. \A j \in 1 .. i - 1 : ~Live(c, j, ip)
      BY <2>1 DEF Live, Matches, Single
    <2> QED BY <2>2 DEF arp_hit
  <1>2. \A i \in Slots : \A j \in 1 .. i : j \in Slots
    BY NetAssumption DEF Slots
  <1> QED BY <1>1, <1>2 DEF arp_find, Matches

\* arp_cache_update() leaves one entry of the host it enters.
LEMMA UpdateFacts ==
    ASSUME NEW c \in [Slots -> Entry \cup {None}], NEW ip \in Peers, Single(c), now \in Nat
    PROVE  /\ arp_cache_update(c, ip) \in [Slots -> Entry \cup {None}]
           /\ Single(arp_cache_update(c, ip))
  <1> DEFINE f == arp_find(c, ip)
             e == [ip |-> ip, ts |-> now]
  <1>1. /\ f \in [Slots -> Entry \cup {None}]
        /\ \A i \in Slots : f[i] \in {None, c[i]}
        /\ Single(f)
    BY FindFacts
  <1>2. e \in Entry /\ e.ip = ip
    BY DEF Entry
  <1>3. PICK i : /\ arp_cache_update(c, ip) = [f EXCEPT ![i] = e]
                 /\ \/ i \in arp_hit(c, ip)
                    \/ arp_hit(c, ip) = {}
    BY Zenon DEF arp_cache_update
  <1>4. \A j \in Slots : j # i => ~Matches(f, j, ip)
    <2>1. CASE arp_hit(c, ip) = {}
      BY <2>1, MissFacts
    <2>2. CASE i \in arp_hit(c, ip)
      <3>1. i \in Slots /\ Matches(c, i, ip)
        BY <2>2 DEF arp_hit, Live
      <3> QED BY <1>1, <3>1 DEF Matches, Single
    <2> QED BY <1>3, <2>1, <2>2
  <1> HIDE DEF f, e
  <1>5. [f EXCEPT ![i] = e] \in [Slots -> Entry \cup {None}]
    BY Zenon, <1>1, <1>2
  <1>6. Single([f EXCEPT ![i] = e])
    BY <1>1, <1>2, <1>4 DEF Single, Matches
  <1> QED BY <1>3, <1>5, <1>6

-----------------------------------------------------------------------------
(* Facts about the stack of calls *)

\* The calls of new are the outer calls of old, possibly further on.
Like(new, old) ==
    /\ new \in Seq(Call) /\ Len(new) <= Len(old)
    /\ \A k \in 1 .. Len(new) :
          /\ new[k].fn = old[k].fn
          /\ new[k].fn = "resolve" => /\ new[k].kind = old[k].kind
                                      /\ new[k].ip = old[k].ip /\ new[k].arg = old[k].arg
          /\ new[k].fn = "ping" => /\ new[k].seq = old[k].seq
                                   /\ old[k].heard => new[k].heard

\* The fields of a call follow from the function called.
LEMMA CallFacts ==
    ASSUME NEW c \in Call
    PROVE  /\ c.fn \in {"poll", "resolve", "ping"}
           /\ c.fn = "resolve" <=> c \in ResolveCall
           /\ c.fn = "ping" <=> c \in PingCall
  BY DEF Call, PollCall, ResolveCall, PingCall

\* Returning from the innermost call, and the return of netcore_ping() when
\* its send failed.
LEMMA PopLike ==
    ASSUME NEW st \in Seq(Call), st # <<>>
    PROVE  Like(SubSeq(st, 1, Len(st) - 1), st) /\ Len(SubSeq(st, 1, Len(st) - 1)) = Len(st) - 1
  <1>1. PICK n \in Nat : Len(st) = n + 1
    <2>1. Len(st) \in Nat /\ Len(st) - 1 \in Nat
      OBVIOUS
    <2> QED BY <2>1
  <1>2. \A k \in 1 .. n : st[k] \in Call
    BY <1>1
  <1> DEFINE pop == SubSeq(st, 1, n)
  <1>3. /\ pop \in Seq(Call)
        /\ Len(pop) = IF 1 <= n THEN n - 1 + 1 ELSE 0
        /\ \A k \in 1 .. n - 1 + 1 : pop[k] = st[1 + k - 1]
    BY <1>2, SubSeqProperties
  <1> HIDE DEF pop
  <1>4. Len(pop) = n /\ \A k \in 1 .. n : pop[k] = st[k]
    BY <1>3
  <1>5. Like(pop, st)
    BY <1>1, <1>3, <1>4 DEF Like
  <1>6. Len(st) - 1 = n
    BY <1>1
  <1> QED BY <1>4, <1>5, <1>6 DEF pop

\* A call that gives up leaves the outer calls as they were.
LEMMA FailedLike ==
    ASSUME NEW st \in Seq(Call)
    PROVE  Like(Failed(st), st)
  <1>1. Like(st, st)
    BY DEF Like
  <1> QED BY <1>1, PopLike DEF Failed

\* What several returns in a row leave is still like the first stack.
LEMMA LikeTransitive ==
    ASSUME NEW a, NEW b, NEW c \in Seq(Call), Like(a, b), Like(b, c)
    PROVE  Like(a, c)
  BY DEF Like

\* Replacing the innermost call by a later state of it.
LEMMA SetTopLike ==
    ASSUME TypeOK, stack # <<>>, NEW r \in Call, r.fn = Top.fn,
           r.fn = "resolve" => r.kind = Top.kind /\ r.ip = Top.ip /\ r.arg = Top.arg,
           r.fn = "ping" => r.seq = Top.seq /\ (Top.heard => r.heard)
    PROVE  Like(SetTop(r), stack) /\ Len(SetTop(r)) = Len(stack)
           /\ SetTop(r)[Len(stack)] = r
  BY DEF TypeOK, Top, SetTop, Like

\* What the calls of st rely on, the outer calls of st rely on too.
LEMMA LikeKeeps ==
    ASSUME NEW new, NEW old \in Seq(Call), Like(new, old)
    PROVE  /\ \A rep : PingOK(old, rep) => PingOK(new, rep)
           /\ \A b : BufOK(old, b) => BufOK(new, b)
           /\ \A k \in 1 .. Len(new) : Answering(new, k) => Answering(old, k)
  BY SMTT(30) DEF Like, PingOK, BufOK, Answering

-----------------------------------------------------------------------------
(* Sending *)

\* The call of arp_resolve() that ip_tx() makes for an unknown address.
Resolving(kind, ip, v) == [fn |-> "resolve", pc |-> "poll", kind |-> kind,
                           ip |-> ip, arg |-> v, left |-> ARP_RESOLVE_ITER]

\* ip_tx() called from st: the packet leaves, the call fails, or one more call
\* of arp_resolve() waits with its payload in place.
LEMMA IpTx ==
    ASSUME TypeOK, Single(g_arp),
           NEW st \in Seq(Call), NEW kind \in Senders, NEW ip \in Peers, NEW v \in Payload,
           BufOK(st, buf), kind = "udp" => v \in Data,
           kind # "udp" => \A k \in 1 .. Len(st) :
                              st[k].fn = "resolve" /\ st[k].kind = kind => st[k].arg = v,
           ip_tx(st, kind, ip, v)
    PROVE  /\ g_arp' \in [Slots -> Entry \cup {None}] /\ Single(g_arp)'
           /\ \A i \in Slots : g_arp'[i] \in {None, g_arp[i]}
           /\ tx' \in BOOLEAN /\ buf' \in [Senders -> Payload \cup {0}]
           /\ stack' \in Seq(Call) /\ BufOK(stack', buf')
           /\ \/ arp_hit(g_arp, ip) # {} /\ Like(stack', st)
              \/ /\ stack' = Append(st, Resolving(kind, ip, v))
                 /\ \A i \in Slots : ~Matches(g_arp', i, ip)
  <1>1. /\ g_arp' = arp_find(g_arp, ip)
        /\ tx' = TRUE
        /\ buf' = Needed([buf EXCEPT ![kind] = v], stack')
        /\ \/ arp_hit(g_arp, ip) # {} /\ (stack' = st \/ stack' = Failed(st))
           \/ arp_hit(g_arp, ip) = {} /\ stack' = Append(st, Resolving(kind, ip, v))
    BY Zenon DEF ip_tx, Send, cpsw_tx, Resolving
  <1>2. /\ g_arp' \in [Slots -> Entry \cup {None}] /\ Single(g_arp)'
        /\ \A i \in Slots : g_arp'[i] \in {None, g_arp[i]}
    BY <1>1, FindFacts DEF TypeOK, Single
  <1>3. tx' \in BOOLEAN
    BY <1>1
  <1>4. buf' \in [Senders -> Payload \cup {0}]
    BY <1>1 DEF Needed, TypeOK
  <1>5. Resolving(kind, ip, v) \in Call
    BY NetAssumption DEF Resolving, Call, ResolveCall
  <1>6. /\ \/ arp_hit(g_arp, ip) # {} /\ Like(stack', st)
           \/ /\ stack' = Append(st, Resolving(kind, ip, v))
              /\ \A i \in Slots : ~Matches(g_arp', i, ip)
        /\ stack' \in Seq(Call)
    <2>1. CASE arp_hit(g_arp, ip) # {} /\ (stack' = st \/ stack' = Failed(st))
      BY <2>1, FailedLike DEF Like
    <2>2. CASE arp_hit(g_arp, ip) = {} /\ stack' = Append(st, Resolving(kind, ip, v))
      BY <1>1, <1>5, <2>2, MissFacts DEF TypeOK
    <2> QED BY Zenon, <1>1, <2>1, <2>2
  <1>7. BufOK(stack', buf')
    <2> SUFFICES ASSUME NEW k \in 1 .. Len(stack'), stack'[k].fn = "resolve"
                 PROVE  IF stack'[k].kind = "udp" THEN buf'["udp"] \in Data
                        ELSE buf'[stack'[k].kind] = stack'[k].arg
      BY DEF BufOK
    <2>1. stack'[k].kind \in Senders
      BY <1>6, CallFacts DEF ResolveCall
    <2>2. buf'[stack'[k].kind] = [buf EXCEPT ![kind] = v][stack'[k].kind]
      BY <1>1, <1>6, <2>1 DEF Needed
    <2>3. CASE k \in 1 .. Len(st) /\ st[k].fn = "resolve" /\ stack'[k].kind = st[k].kind
               /\ stack'[k].arg = st[k].arg
      BY <2>1, <2>2, <2>3 DEF BufOK, TypeOK, Senders
    <2>4. CASE stack'[k] = Resolving(kind, ip, v)
      BY <2>1, <2>2, <2>4 DEF TypeOK, Resolving, Senders
    <2> QED BY <1>6, <2>3, <2>4 DEF Like
  <1> QED BY <1>2, <1>3, <1>4, <1>6, <1>7

-----------------------------------------------------------------------------
(* Receiving *)

\* The answers to echo requests that wait in st belong to the frame in rx.
HeldBy(st) ==
    \A k \in 1 .. Len(st) : Answering(st, k) =>
        /\ rx.type = "echo_req" /\ st[k].ip = rx.peer /\ st[k].arg = rx.val
        /\ \A i \in Slots : ~Matches(g_arp, i, rx.peer)

\* Everything but the state of the descriptor and of the bring-up.
Body == /\ fresh \in BOOLEAN /\ tx \in BOOLEAN
        /\ g_arp \in [Slots -> Entry \cup {None}] /\ Single(g_arp)
        /\ g_icmp_rep \in Packets \cup {None}
        /\ buf \in [Senders -> Payload \cup {0}]
        /\ stack \in Seq(Call)
        /\ PingOK(stack, g_icmp_rep) /\ BufOK(stack, buf) /\ EchoHeld(stack)

\* Handing a frame to the callback, with the calls in st waiting.
LEMMA NetcoreRx ==
    ASSUME TypeOK, Single(g_arp), NEW st \in Seq(Call),
           PingOK(st, g_icmp_rep), BufOK(st, buf), HeldBy(st), UNCHANGED rx,
           st # <<>> => st[Len(st)].fn = "poll",
           fresh' \in BOOLEAN, netcore_rx(st)
    PROVE  Body'
  <1> USE FrameFacts DEF TypeOK
  <1>1. ASSUME NEW kind \in {"echo_rep", "udp"}, ip_tx(st, kind, rx.peer, rx.val),
               UNCHANGED g_icmp_rep,
               \/ kind = "echo_rep" /\ rx.type = "echo_req"
               \/ kind = "udp" /\ rx.type = "udp"
        PROVE  Body'
    <2>1. rx.peer \in Peers /\ rx.val \in Payload /\ (kind = "udp" => rx.val \in Data)
          /\ kind \in Senders
      BY <1>1 DEF Payload, Senders
    <2>2. kind # "udp" => \A k \in 1 .. Len(st) :
                              st[k].fn = "resolve" /\ st[k].kind = kind => st[k].arg = rx.val
      BY Zenon, <1>1 DEF HeldBy, Answering
    <2>3. /\ g_arp' \in [Slots -> Entry \cup {None}] /\ Single(g_arp)'
          /\ \A i \in Slots : g_arp'[i] \in {None, g_arp[i]}
          /\ tx' \in BOOLEAN /\ buf' \in [Senders -> Payload \cup {0}]
          /\ stack' \in Seq(Call) /\ BufOK(stack', buf')
          /\ \/ arp_hit(g_arp, rx.peer) # {} /\ Like(stack', st)
             \/ /\ stack' = Append(st, Resolving(kind, rx.peer, rx.val))
                /\ \A i \in Slots : ~Matches(g_arp', i, rx.peer)
      BY Zenon, <1>1, <2>1, <2>2, IpTx
    <2>4. CASE arp_hit(g_arp, rx.peer) # {} /\ Like(stack', st)
      <3>1. PingOK(stack', g_icmp_rep')
        BY <1>1, <2>4, LikeKeeps
      <3>2. \A k \in 1 .. Len(st) : ~Answering(st, k)
        <4>1. \E i \in Slots : Matches(g_arp, i, rx.peer)
          BY Zenon, <2>4 DEF arp_hit, Live
        <4> QED BY Zenon, <4>1 DEF HeldBy
      <3>3. EchoHeld(stack)'
        BY SMTT(30), <2>4, <3>2, LikeKeeps DEF EchoHeld, Like
      <3> QED BY <1>1, <2>3, <3>1, <3>3 DEF Body
    <2>5. CASE /\ stack' = Append(st, Resolving(kind, rx.peer, rx.val))
               /\ \A i \in Slots : ~Matches(g_arp', i, rx.peer)
      <3>1. /\ Len(stack') = Len(st) + 1
            /\ stack'[Len(st) + 1] = Resolving(kind, rx.peer, rx.val)
            /\ \A k \in 1 .. Len(st) : stack'[k] = st[k]
        BY SMTT(30), <2>5
      <3>2. /\ Resolving(kind, rx.peer, rx.val).fn = "resolve"
            /\ Resolving(kind, rx.peer, rx.val).kind = kind
            /\ Resolving(kind, rx.peer, rx.val).pc = "poll"
            /\ Resolving(kind, rx.peer, rx.val).ip = rx.peer
            /\ Resolving(kind, rx.peer, rx.val).arg = rx.val
        BY DEF Resolving
      <3>3. PingOK(stack', g_icmp_rep')
        BY SMTT(30), <1>1, <3>1, <3>2 DEF PingOK
      <3>4. EchoHeld(stack)'
        <4>1. ASSUME kind = "udp", NEW k \in 1 .. Len(stack') PROVE ~Answering(stack', k)
          BY SMTT(30), <1>1, <3>1, <3>2, <4>1 DEF Answering, HeldBy
        <4>2. ASSUME kind = "echo_rep", NEW k \in 1 .. Len(stack'), Answering(stack', k)
              PROVE  stack'[k].ip = rx.peer /\ stack'[k].arg = rx.val
          BY SMTT(30), <1>1, <3>1, <3>2, <4>2 DEF Answering, HeldBy
        <4>3. kind = "echo_rep" => Answering(stack', Len(stack')) /\ stack'[Len(stack')].pc = "poll"
          BY Zenon, <3>1, <3>2 DEF Answering
        <4> QED BY <1>1, <2>5, <4>1, <4>2, <4>3 DEF EchoHeld
      <3> QED BY <1>1, <2>3, <3>3, <3>4 DEF Body
    <2> QED BY <2>3, <2>4, <2>5
  <1>2. ASSUME rx.type # "echo_req", stack' \in Seq(Call), Len(stack') = Len(st),
               \A k \in 1 .. Len(st) : Answering(stack', k) => Answering(st, k)
        PROVE  EchoHeld(stack)'
    BY Zenon, <1>2 DEF EchoHeld, HeldBy
  <1>3. CASE rx.type \in {"arp_req", "arp_rep"} /\ arp_rx(st)
    <2>1. /\ g_arp' = arp_cache_update(g_arp, rx.peer)
          /\ tx' \in BOOLEAN /\ stack' = st /\ UNCHANGED <<g_icmp_rep, buf>>
      BY <1>3, Zenon DEF arp_rx, cpsw_tx
    <2>2. g_arp' \in [Slots -> Entry \cup {None}] /\ Single(g_arp)'
      BY <1>3, <2>1, UpdateFacts DEF Single
    <2> QED BY <1>2, <1>3, <2>1, <2>2 DEF Body
  <1>4. CASE rx.type \in {"echo_req", "echo_rep"} /\ icmp_rx(st)
    <2>1. CASE /\ rx.type = "echo_req" /\ ip_tx(st, "echo_rep", rx.peer, rx.val)
               /\ UNCHANGED g_icmp_rep
      BY Zenon, <1>1, <2>1
    <2>2. CASE /\ rx.type = "echo_rep" /\ g_icmp_rep' = rx
               /\ stack' = [k \in DOMAIN st |-> Heard(st[k])]
               /\ UNCHANGED <<tx, g_arp, buf>>
      <3>1. ASSUME NEW c \in Call
            PROVE  /\ Heard(c) \in Call /\ Heard(c).fn = c.fn
                   /\ c.fn = "resolve" => Heard(c) = c
                   /\ c.fn = "ping" => /\ Heard(c).seq = c.seq /\ (c.heard => Heard(c).heard)
                                       /\ c.seq = rx.val => Heard(c).heard
        <4>1. CASE c.fn # "ping"
          BY <4>1 DEF Heard
        <4>2. CASE c.fn = "ping"
          <5>1. c \in PingCall
            BY <4>2, CallFacts
          <5> QED BY Zenon, <4>2, <5>1 DEF Heard, Call, PingCall
        <4> QED BY <4>1, <4>2
      <3>2. DOMAIN st = 1 .. Len(st) /\ Len(st) \in Nat
        OBVIOUS
      <3>3. stack' \in Seq(Call) /\ Len(stack') = Len(st)
            /\ \A k \in 1 .. Len(st) : stack'[k] = Heard(st[k])
        BY <2>2, <3>1, <3>2
      <3>4. PingOK(stack', g_icmp_rep')
        BY <2>2, <3>1, <3>3 DEF PingOK
      <3>5. BufOK(stack', buf')
        BY <2>2, <3>1, <3>3 DEF BufOK
      <3>6. EchoHeld(stack)'
        BY <1>2, <2>2, <3>1, <3>3 DEF Answering
      <3> QED BY Zenon, <2>2, <3>3, <3>4, <3>5, <3>6 DEF Body, Single
    <2> QED BY Zenon, <1>4, <2>1, <2>2 DEF icmp_rx
  <1>5. CASE rx.type \in {"udp", "junk", "blank"} /\ stack' = st
             /\ UNCHANGED <<tx, g_arp, g_icmp_rep, buf>>
    BY Zenon, <1>2, <1>5 DEF Body, Single
  <1>6. CASE rx.type = "udp" /\ udp_rx(st)
    BY <1>1, <1>5, <1>6 DEF udp_rx
  <1> QED BY Zenon, <1>3, <1>4, <1>5, <1>6 DEF netcore_rx

\* cpsw_rx_poll() called from st, the state of the calls at the poll.
LEMMA RxPoll ==
    ASSUME IInv, NEW st, Like(st, stack), st # <<>> => ~(st[Len(st)].fn = "poll"),
           UNCHANGED rx, cpsw_rx_poll(st)
    PROVE  Body'
  <1> DEFINE polled == Append(st, [fn |-> "poll"])
  <1>1. /\ TypeOK /\ Single(g_arp) /\ st \in Seq(Call) /\ stack \in Seq(Call)
        /\ PingOK(st, g_icmp_rep) /\ BufOK(st, buf)
    BY LikeKeeps DEF IInv, TypeOK, Like
  <1>2. HeldBy(st)
    BY <1>1, LikeKeeps DEF HeldBy, IInv, EchoHeld, Like, Answering
  <1>3. CASE rx = Armed /\ stack' = st /\ UNCHANGED <<fresh, tx, g_arp, g_icmp_rep, buf>>
    <2>1. rx.type # "echo_req"
      BY Zenon, <1>3 DEF Armed
    <2>2. EchoHeld(stack)'
      BY Zenon, <1>2, <1>3, <2>1 DEF EchoHeld, HeldBy
    <2> QED BY <1>1, <1>3, <2>2 DEF Body, TypeOK, Single
  <1>4. CASE rx # Armed /\ fresh' = FALSE /\ netcore_rx(polled)
    <2>1. /\ polled \in Seq(Call) /\ Len(polled) = Len(st) + 1
          /\ polled[Len(st) + 1] = [fn |-> "poll"]
          /\ \A k \in 1 .. Len(st) : polled[k] = st[k]
      <3>1. [fn |-> "poll"] \in Call
        BY DEF Call, PollCall
      <3> QED BY <1>1, <3>1
    <2> HIDE DEF polled
    <2>2. /\ PingOK(polled, g_icmp_rep) /\ BufOK(polled, buf) /\ HeldBy(polled)
          /\ polled[Len(polled)].fn = "poll"
      <3>1. /\ Len(st) \in Nat /\ Len(polled) = Len(st) + 1 /\ polled[Len(st) + 1].fn = "poll"
            /\ \A k \in 1 .. Len(polled) : k \in 1 .. Len(st) \/ k = Len(st) + 1
        BY <1>1, <2>1
      <3>2. PingOK(polled, g_icmp_rep)
        BY Zenon, <1>1, <2>1, <3>1 DEF PingOK
      <3>3. BufOK(polled, buf)
        BY Zenon, <1>1, <2>1, <3>1 DEF BufOK
      <3>4. HeldBy(polled)
        BY <1>2, <2>1, <3>1 DEF HeldBy, Answering
      <3> QED BY <3>1, <3>2, <3>3, <3>4
    <2> QED BY Zenon, <1>1, <1>4, <2>1, <2>2, NetcoreRx
  <1> QED BY Zenon, <1>3, <1>4 DEF cpsw_rx_poll

-----------------------------------------------------------------------------
(* Every step *)

\* The invariant holds after netcore_init().
LEMMA InitInv == Init => IInv
  <1> SUFFICES ASSUME Init PROVE IInv
    OBVIOUS
  <1>1. TypeOK
    BY DEF Init, TypeOK
  <1> QED BY <1>1 DEF Init, IInv, Running, Single, PingOK, BufOK, EchoHeld

\* With nobody waiting for the peer of an echo request, the calls may return.
LEMMA Returns ==
    ASSUME IInv, NEW st, Like(st, stack), \A k \in 1 .. Len(stack) : ~Answering(stack, k)
    PROVE  /\ st \in Seq(Call) /\ PingOK(st, g_icmp_rep) /\ BufOK(st, buf)
           /\ \A k \in 1 .. Len(st) : ~Answering(st, k)
  <1>1. stack \in Seq(Call) /\ st \in Seq(Call) /\ Len(st) <= Len(stack)
    BY DEF IInv, TypeOK, Like
  <1>2. PingOK(stack, g_icmp_rep) /\ BufOK(stack, buf)
    BY DEF IInv
  <1>3. PingOK(st, g_icmp_rep) /\ BufOK(st, buf)
    BY Zenon, <1>1, <1>2, LikeKeeps
  <1> QED BY <1>1, <1>3, LikeKeeps

\* No answer to an echo request is waiting when the innermost call is not the
\* poll of arp_resolve() for it.
LEMMA NobodyHeld ==
    ASSUME IInv, stack # <<>>, ~(Top.fn = "resolve" /\ Top.pc = "poll")
    PROVE  \A k \in 1 .. Len(stack) : ~Answering(stack, k)
  BY DEF IInv, EchoHeld, Answering, Top

\* The next iteration of a loop, and its end.
LEMMA AgainLike ==
    ASSUME TypeOK, stack # <<>>, Top.fn \in {"resolve", "ping"}
    PROVE  Like(Again, stack)
  <1>1. Top \in Call /\ stack \in Seq(Call)
    BY DEF Top, TypeOK
  <1>2. CASE Top.left = 1
    <2>1. Like(Pop, stack) /\ Pop \in Seq(Call)
      BY <1>1, PopLike DEF Pop, Like
    <2> QED BY Zenon, <1>1, <1>2, <2>1, FailedLike, LikeTransitive DEF Again
  <1>3. CASE Top.left # 1
    <2>1. Top.left - 1 \in Nat \ {0}
      BY <1>1, <1>3, CallFacts DEF ResolveCall, PingCall
    <2> DEFINE r == [Top EXCEPT !.pc = "poll", !.left = @ - 1]
    <2>2. /\ r \in Call /\ r.fn = Top.fn
          /\ Top.fn = "resolve" => r.kind = Top.kind /\ r.ip = Top.ip /\ r.arg = Top.arg
          /\ Top.fn = "ping" => r.seq = Top.seq /\ r.heard = Top.heard
      <3>1. CASE Top.fn = "resolve"
        <4>1. Top \in ResolveCall
          BY <1>1, <3>1, CallFacts
        <4>2. r \in ResolveCall
          BY Zenon, <2>1, <4>1 DEF ResolveCall
        <4> QED BY <3>1, <4>1, <4>2 DEF Call, ResolveCall
      <3>2. CASE Top.fn = "ping"
        <4>1. Top \in PingCall
          BY <1>1, <3>2, CallFacts
        <4>2. r \in PingCall
          BY Zenon, <2>1, <4>1 DEF PingCall
        <4> QED BY <3>2, <4>1, <4>2 DEF Call, PingCall
      <3> QED BY <3>1, <3>2
    <2> HIDE DEF r
    <2>3. Like(SetTop(r), stack)
      BY <2>2, SetTopLike
    <2> QED BY <1>3, <2>3 DEF Again, r
  <1> QED BY <1>2, <1>3

\* The loop has polled.
LEMMA CheckLike ==
    ASSUME TypeOK, stack # <<>>, Top.fn \in {"resolve", "ping"}
    PROVE  LET st == SetTop([Top EXCEPT !.pc = "check"])
           IN  Like(st, stack) /\ (st # <<>> => ~(st[Len(st)].fn = "poll"))
  <1> DEFINE r == [Top EXCEPT !.pc = "check"]
  <1>1. Top \in Call /\ stack \in Seq(Call)
    BY DEF Top, TypeOK
  <1>2. /\ r \in Call /\ r.fn = Top.fn
        /\ Top.fn = "resolve" => r.kind = Top.kind /\ r.ip = Top.ip /\ r.arg = Top.arg
        /\ Top.fn = "ping" => r.seq = Top.seq /\ r.heard = Top.heard
    <2>1. CASE Top.fn = "resolve"
      <3>1. Top \in ResolveCall
        BY <1>1, <2>1, CallFacts
      <3>2. r \in ResolveCall
        BY <3>1 DEF ResolveCall
      <3> QED BY <2>1, <3>1, <3>2 DEF Call, ResolveCall
    <2>2. CASE Top.fn = "ping"
      <3>1. Top \in PingCall
        BY <1>1, <2>2, CallFacts
      <3>2. r \in PingCall
        BY <3>1 DEF PingCall
      <3> QED BY <2>2, <3>1, <3>2 DEF Call, PingCall
    <2> QED BY <2>1, <2>2
  <1> HIDE DEF r
  <1>3. Like(SetTop(r), stack) /\ Len(SetTop(r)) = Len(stack) /\ SetTop(r)[Len(stack)] = r
    BY <1>2, SetTopLike
  <1> QED BY Zenon, <1>2, <1>3 DEF r

\* Every step of the kernel and of the hardware keeps the invariant.
LEMMA Step == IInv /\ [Next]_vars => IInv'
  <1> SUFFICES ASSUME IInv, [Next]_vars PROVE IInv'
    OBVIOUS
  <1>0. /\ TypeOK /\ stack \in Seq(Call) /\ Single(g_arp)
        /\ PingOK(stack, g_icmp_rep) /\ BufOK(stack, buf) /\ EchoHeld(stack)
        /\ ~Running => stack = <<>>
    BY Zenon DEF IInv, TypeOK
  <1>a. ASSUME Body', UNCHANGED <<up, rx, now>>, Running PROVE IInv'
    BY Zenon, <1>0, <1>a DEF Body, IInv, TypeOK, Running
  <1>b. ASSUME UNCHANGED <<g_arp, g_icmp_rep, buf, stack>>,
               rx' = rx \/ \A k \in 1 .. Len(stack) : ~Answering(stack, k)
        PROVE  /\ Single(g_arp)' /\ PingOK(stack, g_icmp_rep)' /\ BufOK(stack, buf)'
               /\ EchoHeld(stack)'
    BY <1>0, <1>b DEF Single, EchoHeld, Answering, Matches
  <1>c. stack # <<>> => Running
    BY <1>0
  <1>1. ASSUME NEW from, NEW to \in {"ss", "cpdma", "mac", "bd"}, from \notin {"on", "failed"},
               Reset(from, to)
        PROVE  IInv'
    BY Zenon, <1>0, <1>b, <1>1 DEF Reset, IInv, TypeOK, Running
  <1>2. CASE cpsw_bd_init
    <2>1. stack = <<>> /\ up' = "on" /\ rx' = Armed /\ tx' = FALSE
          /\ UNCHANGED <<fresh, g_arp, now, g_icmp_rep, buf, stack>>
      BY <1>0, <1>2 DEF cpsw_bd_init, Running
    <2>2. \A k \in 1 .. Len(stack) : ~Answering(stack, k)
      BY <2>1
    <2> QED BY Zenon, <1>0, <1>b, <2>1, <2>2 DEF IInv, TypeOK, Running
  <1>3. CASE IdlePoll
    <2>1. Like(<<>>, stack)
      BY <1>0 DEF Like
    <2> QED BY <1>3, <1>a, <2>1, RxPoll DEF IdlePoll
  <1>4. ASSUME NEW kind \in {"echo_req", "udp"}, NEW ip \in Peers, NEW v, NEW st \in Seq(Call),
               v \in IF kind = "udp" THEN Data ELSE Seqs,
               Running, stack = <<>>, ip_tx(st, kind, ip, v),
               PingOK(st, g_icmp_rep'), g_icmp_rep' \in Packets \cup {None},
               \A k \in 1 .. Len(st) : st[k].fn # "resolve",
               UNCHANGED <<up, rx, fresh, now>>
        PROVE  IInv'
    <2>1. kind \in Senders /\ v \in Payload /\ (kind = "udp" => v \in Data)
      BY <1>4 DEF Senders, Payload
    <2>2. BufOK(st, buf)
      BY Zenon, <1>4 DEF BufOK
    <2>3. /\ g_arp' \in [Slots -> Entry \cup {None}] /\ Single(g_arp)'
          /\ tx' \in BOOLEAN /\ buf' \in [Senders -> Payload \cup {0}]
          /\ stack' \in Seq(Call) /\ BufOK(stack', buf')
          /\ \/ Like(stack', st)
             \/ stack' = Append(st, Resolving(kind, ip, v))
      BY Zenon, <1>0, <1>4, <2>1, <2>2, IpTx
    <2>4. CASE Like(stack', st)
      <3>1. PingOK(stack', g_icmp_rep')
        BY Zenon, <1>4, <2>4, LikeKeeps
      <3>2. EchoHeld(stack)'
        BY SMTT(30), <1>4, <2>4, LikeKeeps DEF EchoHeld, Like, Answering
      <3> QED BY Zenon, <1>0, <1>4, <2>3, <3>1, <3>2 DEF IInv, TypeOK, Running
    <2>5. CASE stack' = Append(st, Resolving(kind, ip, v))
      <3>1. /\ Len(stack') = Len(st) + 1
            /\ stack'[Len(st) + 1] = Resolving(kind, ip, v)
            /\ \A k \in 1 .. Len(st) : stack'[k] = st[k]
        BY <2>5
      <3>2. Resolving(kind, ip, v).fn = "resolve" /\ Resolving(kind, ip, v).kind = kind
        BY Zenon DEF Resolving
      <3>3. PingOK(stack', g_icmp_rep')
        BY SMTT(30), <1>4, <3>1, <3>2 DEF PingOK
      <3>4. EchoHeld(stack)'
        BY <1>4, <3>1, <3>2 DEF EchoHeld, Answering
      <3> QED BY <1>0, <1>4, <2>3, <3>3, <3>4 DEF IInv, TypeOK, Running
    <2> QED BY <2>3, <2>4, <2>5
  <1>5. ASSUME NEW ip \in Peers, NEW s \in Seqs, netcore_ping(ip, s) PROVE IInv'
    <2> DEFINE r == [fn |-> "ping", pc |-> "poll", seq |-> s, left |-> ICMP_WAIT_ITER,
                     heard |-> FALSE]
    <2>1. r \in Call /\ r.fn = "ping"
      BY NetAssumption DEF Call, PingCall
    <2>2. /\ Running /\ stack = <<>> /\ g_icmp_rep' = None
          /\ ip_tx(<<r>>, "echo_req", ip, s) /\ UNCHANGED <<up, rx, fresh, now>>
      BY <1>5 DEF netcore_ping
    <2> HIDE DEF r
    <2>3. <<r>> \in Seq(Call) /\ Len(<<r>>) = 1 /\ <<r>>[1] = r
      BY <2>1
    <2>4. PingOK(<<r>>, g_icmp_rep') /\ \A k \in 1 .. Len(<<r>>) : <<r>>[k].fn # "resolve"
      BY <2>1, <2>2, <2>3 DEF PingOK
    <2> QED BY Zenon, <1>4, <2>2, <2>3, <2>4
  <1>6. ASSUME NEW ip \in Peers, NEW d \in Data, netcore_send_udp(ip, d) PROVE IInv'
    <2>1. /\ Running /\ stack = <<>> /\ ip_tx(<<>>, "udp", ip, d)
          /\ UNCHANGED <<up, rx, fresh, now, g_icmp_rep>>
      BY <1>6 DEF netcore_send_udp
    <2> DEFINE st == <<>>
    <2>2. st \in Seq(Call) /\ Len(st) = 0 /\ ip_tx(st, "udp", ip, d)
      BY <2>1
    <2> HIDE DEF st
    <2>3. /\ PingOK(st, g_icmp_rep') /\ g_icmp_rep' \in Packets \cup {None}
          /\ \A k \in 1 .. Len(st) : st[k].fn # "resolve"
      BY <1>0, <2>1, <2>2 DEF PingOK, TypeOK
    <2> QED BY Zenon, <1>4, <2>1, <2>2, <2>3
  <1>7. CASE LoopPoll
    <2>1. stack # <<>> /\ Top.fn \in {"resolve", "ping"}
          /\ cpsw_rx_poll(SetTop([Top EXCEPT !.pc = "check"]))
          /\ UNCHANGED <<up, rx, now>>
      BY <1>7 DEF LoopPoll
    <2> DEFINE st == SetTop([Top EXCEPT !.pc = "check"])
    <2>2. Like(st, stack) /\ (st # <<>> => ~(st[Len(st)].fn = "poll"))
      BY <1>0, <2>1, CheckLike
    <2> HIDE DEF st
    <2>3. Body'
      BY Zenon, <2>1, <2>2, RxPoll DEF st
    <2> QED BY <1>a, <1>c, <2>1, <2>3
  <1>8. ASSUME NEW st, Like(st, stack), stack' = st, stack # <<>>,
               ~(Top.fn = "resolve" /\ Top.pc = "poll"),
               UNCHANGED up, rx' \in Frames \cup {Armed, Blank}, fresh' \in BOOLEAN, tx' \in BOOLEAN,
               now' \in Nat,
               g_arp' \in [Slots -> Entry \cup {None}], Single(g_arp)',
               g_icmp_rep' \in {g_icmp_rep, None},
               buf' \in [Senders -> Payload \cup {0}],
               \A k \in 1 .. Len(st) : st[k].fn = "resolve" => buf'[st[k].kind] = buf[st[k].kind]
        PROVE  IInv'
    <2>1. \A k \in 1 .. Len(stack) : ~Answering(stack, k)
      BY Zenon, <1>8, NobodyHeld
    <2>2. /\ st \in Seq(Call) /\ PingOK(st, g_icmp_rep) /\ BufOK(st, buf)
          /\ \A k \in 1 .. Len(st) : ~Answering(st, k)
      BY Zenon, <1>8, <2>1, Returns
    <2>3. EchoHeld(stack)'
      BY Zenon, <1>8, <2>2 DEF EchoHeld, Answering
    <2>4. PingOK(stack, g_icmp_rep)'
      BY Zenon, <1>8, <2>2 DEF PingOK
    <2>5. BufOK(stack, buf)'
      BY Zenon, <1>8, <2>2 DEF BufOK
    <2> QED BY Zenon, <1>0, <1>8, <1>c, <2>2, <2>3, <2>4, <2>5 DEF IInv, TypeOK, Running
  <1>9. CASE arp_resolve
    <2>1. /\ stack # <<>> /\ Top.fn = "resolve" /\ Top.pc = "check"
          /\ g_arp' = arp_find(g_arp, Top.ip) /\ tx' \in {tx, TRUE}
          /\ stack' \in {Pop, Failed(Pop), Again}
          /\ buf' = Needed(buf, stack')
          /\ UNCHANGED <<up, rx, fresh, now, g_icmp_rep>>
      BY <1>9, Zenon DEF arp_resolve, Send, cpsw_tx
    <2>2. Like(stack', stack)
      <3>1. Like(Pop, stack) /\ Pop \in Seq(Call)
        BY Zenon, <1>0, <2>1, PopLike DEF Pop, Like
      <3>2. Like(Failed(Pop), stack)
        BY Zenon, <1>0, <3>1, FailedLike, LikeTransitive
      <3>3. Like(Again, stack)
        BY Zenon, <1>0, <2>1, AgainLike
      <3> QED BY Zenon, <2>1, <3>1, <3>2, <3>3
    <2>3. g_arp' \in [Slots -> Entry \cup {None}] /\ Single(g_arp)'
      BY SMTT(30), <1>0, <2>1, FindFacts DEF TypeOK, Single
    <2>4. buf' \in [Senders -> Payload \cup {0}]
      BY Zenon, <1>0, <2>1 DEF Needed, TypeOK
    <2>5. \A k \in 1 .. Len(stack') : stack'[k].fn = "resolve"
                                        => buf'[stack'[k].kind] = buf[stack'[k].kind]
      <3> SUFFICES ASSUME NEW k \in 1 .. Len(stack'), stack'[k].fn = "resolve"
                   PROVE  buf'[stack'[k].kind] = buf[stack'[k].kind]
        BY Zenon
      <3>1. stack' \in Seq(Call) /\ stack'[k] \in Call
        BY <2>2 DEF Like
      <3>2. stack'[k].kind \in Senders /\ k \in DOMAIN stack'
        BY <3>1, CallFacts DEF ResolveCall
      <3> QED BY Zenon, <2>1, <3>2 DEF Needed
    <2>6. rx' \in Frames \cup {Armed, Blank} /\ fresh' \in BOOLEAN /\ tx' \in BOOLEAN /\ now' \in Nat
      BY Zenon, <1>0, <2>1 DEF TypeOK
    <2> QED BY Zenon, <1>8, <2>1, <2>2, <2>3, <2>4, <2>5, <2>6
  <1>10. CASE PingCheck
    <2>1. /\ stack # <<>> /\ Top.fn = "ping"
          /\ stack' \in {Pop, Again} /\ g_icmp_rep' \in {g_icmp_rep, None}
          /\ UNCHANGED <<up, rx, fresh, tx, g_arp, now, buf>>
      BY <1>10, Zenon DEF PingCheck
    <2>2. Like(stack', stack)
      BY Zenon, <1>0, <2>1, PopLike, AgainLike DEF Pop
    <2> QED BY <1>0, <1>8, <2>1, <2>2 DEF TypeOK, Single
  <1>11. CASE Rearm
    <2>1. Like(stack', stack)
      BY Zenon, <1>0, <1>11, PopLike DEF Rearm, Pop
    <2> QED BY <1>0, <1>8, <1>11, <2>1 DEF Rearm, TypeOK, Single
  <1>12. ASSUME NEW f \in Frames, Receive(f) PROVE IInv'
    <2>1. \A k \in 1 .. Len(stack) : ~Answering(stack, k)
      <3>1. rx.type # "echo_req"
        BY Zenon, <1>12 DEF Receive, Armed
      <3> QED BY Zenon, <1>0, <3>1 DEF EchoHeld
    <2> QED BY Zenon, <1>0, <1>b, <1>12, <2>1 DEF Receive, IInv, TypeOK, Running
  <1>13. CASE TxDone
    BY Zenon, <1>0, <1>b, <1>13 DEF TxDone, IInv, TypeOK, Running
  <1>14. CASE Tick
    <2>1. now' \in Nat
      BY SMTT(30), <1>0, <1>14, NetAssumption DEF Tick, TypeOK
    <2> QED BY ZenonT(30), <1>0, <1>b, <1>14, <2>1 DEF Tick, IInv, TypeOK, Running
  <1>15. CASE UNCHANGED vars
    BY <1>0, <1>b, <1>15 DEF vars, IInv, TypeOK, Running
  <1> QED BY <1>1, <1>2, <1>3, <1>5, <1>6, <1>7, <1>9, <1>10, <1>11, <1>12, <1>13, <1>14, <1>15
          DEF Next, cpsw_clock_verify, cpsw_ss_reset, cpsw_cpdma_init, cpsw_mac_init

-----------------------------------------------------------------------------
(* Theorems *)

\* IInv is an invariant.
THEOREM Invariance == Spec => []IInv
  BY InitInv, Step, PTL DEF Spec

\* The ARP cache never holds two entries of a host.
THEOREM CacheHasOneEntry == Spec => []OneEntry
  <1>1. IInv => OneEntry
    BY Zenon DEF IInv, Single, OneEntry, Matches
  <1> QED BY <1>1, Invariance, PTL

\* Only a reply handled since it began ends a ping.
THEOREM PingIsSound == Spec => []PingSound
  <1>1. IInv => PingSound
    <2> SUFFICES ASSUME IInv PROVE PingSound
      OBVIOUS
    <2>1. DOMAIN stack = 1 .. Len(stack)
      BY SMTT(30) DEF IInv, TypeOK
    <2> QED BY <2>1 DEF IInv, PingOK, PingSound, Answered
  <1> QED BY <1>1, Invariance, PTL

\* Echoes leave with the payload they were given, datagrams with a datagram's.
THEOREM EchoSentAsGiven == Spec => []SentAsGiven
  <1>1. IInv => SentAsGiven
    <2> SUFFICES ASSUME IInv PROVE SentAsGiven
      OBVIOUS
    <2>1. DOMAIN stack = 1 .. Len(stack)
      BY DEF IInv, TypeOK
    <2> QED BY <2>1 DEF IInv, BufOK, SentAsGiven
  <1> QED BY <1>1, Invariance, PTL

\* Once the answer to an echo request waits for the address of the peer it
\* never stops waiting: cpsw_rx_poll() hands the same frame to icmp_rx() again
\* from inside the handler of that frame, no call returns, and the receive
\* descriptor is not re-armed.
AnswerNeverReturns ==
    [][\A k \in 1 .. Len(stack) : Answering(stack, k) =>
          /\ k \in 1 .. Len(stack') /\ Answering(stack', k)
          /\ rx' = rx]_vars

\* This is a property of every step from a state that satisfies IInv.
THEOREM AnswersNest == Spec => AnswerNeverReturns
  <1>1. ASSUME IInv, [Next]_vars, NEW k \in 1 .. Len(stack), Answering(stack, k)
        PROVE  k \in 1 .. Len(stack') /\ Answering(stack', k) /\ rx' = rx
    <2>1. /\ stack \in Seq(Call) /\ stack # <<>> /\ TypeOK /\ Running
          /\ Top.fn = "resolve" /\ Top.pc = "poll"
          /\ rx.type = "echo_req" /\ rx # Armed
          /\ \A i \in Slots : ~Matches(g_arp, i, rx.peer)
      <3>1. stack \in Seq(Call) /\ stack # <<>> /\ TypeOK
        BY <1>1 DEF IInv, TypeOK
      <3>2. Running
        BY Zenon, <1>1, <3>1 DEF IInv
      <3>3. /\ Answering(stack, Len(stack)) /\ Top.pc = "poll" /\ rx.type = "echo_req"
            /\ \A i \in Slots : ~Matches(g_arp, i, rx.peer)
        BY Zenon, <1>1 DEF IInv, EchoHeld, Top
      <3>4. Top.fn = "resolve"
        BY Zenon, <3>3 DEF Answering, Top
      <3>5. ASSUME rx = Armed PROVE FALSE
        BY <3>3, <3>5 DEF Armed
      <3> QED BY Zenon, <3>1, <3>2, <3>3, <3>4, <3>5
    <2>2. CASE LoopPoll
      <3> DEFINE st == SetTop([Top EXCEPT !.pc = "check"])
                 polled == Append(st, [fn |-> "poll"])
      <3>1. netcore_rx(polled) /\ rx' = rx
        BY Zenon, <2>1, <2>2 DEF LoopPoll, cpsw_rx_poll
      <3>2. ip_tx(polled, "echo_rep", rx.peer, rx.val)
        BY Zenon, <2>1, <3>1 DEF netcore_rx, icmp_rx
      <3>3. arp_hit(g_arp, rx.peer) = {}
        BY Zenon, <2>1 DEF arp_hit, Live
      <3>4. stack' = Append(polled, Resolving("echo_rep", rx.peer, rx.val))
        BY Zenon, <3>2, <3>3 DEF ip_tx, Resolving
      <3>5. Like(st, stack) /\ st \in Seq(Call)
        BY Zenon, <2>1, CheckLike DEF Like
      <3>6. Len(st) = Len(stack)
        BY <2>1 DEF SetTop
      <3> HIDE DEF st
      <3>7. polled \in Seq(Call) /\ Len(polled) = Len(st) + 1 /\ polled[k] = st[k]
        <4>1. [fn |-> "poll"] \in Call
          BY DEF Call, PollCall
        <4>2. st \in Seq(Call) /\ k \in 1 .. Len(st)
          BY Zenon, <3>5, <3>6
        <4> QED BY <4>1, <4>2
      <3> HIDE DEF polled
      <3>8. stack'[k] = polled[k] /\ Len(stack') = Len(polled) + 1
        <4>1. k \in 1 .. Len(stack)
          BY Zenon, <1>1
        <4> QED BY SMTT(30), <3>4, <3>6, <3>7, <4>1
      <3>9. k \in 1 .. Len(stack') /\ stack'[k] = st[k] /\ k \in 1 .. Len(st)
        BY <1>1, <3>5, <3>6, <3>7, <3>8
      <3>10. st[k].fn = stack[k].fn /\ (st[k].fn = "resolve" => st[k].kind = stack[k].kind)
        BY <3>5, <3>9 DEF Like
      <3> QED BY <1>1, <3>1, <3>9, <3>10 DEF Answering
    <2>3. CASE UNCHANGED <<stack, rx>>
      BY Zenon, <1>1, <2>1, <2>3
    <2>4. CASE TxDone \/ Tick \/ UNCHANGED vars
      BY <2>3, <2>4 DEF TxDone, Tick, vars
    <2> QED BY Zenon, <1>1, <2>1, <2>2, <2>4
            DEF Next, cpsw_clock_verify, cpsw_ss_reset, cpsw_cpdma_init, cpsw_mac_init, Reset,
                cpsw_bd_init, IdlePoll, netcore_ping, netcore_send_udp, arp_resolve, PingCheck,
                Rearm, Receive, Running
  <1>2. IInv /\ [Next]_vars => [\A k \in 1 .. Len(stack) : Answering(stack, k) =>
                                   /\ k \in 1 .. Len(stack') /\ Answering(stack', k)
                                   /\ rx' = rx]_vars
    BY <1>1
  <1> QED BY <1>2, Invariance, PTL DEF Spec, AnswerNeverReturns
=============================================================================
