-------------------------------- MODULE Net --------------------------------
(* The network path of the kernel: the CPSW driver's single transmit and      *)
(* single receive descriptor (cpsw.c), and ARP, IPv4, ICMP and UDP above      *)
(* them (netcore.c).  Nothing here blocks or is interrupted by other network  *)
(* code, but it calls itself: arp_resolve() polls the receive descriptor,     *)
(* and the handler of a received frame may send and so resolve.  The          *)
(* variable stack is the C stack of these calls.                              *)
(* Packets are abstracted to a type, the peer and one value: the sequence     *)
(* number of an echo, the data of a datagram, nothing for ARP.                *)
EXTENDS Integers, Sequences, FiniteSets, TLC

CONSTANTS
    Peers,             \* IP addresses of other hosts
    Seqs,              \* echo sequence numbers (with the identifier)
    Data,              \* payloads of UDP datagrams
    ARP_CACHE_SIZE, ARP_TIMEOUT,
    ARP_RESOLVE_ITER, ICMP_WAIT_ITER,
    TickMod,           \* timer_get_ticks() wraps at this value
    MaxDepth           \* bound on Len(stack)

ASSUME NetAssumption ==
    {ARP_CACHE_SIZE, ARP_TIMEOUT, ARP_RESOLVE_ITER, ICMP_WAIT_ITER,
     TickMod, MaxDepth} \subseteq Nat \ {0}

VARIABLES
    up,        \* how far cpsw_init() got
    rx,        \* the receive descriptor: Armed, or the frame in its buffer
    fresh,     \* the frame in rx has not been given to the callback yet
    tx,        \* the DMA owns the transmit descriptor
    g_arp,     \* the ARP cache
    now,       \* timer_get_ticks()
    g_icmp_rep,\* the last echo reply, None when got = 0
    buf,       \* the static payload buffers, one for each kind of sender
    stack      \* the calls in progress, innermost last

vars == <<up, rx, fresh, tx, g_arp, now, g_icmp_rep, buf, stack>>

None  == [type |-> "none"]
Armed == [type |-> "armed"]          \* BD_OWNER set: the DMA may fill it
Blank == [type |-> "blank"]          \* BD_OWNER clear, length 0

Slots == 1..ARP_CACHE_SIZE
Values == [arp_req |-> {0}, arp_rep |-> {0}, echo_req |-> Seqs,
           echo_rep |-> Seqs, udp |-> Data]
Packets == UNION {[type : {t}, peer : Peers, val : Values[t]] : t \in DOMAIN Values}

\* What the filters of netcore_rx() and ip_rx() drop: frames for others,
\* short ones, fragments, bad checksums, lengths that do not fit.
Junk == [type |-> "junk"]
Frames == Packets \cup {Junk}

Senders == {"echo_req", "echo_rep", "udp"}   \* the kinds ip_tx() is given
Top == stack[Len(stack)]
Pop == SubSeq(stack, 1, Len(stack) - 1)
SetTop(r) == [stack EXCEPT ![Len(stack)] = r]

(* --------------------------- ARP cache ----------------------------------- *)
Matches(c, i, ip) == c[i] # None /\ c[i].ip = ip
Live(c, i, ip) == Matches(c, i, ip) /\ (now - c[i].ts) % TickMod < ARP_TIMEOUT

\* The entry arp_find() returns, as a set of at most one slot.
arp_hit(c, ip) == {i \in Slots : Live(c, i, ip) /\ \A j \in 1..(i - 1) : ~Live(c, j, ip)}

\* The cache after arp_find(): expired entries it passed are invalid.
arp_find(c, ip) ==
    [i \in Slots |-> IF Matches(c, i, ip) /\ \A j \in 1..i : ~Live(c, j, ip)
                     THEN None ELSE c[i]]

\* The first free slot, else the first of those with the least ts.
arp_alloc(c) ==
    LET empty == {i \in Slots : c[i] = None}
        old   == {i \in Slots : \A j \in Slots : c[i].ts <= c[j].ts}
        cand  == IF empty # {} THEN empty ELSE old
    IN CHOOSE i \in cand : \A j \in cand : i <= j

\* Mutant: a known host gets another entry.
UpdateUnseen(c, ip) ==
    LET f == arp_find(c, ip) IN [f EXCEPT ![arp_alloc(f)] = [ip |-> ip, ts |-> now]]

arp_cache_update(c, ip) ==
    LET f == arp_find(c, ip)
        i == IF arp_hit(c, ip) # {} THEN CHOOSE h \in arp_hit(c, ip) : TRUE
             ELSE arp_alloc(f)
    IN [f EXCEPT ![i] = [ip |-> ip, ts |-> now]]

(* --------------------------- transmission -------------------------------- *)
\* cpsw_tx(): the one descriptor is free and is handed to the DMA, or it stays
\* busy until the timeout and nothing is sent.
cpsw_tx == tx' = TRUE

\* A failed ip_tx() makes netcore_ping() return; the other callers ignore it.
Failed(st) == IF st # <<>> /\ st[Len(st)].fn = "ping"
              THEN SubSeq(st, 1, Len(st) - 1) ELSE st

\* The second half of ip_tx(), once the MAC is known.
Send(st) == cpsw_tx /\ stack' = IF tx THEN Failed(st) ELSE st

\* What the static buffers hold matters only to the calls in st that are
\* still going to send from them.
Needed(b, st) ==
    [k \in Senders |-> IF \E j \in DOMAIN st : st[j].fn = "resolve" /\ st[j].kind = k
                       THEN b[k] ELSE 0]

\* Mutant: one payload buffer for all senders.
ShareBuffer(st, kind, ip, v) ==
    /\ g_arp' = arp_find(g_arp, ip)
    /\ \/ arp_hit(g_arp, ip) # {} /\ Send(st)
       \/ /\ arp_hit(g_arp, ip) = {}
          /\ cpsw_tx
          /\ stack' = Append(st, [fn |-> "resolve", pc |-> "poll", kind |-> kind,
                                  ip |-> ip, arg |-> v, left |-> ARP_RESOLVE_ITER])
    /\ buf' = Needed([k \in Senders |-> v], stack')

\* The caller's payload v is copied to its static buffer, then ip_tx() runs
\* up to the first poll of arp_resolve().  arg keeps v for the properties.
ip_tx(st, kind, ip, v) ==
    /\ g_arp' = arp_find(g_arp, ip)
    /\ \/ arp_hit(g_arp, ip) # {} /\ Send(st)
       \/ /\ arp_hit(g_arp, ip) = {}
          /\ cpsw_tx
          /\ stack' = Append(st, [fn |-> "resolve", pc |-> "poll", kind |-> kind,
                                  ip |-> ip, arg |-> v, left |-> ARP_RESOLVE_ITER])
    /\ buf' = Needed([buf EXCEPT ![kind] = v], stack')

(* ----------------------------- reception --------------------------------- *)
arp_rx(st) ==
    /\ g_arp' = arp_cache_update(g_arp, rx.peer)
    /\ \/ rx.type = "arp_req" /\ cpsw_tx
       \/ rx.type = "arp_rep" /\ UNCHANGED tx
    /\ stack' = st
    /\ UNCHANGED <<g_icmp_rep, buf>>

Heard(r) == IF r.fn = "ping" /\ r.seq = rx.val THEN [r EXCEPT !.heard = TRUE] ELSE r

icmp_rx(st) ==
    \/ /\ rx.type = "echo_req"
       /\ ip_tx(st, "echo_rep", rx.peer, rx.val)
       /\ UNCHANGED g_icmp_rep
    \/ /\ rx.type = "echo_rep"
       /\ g_icmp_rep' = rx
       /\ stack' = [k \in DOMAIN st |-> Heard(st[k])]
       /\ UNCHANGED <<tx, g_arp, buf>>

\* The registered handler may answer with a datagram of the same payload.
udp_rx(st) ==
    \/ /\ ip_tx(st, "udp", rx.peer, rx.val)
       /\ UNCHANGED g_icmp_rep
    \/ /\ stack' = st
       /\ UNCHANGED <<tx, g_arp, g_icmp_rep, buf>>

netcore_rx(st) ==
    \/ rx.type \in {"arp_req", "arp_rep"} /\ arp_rx(st)
    \/ rx.type \in {"echo_req", "echo_rep"} /\ icmp_rx(st)
    \/ rx.type = "udp" /\ udp_rx(st)
    \/ /\ rx.type \in {"junk", "blank"}
       /\ stack' = st
       /\ UNCHANGED <<tx, g_arp, g_icmp_rep, buf>>

\* cpsw_rx_poll() called from st, up to the return of the callback.
cpsw_rx_poll(st) ==
    \/ /\ rx = Armed
       /\ stack' = st
       /\ UNCHANGED <<fresh, tx, g_arp, g_icmp_rep, buf>>
    \/ /\ rx # Armed
       /\ Len(st) < MaxDepth
       /\ fresh' = FALSE
       /\ netcore_rx(Append(st, [fn |-> "poll"]))

(* ------------------------------ bring-up --------------------------------- *)
\* Nothing is known of the descriptor RAM until cpsw_bd_init() writes it.
Init ==
    /\ up = "clock"
    /\ rx \in Frames \cup {Armed, Blank}
    /\ fresh = TRUE
    /\ tx \in BOOLEAN
    /\ g_arp = [i \in Slots |-> None]
    /\ now = 0
    /\ g_icmp_rep = None
    /\ buf = [k \in Senders |-> 0]
    /\ stack = <<>>

\* One reset of cpsw_init(): it ends in time, or cpsw_init() returns -1,
\* which kernel_main() does not look at.
Reset(from, to) ==
    /\ up = from
    /\ up' \in {to, "failed"}
    /\ UNCHANGED <<rx, fresh, tx, g_arp, now, g_icmp_rep, buf, stack>>

cpsw_clock_verify == Reset("clock", "ss")
cpsw_ss_reset     == Reset("ss", "cpdma")
cpsw_cpdma_init   == Reset("cpdma", "mac")
cpsw_mac_init     == Reset("mac", "bd")

cpsw_bd_init ==
    /\ up = "bd"
    /\ up' = "on"
    /\ rx' = Armed
    /\ tx' = FALSE
    /\ UNCHANGED <<fresh, g_arp, now, g_icmp_rep, buf, stack>>

(* ------------------------------- actions --------------------------------- *)
Running == up \in {"on", "failed"}        \* kernel_main() is past the drivers

\* idle_task() after an interrupt.
IdlePoll ==
    /\ Running /\ stack = <<>>
    /\ cpsw_rx_poll(<<>>)
    /\ UNCHANGED <<up, rx, now>>

\* Mutant: an old reply is not forgotten.
PingKeepsReply(ip, s) ==
    /\ Running /\ stack = <<>>
    /\ ip_tx(<<[fn |-> "ping", pc |-> "poll", seq |-> s, left |-> ICMP_WAIT_ITER,
                heard |-> FALSE]>>, "echo_req", ip, s)
    /\ UNCHANGED <<up, rx, fresh, now, g_icmp_rep>>

netcore_ping(ip, s) ==
    /\ Running /\ stack = <<>>
    /\ g_icmp_rep' = None
    /\ ip_tx(<<[fn |-> "ping", pc |-> "poll", seq |-> s, left |-> ICMP_WAIT_ITER,
                heard |-> FALSE]>>, "echo_req", ip, s)
    /\ UNCHANGED <<up, rx, fresh, now>>

netcore_send_udp(ip, d) ==
    /\ Running /\ stack = <<>>
    /\ ip_tx(<<>>, "udp", ip, d)
    /\ UNCHANGED <<up, rx, fresh, now, g_icmp_rep>>

\* The next poll of the loop in arp_resolve() or netcore_ping().
LoopPoll ==
    /\ stack # <<>> /\ Top.fn \in {"resolve", "ping"} /\ Top.pc = "poll"
    /\ cpsw_rx_poll(SetTop([Top EXCEPT !.pc = "check"]))
    /\ UNCHANGED <<up, rx, now>>

\* Next iteration, or the end of the loop without success.
Again == IF Top.left = 1 THEN Failed(Pop)
         ELSE SetTop([Top EXCEPT !.pc = "poll", !.left = @ - 1])

arp_resolve ==
    /\ stack # <<>> /\ Top.fn = "resolve" /\ Top.pc = "check"
    /\ g_arp' = arp_find(g_arp, Top.ip)
    /\ \/ arp_hit(g_arp, Top.ip) # {} /\ Send(Pop)
       \/ arp_hit(g_arp, Top.ip) = {} /\ stack' = Again /\ UNCHANGED tx
    /\ buf' = Needed(buf, stack')
    /\ UNCHANGED <<up, rx, fresh, now, g_icmp_rep>>

Answered(s) == g_icmp_rep # None /\ g_icmp_rep.val = s

PingCheck ==
    /\ stack # <<>> /\ Top.fn = "ping" /\ Top.pc = "check"
    /\ UNCHANGED <<up, rx, fresh, tx, g_arp, now, buf>>
    /\ \/ Answered(Top.seq) /\ g_icmp_rep' = None /\ stack' = Pop
       \/ ~Answered(Top.seq) /\ stack' = Again /\ UNCHANGED g_icmp_rep

\* The end of cpsw_rx_poll(): acknowledge and re-arm.
Rearm ==
    /\ stack # <<>> /\ Top.fn = "poll"
    /\ rx' = Armed
    /\ stack' = Pop
    /\ UNCHANGED <<up, fresh, tx, g_arp, now, g_icmp_rep, buf>>

\* The DMA fills the armed descriptor; without one it drops the frame.
Receive(f) ==
    /\ up = "on" /\ rx = Armed
    /\ rx' = f
    /\ fresh' = TRUE
    /\ UNCHANGED <<up, tx, g_arp, now, g_icmp_rep, buf, stack>>

TxDone ==
    /\ up = "on" /\ tx
    /\ tx' = FALSE
    /\ UNCHANGED <<up, rx, fresh, g_arp, now, g_icmp_rep, buf, stack>>

Tick ==
    /\ now' = (now + 1) % TickMod
    /\ UNCHANGED <<up, rx, fresh, tx, g_arp, g_icmp_rep, buf, stack>>

Next ==
    \/ cpsw_clock_verify \/ cpsw_ss_reset \/ cpsw_cpdma_init
    \/ cpsw_mac_init \/ cpsw_bd_init
    \/ IdlePoll
    \/ \E ip \in Peers, s \in Seqs : netcore_ping(ip, s)
    \/ \E ip \in Peers, d \in Data : netcore_send_udp(ip, d)
    \/ LoopPoll \/ arp_resolve \/ PingCheck \/ Rearm
    \/ \E f \in Frames : Receive(f)
    \/ TxDone \/ Tick

Spec == Init /\ [][Next]_vars

(* ------------------------------ properties ------------------------------- *)
\* The ARP cache never holds two valid entries of one host, however entries
\* were refreshed, evicted or expired: arp_find(), which takes the first, can
\* then never meet an older address than the host announced last.
OneEntry ==
    \A i, j \in Slots : g_arp[i] # None /\ Matches(g_arp, j, g_arp[i].ip) => i = j

\* While netcore_ping() waits, an echo reply with its sequence number is
\* recorded only if one was handled since the call began: the answer to an
\* earlier ping that timed out cannot end this one unheard.
PingSound ==
    \A k \in DOMAIN stack :
        stack[k].fn = "ping" /\ Answered(stack[k].seq) => stack[k].heard

\* While ip_tx() waits in arp_resolve(), the echo it is going to send is what
\* its caller gave it: the frames handled by the polls in between, and the
\* packets they made the kernel send, leave its payload buffer alone.  Of a
\* datagram only this is true, that the buffer still holds a datagram: the
\* UDP handler called by a poll may have sent another one from it.
SentAsGiven ==
    \A k \in DOMAIN stack :
        stack[k].fn = "resolve"
            => IF stack[k].kind = "udp" THEN buf["udp"] \in Data
               ELSE buf[stack[k].kind] = stack[k].arg

\* netcore.c says of the loop in arp_resolve() that it polls for the reply:
\* so a poll it makes can bring something new, the descriptor being armed or
\* holding a frame nobody has handled.
ResolveHears ==
    (up = "on" /\ stack # <<>> /\ Top.fn = "resolve" /\ Top.pc = "poll")
        => (rx = Armed \/ fresh)

\* The peers are interchangeable.
Symmetry == Permutations(Peers)
=============================================================================
