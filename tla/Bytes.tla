------------------------------- MODULE Bytes --------------------------------
(***************************************************************************)
(* Byte by byte: the string functions of vinixlibc, of kernel/libc and of  *)
(* the boot loader, and the Ethernet frames and checksums of netcore.c.    *)
(* Memory m is a sequence of bytes, a pointer an index into it; 0 is the   *)
(* null pointer and byte 0 ends a string.                                  *)
(***************************************************************************)
EXTENDS Integers, Sequences

CONSTANTS MAC_LEN,               \* 6
          ETH_PAYLOAD_MAX,       \* 1010
          ETH_MIN_FRAME          \* 60

ASSUME BytesAssumption == {MAC_LEN, ETH_PAYLOAD_MAX, ETH_MIN_FRAME} \subseteq Nat \ {0}

RECURSIVE Strlen(_, _)
Strlen(m, s) == IF m[s] = 0 THEN 0 ELSE 1 + Strlen(m, s + 1)
strlen(m, s) == Strlen(m, s)

RECURSIVE Strcmp(_, _, _)
Strcmp(m, s1, s2) == IF m[s1] # 0 /\ m[s1] = m[s2] THEN Strcmp(m, s1 + 1, s2 + 1) ELSE m[s1] - m[s2]
strcmp(m, s1, s2) == Strcmp(m, s1, s2)

RECURSIVE Strncmp(_, _, _, _)
Strncmp(m, s1, s2, n) == IF n = 0 THEN 0
                         ELSE IF m[s1] # m[s2] THEN m[s1] - m[s2]
                         ELSE IF m[s1] = 0 THEN 0
                         ELSE Strncmp(m, s1 + 1, s2 + 1, n - 1)
strncmp(m, s1, s2, n) == Strncmp(m, s1, s2, n)

\* The NUL is copied too.
RECURSIVE Strcpy(_, _, _)
Strcpy(m, dst, src) == LET w == [m EXCEPT ![dst] = m[src]]
                       IN  IF m[src] = 0 THEN w ELSE Strcpy(w, dst + 1, src + 1)
strcpy(m, dst, src) == Strcpy(m, dst, src)

\* Exactly n bytes are written: NULs after a short string, none after a long.
RECURSIVE Strncpy(_, _, _, _)
Strncpy(m, dst, src, n) ==
    IF n = 0 THEN m
    ELSE IF m[src] # 0 THEN Strncpy([m EXCEPT ![dst] = m[src]], dst + 1, src + 1, n - 1)
    ELSE [i \in DOMAIN m |-> IF i \in dst .. dst + n - 1 THEN 0 ELSE m[i]]
strncpy(m, dst, src, n) == Strncpy(m, dst, src, n)

strcat(m, dst, src) == Strcpy(m, dst + Strlen(m, dst), src)

\* Mutation of strchr: the NUL is not found.
RECURSIVE StrchrChars(_, _, _)
StrchrChars(m, s, c) == IF m[s] = 0 THEN 0 ELSE IF m[s] = c THEN s ELSE StrchrChars(m, s + 1, c)
strchr_chars(m, s, c) == StrchrChars(m, s, c % 256)

RECURSIVE Strchr(_, _, _)
Strchr(m, s, target) == IF m[s] = 0 THEN (IF target = 0 THEN s ELSE 0)
                        ELSE IF m[s] = target THEN s ELSE Strchr(m, s + 1, target)
strchr(m, s, c) == Strchr(m, s, c % 256)

RECURSIVE Strrchr(_, _, _, _)
Strrchr(m, s, target, last) == IF m[s] = 0 THEN (IF target = 0 THEN s ELSE last)
                               ELSE Strrchr(m, s + 1, target, IF m[s] = target THEN s ELSE last)
strrchr(m, s, c) == Strrchr(m, s, c % 256, 0)

RECURSIVE Starts(_, _, _), Strstr(_, _, _)
Starts(m, h, n) == m[n] = 0 \/ (m[h] # 0 /\ m[h] = m[n] /\ Starts(m, h + 1, n + 1))
Strstr(m, haystack, needle) == IF m[haystack] = 0 THEN 0
                               ELSE IF Starts(m, haystack, needle) THEN haystack
                               ELSE Strstr(m, haystack + 1, needle)
strstr(m, haystack, needle) == IF m[needle] = 0 THEN haystack ELSE Strstr(m, haystack, needle)

RECURSIVE CopyUp(_, _, _, _), CopyDown(_, _, _, _)
CopyUp(m, d, s, n) == IF n = 0 THEN m ELSE CopyUp([m EXCEPT ![d] = m[s]], d + 1, s + 1, n - 1)
CopyDown(m, d, s, n) == IF n = 0 THEN m ELSE CopyDown([m EXCEPT ![d + n - 1] = m[s + n - 1]], d, s, n - 1)

memcpy(m, dst, src, n) == CopyUp(m, dst, src, n)
memmove(m, dst, src, n) == IF dst = src \/ n = 0 THEN m ELSE IF dst < src THEN CopyUp(m, dst, src, n) ELSE CopyDown(m, dst, src, n)
memset(m, s, c, n) == [i \in DOMAIN m |-> IF i \in s .. s + n - 1 THEN c % 256 ELSE m[i]]

RECURSIVE Memcmp(_, _, _, _)
Memcmp(m, s1, s2, n) == IF n = 0 THEN 0 ELSE IF m[s1] # m[s2] THEN m[s1] - m[s2] ELSE Memcmp(m, s1 + 1, s2 + 1, n - 1)
memcmp(m, s1, s2, n) == Memcmp(m, s1, s2, n)

-----------------------------------------------------------------------------
(* kernel/libc: the same loops, but for two.                               *)

kernel_strcmp(m, s1, s2) == Strcmp(m, s1, s2)
kernel_strncmp(m, s1, s2, n) == Strncmp(m, s1, s2, n)

\* The NUL is written after the loop.
RECURSIVE CopyChars(_, _, _)
CopyChars(m, dst, src) == IF m[src] = 0 THEN [m EXCEPT ![dst] = 0]
                          ELSE CopyChars([m EXCEPT ![dst] = m[src]], dst + 1, src + 1)
kernel_strcpy(m, dst, src) == CopyChars(m, dst, src)
kernel_strlen(m, s) == Strlen(m, s)
kernel_memcpy(m, dst, src, n) == CopyUp(m, dst, src, n)
kernel_memset(m, s, c, n) == [i \in DOMAIN m |-> IF i \in s .. s + n - 1 THEN c % 256 ELSE m[i]]
kernel_memcmp(m, s1, s2, n) == Memcmp(m, s1, s2, n)

-----------------------------------------------------------------------------
(* bootloader/src/utils.c, and strlen() for compiled programs.             *)

boot_memcpy(m, dest, src, n) == CopyUp(m, dest, src, n)
boot_memset(m, s, c, n) == [i \in DOMAIN m |-> IF i \in s .. s + n - 1 THEN c % 256 ELSE m[i]]
reflibc_strlen(m, s) == Strlen(m, s)

-----------------------------------------------------------------------------
(* netcore.c: 16-bit numbers are stored with the low byte first, unless     *)
(* they are swapped before.                                                 *)

bswap16(v) == (v \div 256) + (v % 256) * 256
Stored16(v) == <<v % 256, v \div 256>>
Loaded16(p) == p[1] + 256 * p[2]

\* Words with the high byte first, an odd byte at the end as a high byte.
RECURSIVE WordSum(_), Folded(_)
WordSum(p) == IF p = <<>> THEN 0
              ELSE IF Len(p) = 1 THEN p[1] * 256
              ELSE p[1] * 256 + p[2] + WordSum(SubSeq(p, 3, Len(p)))
Folded(s) == IF s < 65536 THEN s ELSE Folded((s % 65536) + (s \div 65536))
net_cksum(p) == 65535 - Folded(WordSum(p))

mac_is_bcast(m) == \A i \in 1 .. MAC_LEN : m[i] = 255
mac_eq(a, b) == \A i \in 1 .. MAC_LEN : a[i] = b[i]

\* Mutation of ether_tx: a short frame is padded in front of its payload.
ether_tx_front(g_mac, dst, etype, payload) ==
    LET header == dst \o g_mac \o Stored16(bswap16(etype))
    IN  IF Len(payload) > ETH_PAYLOAD_MAX THEN <<>>
        ELSE header \o [i \in 1 .. ETH_MIN_FRAME - Len(header) - Len(payload) |-> 0] \o payload

\* The frame given to cpsw_tx(), or nothing.
ether_tx(g_mac, dst, etype, payload) ==
    LET frame == dst \o g_mac \o Stored16(bswap16(etype)) \o payload
    IN  IF Len(payload) > ETH_PAYLOAD_MAX THEN <<>>
        ELSE frame \o [i \in 1 .. ETH_MIN_FRAME - Len(frame) |-> 0]

\* What netcore_rx() passes on, or nothing.
Ignored == <<>>
netcore_rx(g_mac, frame) ==
    LET dst == SubSeq(frame, 1, MAC_LEN)
        header == 2 * MAC_LEN + 2
    IN  IF Len(frame) < header THEN Ignored
        ELSE IF ~mac_eq(dst, g_mac) /\ ~mac_is_bcast(dst) THEN Ignored
        ELSE [etype |-> bswap16(Loaded16(SubSeq(frame, header - 1, header))), payload |-> SubSeq(frame, header + 1, Len(frame))]
=============================================================================
