--------------------------- MODULE MCConversions ---------------------------
(* The pure algorithms, one state per input: texts of each kind grow by    *)
(* one element a step, and a program calls malloc() and free().            *)
EXTENDS Directories, Lexer, Frame, Heap, Bytes, Terminal

CONSTANTS NameChars, NameLen,         \* bounds, per kind of text
          PathLen, FormatLen, CommentLen, LiteralLen, OperatorLen, ScreenLen,
          MemoryLen, KeysLen, VolumeLen

VARIABLES kind, text, heap, held

vars == <<kind, text, heap, held>>

UserEnd == USER_SPACE_VA + USER_SPACE_SIZE
Arguments == {0, 1, 2, USER_SPACE_VA - 1, USER_SPACE_VA, UserEnd - MAX_PATH, UserEnd - 41, UserEnd - 1, UserEnd, ADDRESSES - 1}
Devices == <<[name |-> <<"u">>, base |-> 7, irq |-> 72, driver |-> <<"u">>],
             [name |-> <<"w">>, base |-> 3, irq |-> 0, driver |-> <<>>],
             [name |-> <<"f">>, base |-> 0, irq |-> 105, driver |-> <<"f">>],
             [name |-> <<"v">>, base |-> 0, irq |-> -1, driver |-> <<>>]>>
Coordinates == {0, 1, 2, g_width - 1, g_width, Wrap(-3), Wrap(-1)}
Element ==
    [name |-> NameChars, path |-> {"/", "d", "e"}, proc |-> {"/", "1", "0", "s", "m"},
     format |-> {"%", "-", "0", "7", "d", "x"}, comment |-> {"/", "*", "\n", "#", "a"},
     literal |-> {"'", Quote, Escape, "n", "1"}, operator |-> {"=", "<", "&", "a", "1", " ", "$"},
     include |-> {"h1", "h2", "none", "-"}, rect |-> Coordinates, circle |-> {0, 1, 2, 3, 5},
     screen |-> {"newline", "return", "tab", "A", "B"}, heap |-> {},
     memory |-> {0, 1, 2}, packet |-> {0, 1, 254, 255}, keys |-> {"a", "b", "bs", "other", "\n"}, puts |-> {"a", "\n"}, call |-> Arguments,
     volume |-> {"one", "two", "dir", "deleted", "long", "volume"}, shown |-> {"/", "b", "d", "p", "1"},
     tasks |-> {"none", "READY", "RUNNING", "BLOCKED", "ZOMBIE"}, devices |-> DOMAIN Devices]
Longest ==
    [name |-> NameLen, path |-> PathLen, proc |-> PathLen, format |-> FormatLen, comment |-> CommentLen,
     literal |-> LiteralLen, operator |-> OperatorLen, include |-> 6, rect |-> 4, circle |-> 3, screen |-> ScreenLen,
     heap |-> 0, memory |-> MemoryLen, packet |-> 5, keys |-> KeysLen, puts |-> KeysLen + 1, call |-> 3, volume |-> VolumeLen, shown |-> 4,
     tasks |-> 4, devices |-> 3]

Init == kind \in DOMAIN Element /\ text = <<>> /\ heap = pool_init /\ held = {}

Type == /\ Len(text) < Longest[kind]
        /\ \E c \in Element[kind] : text' = Append(text, c)
        /\ UNCHANGED <<kind, heap, held>>

\* A program that never gets the pool's first block (see HeapSound).
Anchored == 0 \notin held

Malloc == /\ kind = "heap" /\ Anchored
          /\ \E n \in 1 .. POOL * HDR : \E m \in {malloc(heap, n)} :
               heap' = m.heap /\ held' = held \cup ({m.ptr} \ {NULL_PTR})
          /\ UNCHANGED <<kind, text>>

Free == /\ kind = "heap" /\ Anchored
        /\ \E bp \in held : heap' = free(heap, bp) /\ held' = held \ {bp}
        /\ UNCHANGED <<kind, text>>

Realloc == /\ kind = "heap" /\ Anchored
           /\ \E bp \in held, n \in 0 .. POOL * HDR : \E m \in {realloc(heap, bp, n)} :
                /\ heap' = m.heap
                /\ held' = IF m.ptr = NULL_PTR /\ n > 0 THEN held ELSE (held \ {bp}) \cup ({m.ptr} \ {NULL_PTR})
           /\ UNCHANGED <<kind, text>>

Next == Type \/ Malloc \/ Free \/ Realloc
Spec == Init /\ [][Next]_vars

-----------------------------------------------------------------------------
(* Names.                                                                  *)

MixedCase(part) == (\E i \in DOMAIN part : IsLower(part[i])) /\ (\E i \in DOMAIN part : IsUpper(part[i]))

\* The names that fit the on-disk form: both parts within their width and in
\* one case, and no dot without an extension.
Is83(name) == /\ Len(BasePart(name)) <= BASE /\ Len(ExtPart(name)) <= EXT
              /\ ~MixedCase(BasePart(name)) /\ ~MixedCase(ExtPart(name))
              /\ DotAt(name) # Len(name)

Shown(name) == RawToName(NameToRaw(name), DetectNtRes(name))
NameSurvives(name) == NameToRaw(Shown(name)) = NameToRaw(name) /\ (Is83(name) => Shown(name) = name)

\* A path as components, and back.
Cuts(path) == {0, Len(path) + 1} \cup {i \in DOMAIN path : path[i] = Slash}
Components(path) ==
    LET ends == SetToSortSeq(Cuts(path) \ {0}, <)
        from(k) == IF k = 1 THEN 1 ELSE ends[k - 1] + 1
    IN  SelectSeq([k \in DOMAIN ends |-> SubSeq(path, from(k), ends[k] - 1)], LAMBDA c : c # <<>>)
Joined(parts) == FlattenSeq([k \in DOMAIN parts |-> IF k = 1 THEN parts[k] ELSE <<Slash>> \o parts[k]])

TestMounts == vfs_mount(vfs_mount(vfs_mount(<<>>, <<"/", "d", "/", "e">>, "deep"), <<"/">>, "root"), <<"/", "d">>, "shallow")
Normal(path) == path # <<>> /\ path = <<Slash>> \o Joined(Components(path))

ResolvesComponents(path) ==
    LET parts == Components(path)
        depth(m) == Len(Components(m.mount_point))
        fits == {m \in Range(TestMounts) : IsPrefix(Components(m.mount_point), parts)}
        best == CHOOSE m \in fits : \A n \in fits : depth(n) <= depth(m)
    IN  IF Normal(path)
        THEN resolve(TestMounts, path) = [fs_ops |-> best.fs_ops,
                                          rest |-> Joined(SubSeq(parts, depth(best) + 1, Len(parts)))]
        ELSE Head(path) # Slash => resolve(TestMounts, path) = [fs_ops |-> "root", rest |-> path]

Live == {0, 1, 10}
Numeral(k, digits) == /\ digits # <<>> /\ \A i \in DOMAIN digits : digits[i] \in {"0", "1"}
                      /\ k = SumFunction([i \in DOMAIN digits |-> Digits[digits[i]] * 10 ^ (Len(digits) - i)])
StatusOf(name, k) == \E j \in DOMAIN name : /\ j <= HEAD /\ SubSeq(name, j, Len(name)) = <<"/", "s">>
                                            /\ Numeral(k, SubSeq(name, 1, j - 1))

\* A file is found again under the name listdir() shows for it, whatever name
\* it was created with, and a name that fits the card's form is shown as given
\* (name_to_raw(), raw_to_name() of fat32.c).  A path without empty components
\* leads to the mount with the most components in common, and the rest of the
\* components to its file system (resolve() of vfs.c).  A name in /proc leads
\* to the slot whose number it spells, and no other does (procfs_lookup()).
NamesConvert ==
    /\ kind = "name" => NameSurvives(text)
    /\ kind = "path" /\ text # <<>> => ResolvesComponents(text)
    /\ kind = "proc" => /\ \A k \in 0 .. 11 : procfs_lookup(text, Live) = STATUS_BASE + k <=> k \in Live /\ StatusOf(text, k)
                        /\ procfs_lookup(text, Live) = 0 <=> text = <<"m">>

-----------------------------------------------------------------------------
(* Directories: a volume with text as its root directory, on sectors of two *)
(* entries; a subdirectory holds the same entries but for itself.           *)

RawOf == [one |-> <<65, 32, 67, 32>>, two |-> <<66, 49, 32, 32>>, dir |-> <<66, 32, 32, 32>>, dot |-> <<46, 32, 32, 32>>,
          dotdot |-> <<46, 46, 32, 32>>]
EntryOf(k) == [kind |-> IF k \in {"dot", "dotdot"} THEN "dir" ELSE IF k \in {"one", "two"} THEN "file" ELSE k,
               raw |-> IF k \in DOMAIN RawOf THEN RawOf[k] ELSE RawOf.one,
               nt_res |-> [base |-> k # "one", ext |-> FALSE], hi |-> 0, lo |-> IF k = "dir" THEN 4 ELSE 0, size |-> 5]
Subdirectory(entries) == <<"dot", "dotdot">> \o SelectSeq(entries, LAMBDA k : k # "dir")

\* Clusters of a directory, in the order of its chain.
ChainOf(chain, entries, spc) == SubSeq(chain, 1, Max({1, (Len(entries) + 2 * spc - 1) \div (2 * spc)}))
RootChain(spc) == ChainOf(<<2, 5, 3>>, text, spc)
SubChain(spc) == ChainOf(<<4, 7, 6, 8>>, Subdirectory(text), spc)
After(chain, c) == LET k == CHOOSE k \in DOMAIN chain : chain[k] = c IN IF k = Len(chain) THEN END_OF_CHAIN ELSE chain[k + 1]
TableEntry(c, spc) == CASE c \in Range(RootChain(spc)) -> After(RootChain(spc), c)
                        [] c \in Range(SubChain(spc)) -> After(SubChain(spc), c) [] OTHER -> 0

\* Two entries from place n of a directory on.
TwoFrom(entries, n) == [i \in 1 .. 2 |-> EntryOf(IF n + i - 1 <= Len(entries) THEN entries[n + i - 1] ELSE "end")]
PlaceOf(chain, c, spc) == 2 * spc * ((CHOOSE k \in DOMAIN chain : chain[k] = c) - 1) + 1
BootSector(spc) == [Signature |-> <<85, 170>>, BytsPerSec |-> <<0, 2>>, SecPerClus |-> spc, NumFATs |-> 2, RsvdSecCnt |-> <<2, 0>>,
                    FSInfo |-> <<1, 0>>, FATSz32 |-> <<3, 0, 0, 0>>, RootClus |-> <<2, 0, 0, 0>>]
FirstData == 9
CardOf(spc) ==
    [lba \in {1} \cup 3 .. FirstData + 7 * spc - 1 |->
       IF lba = 1 THEN BootSector(spc)
       ELSE IF lba < FirstData THEN [i \in 1 .. FAT_ENTRIES |-> TableEntry(((lba - 3) % 3) * FAT_ENTRIES + i - 1, spc)]
       ELSE LET c == (lba - FirstData) \div spc + 2
                s == (lba - FirstData) % spc
            IN  CASE c \in Range(RootChain(spc)) -> TwoFrom(text, PlaceOf(RootChain(spc), c, spc) + 2 * s)
                  [] c \in Range(SubChain(spc)) -> TwoFrom(Subdirectory(text), PlaceOf(SubChain(spc), c, spc) + 2 * s)
                  [] OTHER -> TwoFrom(<<>>, 1)]
VolumeOf(spc, bad) == LET card == CardOf(spc) IN [card |-> card, bad |-> bad, fs |-> parse_bpb([card |-> card, bad |-> {}], 1)]

Held(entries) == SelectSeq(entries, LAMBDA k : k \in {"one", "two", "dir"})
Expected(entries) == LET ks == Held(entries) IN [i \in DOMAIN ks |-> EntryInfo(EntryOf(ks[i]))]
Unrepeated(entries) == \A i, j \in DOMAIN Held(entries) : i # j => Held(entries)[i] # Held(entries)[j]

\* The directory that a path leads to, shown whole; what is shown is found.
DirectoryShown(vol, path, entries) ==
    /\ \A max \in 0 .. 4 : fat32_listdir(vol, path, max) = Found(AtMost(Expected(entries), max))
    /\ \A i \in DOMAIN Held(entries) :
         LET r == resolve_path(vol, path \o <<SLASH>> \o Expected(entries)[i].name)
             e == vol.card[r.at[1]][r.at[2]]
         IN  r.rc = 0 /\ r.is_dir = (Held(entries)[i] = "dir") /\ e = EntryOf(Held(entries)[i])

\* What the two ls print of a directory: its first entries, as far as each has
\* room, or the error.
LsShows(vol, path, listing) ==
    LET lines == [i \in DOMAIN listing.list |-> listing.list[i].name]
        shown(max) == IF listing.rc < 0 THEN <<"error">> ELSE AtMost(lines, max)
    IN  /\ cmd_ls(MountTable, vol, Live, path) = shown(SHELL_FILES)
        /\ ls_main(MountTable, vol, Live, path) = shown(LS_FILES)

VolumeShown ==
    Unrepeated(text) => \A spc \in {1, 2} :
      LET vol == VolumeOf(spc, {})
          sub == "dir" \in Range(text)
      IN  /\ DirectoryShown(vol, <<>>, text)
          /\ sub => DirectoryShown(vol, <<98>>, Subdirectory(text))
          /\ LsShows(vol, <<"/">>, Found(Expected(text)))
          /\ LsShows(vol, <<"/", "b">>, IF sub THEN Found(Expected(Subdirectory(text))) ELSE Failed(E_NOENT))
          /\ \A lba \in DOMAIN vol.card \ {1} :
               LET r == fat32_listdir(VolumeOf(spc, {lba}), <<>>, 4) IN r.rc = E_FAIL \/ IsPrefix(r.list, Expected(text))

\* The three file systems under one tree.
SmallVolume == [card |-> <<>>, bad |-> {}, fs |-> [root_cluster |-> 0]]
PathShown(path) ==
    LET parts == Components(path)
        names(list) == Found(Plain(list))
    IN  Normal(path) =>
          LsShows(SmallVolume, path,
                  CASE parts = <<>> -> names(<<>>)
                    [] parts = <<<<"d">>>> -> names(<<<<"t">>, <<"n">>>>)
                    [] parts = <<<<"p">>>> -> names(<<<<"m">>, <<"v">>, <<"o">>, <<"0">>, <<"1">>, <<"1", "0">>>>)
                    [] parts = <<<<"p">>, <<"1">>>> -> names(<<<<"s">>>>)
                    [] OTHER -> Failed(E_NOENT))

\* ps has a line for each of the first tasks, devlist one for each of the first
\* devices with the interrupt that its driver is given.
TasksOf == [i \in DOMAIN text |-> IF text[i] = "none" THEN <<>> ELSE [id |-> i - 1, state |-> TASK_STATE[text[i]]]]
TasksShown ==
    LET used == {i \in DOMAIN text : text[i] # "none"}
        lines == cmd_ps(TasksOf)
    IN  /\ {l.id + 1 : l \in Range(lines)} = {i \in used : Cardinality({j \in used : j < i}) < PS_TASKS}
        /\ Len(lines) = Min({Cardinality(used), PS_TASKS})
        /\ \A l \in Range(lines) : l.state = text[l.id + 1]
        /\ ps_main(TasksOf) = lines
DevicesShown ==
    LET devices == [i \in DOMAIN text |-> Devices[text[i]]]
    IN  /\ Len(cmd_devlist(devices)) = Min({Len(devices), SHELL_DEVICES})
        /\ \A i \in DOMAIN cmd_devlist(devices) :
          LET line == cmd_devlist(devices)[i]
              resources == platform_device_register(devices[i])
              irq == platform_get_irq(resources, 0)
              mem == platform_get_resource(resources, "mem", 0)
          IN  /\ line.irq = <<"-">> <=> irq = -1
              /\ irq # -1 => strtol(line.irq, 10) = irq
              /\ mem = NoResource <=> line.base = 0
              /\ mem # NoResource => mem.start = line.base

\* What ls, ps and devlist show is there, in its order and without a gap: the
\* entries of a directory of the card through sectors and cluster chains, each
\* found again under the name shown; the mounts, /dev and /proc; tasks and
\* devices.  It is all of it only as far as the caller has room: the shell's ls
\* stops after SHELL_FILES entries (cmd_ls() of commands.c), the program ls
\* after LS_FILES (ls.c), ps after PS_TASKS tasks and devlist after
\* SHELL_DEVICES devices, and none of them says that more exist.  When a sector
\* cannot be read, ls fails or shows the first entries.
ReportsAgree == /\ kind = "volume" => VolumeShown
                /\ kind = "shown" /\ text # <<>> => PathShown(text)
                /\ kind = "tasks" => TasksShown
                /\ kind = "devices" => DevicesShown

-----------------------------------------------------------------------------
(* Numbers and texts.                                                      *)

Values == {-(WORD \div 2), -1, 0, 7, 10, WORD \div 2 - 1}
Radix == [c \in {"d", "x"} |-> IF c = "d" THEN 10 ELSE 16]

\* A format that is one conversion.
OneConversion(fmt) == Len(fmt) >= 2 /\ fmt[1] = "%" /\ Conversion(fmt, 2).at = Len(fmt) /\ Last(fmt) \in DOMAIN Radix

PrintsValue(fmt, v) ==
    LET out == fmt_walk(fmt, v)
        f == Conversion(fmt, 2)
    IN  /\ strtol(out, Radix[Last(fmt)]) = v
        /\ Len(out) = Max({f.width, Len(itoa(v, Radix[Last(fmt)]))})
        /\ f.left => Head(out) # " "

BufferHolds(fmt, v) ==
    LET out == fmt_walk(fmt, v)
    IN  /\ \A size \in 1 .. 5 : LET r == vsnprintf(size, fmt, v)
                                IN  r.n = Len(out) /\ Len(r.text) = Min({Len(out), size - 1}) /\ IsPrefix(r.text, out)
        /\ kvsnprintf(4, fmt, v) = vsnprintf(4, fmt, v)
        /\ FlattenSeq(Staged(out, 3)) = out /\ \A i \in DOMAIN Staged(out, 3) : Len(Staged(out, 3)[i]) \in 1 .. 3

\* What printf() and the kernel's formatter print for an integer reads back as
\* that integer with strtol(), whatever flags and width, the smallest integer
\* included; what itoa() and the console print does too, and what reflibc
\* prints but for the smallest integer and negative hexadecimal.  Buffers never
\* hold more than their size, and the staging buffer loses nothing.
PrintedReadsBack ==
    kind = "format" /\ text # <<>> => \A v \in Values :
      /\ BufferHolds(text, v)
      /\ OneConversion(text) => PrintsValue(text, v)
      /\ Len(text) = 2 /\ OneConversion(text) => strtol(uart_printf(text, v), Radix[text[2]]) = v
      /\ \A base \in {8, 10, 16} : strtol(itoa(v, base), base) = v
      /\ v # -(WORD \div 2) => strtol(print_int(v), 10) = v
      /\ v >= 0 => strtol(print_hex(v), 16) = v

-----------------------------------------------------------------------------
(* Strings in memory.                                                      *)

Terminated(m, s) == \E j \in s .. Len(m) : m[j] = 0
NulAt(m, s) == Min({j \in s .. Len(m) : m[j] = 0})
Str(m, s) == SubSeq(m, s, NulAt(m, s) - 1)
Upto(str, n) == SubSeq(str, 1, Min({n, Len(str)}))

\* Lexical order.
Before(a, b) == \E k \in 1 .. Min({Len(a) + 1, Len(b)}) : SubSeq(a, 1, k - 1) = SubSeq(b, 1, k - 1) /\ (Len(a) = k - 1 \/ (Len(a) >= k /\ a[k] < b[k]))
Orders(c, a, b) == (c = 0 <=> a = b) /\ (c < 0 <=> Before(a, b))

ComparesRight(m, s, t) ==
    /\ Orders(strcmp(m, s, t), Str(m, s), Str(m, t)) /\ kernel_strcmp(m, s, t) = strcmp(m, s, t)
    /\ \A n \in 0 .. 3 : /\ Orders(strncmp(m, s, t, n), Upto(Str(m, s), n), Upto(Str(m, t), n))
                         /\ kernel_strncmp(m, s, t, n) = strncmp(m, s, t, n)

SearchesRight(m, s, t) ==
    /\ \A f \in {strlen(m, s), kernel_strlen(m, s), reflibc_strlen(m, s)} : f = Len(Str(m, s))
    /\ \A c \in {0, 1, 258} :
         LET hits == {i \in s .. NulAt(m, s) : m[i] = c % 256}
         IN  /\ strchr(m, s, c) = IF hits = {} THEN 0 ELSE Min(hits)
             /\ strrchr(m, s, c) = IF hits = {} THEN 0 ELSE Max(hits)
    /\ LET hits == {h \in s .. NulAt(m, s) : IsPrefix(Str(m, t), SubSeq(m, h, NulAt(m, s) - 1))}
       IN  strstr(m, s, t) = IF hits = {} THEN 0 ELSE Min(hits)

\* What a string is copied to has room for it and does not overlap it.
Apart(m, d, n, t) == d + n - 1 <= Len(m) /\ d .. d + n - 1 \cap t .. NulAt(m, t) = {}
Put(m, d, bytes) == [i \in DOMAIN m |-> IF i \in d .. d + Len(bytes) - 1 THEN bytes[i - d + 1] ELSE m[i]]
CopiesRight(m, d, t) ==
    LET str == Str(m, t)
    IN  /\ Apart(m, d, Len(str) + 1, t) => /\ strcpy(m, d, t) = Put(m, d, Append(str, 0))
                                           /\ kernel_strcpy(m, d, t) = strcpy(m, d, t)
        /\ \A n \in 0 .. 3 : Apart(m, d, n, t) =>
             strncpy(m, d, t, n) = Put(m, d, Upto(str, n) \o [i \in 1 .. n - Len(Upto(str, n)) |-> 0])
        /\ Terminated(m, d) /\ Apart(m, d, Len(Str(m, d)) + Len(str) + 1, t) =>
             Str(strcat(m, d, t), d) = Str(m, d) \o str

\* memmove() copies as if through a buffer, memcpy() when the ranges allow it.
BytesRight(m, d, s, n) ==
    LET bytes == SubSeq(m, s, s + n - 1)
    IN  /\ memmove(m, d, s, n) = Put(m, d, bytes)
        /\ d <= s \/ d >= s + n => \A r \in {memcpy(m, d, s, n), kernel_memcpy(m, d, s, n), boot_memcpy(m, d, s, n)} :
                                     r = Put(m, d, bytes)
        /\ \A r \in {memset(m, d, 257, n), kernel_memset(m, d, 257, n), boot_memset(m, d, 257, n)} :
             r = Put(m, d, [i \in 1 .. n |-> 1])
        /\ Orders(memcmp(m, d, s, n), SubSeq(m, d, d + n - 1), bytes) /\ kernel_memcmp(m, d, s, n) = memcmp(m, d, s, n)

Own == <<2, 1>>
Broadcast == <<255, 255>>

\* A frame from ether_tx() has the least length and reaches the hosts it is
\* addressed to with its type and its payload.  A header passes the test of
\* ip_rx() exactly when its words, the checksum among them, add up to a
\* multiple of 65535.
FramesArrive(payload) ==
    /\ \A dst \in {Own, <<2, 255>>, Broadcast}, etype \in {2054, 2048} :
         LET frame == ether_tx(<<9, 9>>, dst, etype, payload)
             got == netcore_rx(Own, frame)
         IN  IF Len(payload) > ETH_PAYLOAD_MAX THEN frame = <<>>
             ELSE /\ Len(frame) >= ETH_MIN_FRAME
                  /\ IF dst \in {Own, Broadcast} THEN got.etype = etype /\ IsPrefix(payload, got.payload) ELSE got = Ignored
    /\ net_cksum(payload) = 0 <=> WordSum(payload) > 0 /\ WordSum(payload) % 65535 = 0

\* What ip_tx() and netcore_ping() do with the sum: it is stored with its low
\* byte first, and net_cksum() reads the high byte first.  That their packets
\* pass the test of ip_rx() is not true.
Sealed(header) == Stored16(net_cksum(<<0, 0>> \o header)) \o header
SealedIsAccepted == kind = "packet" /\ text # <<>> => net_cksum(Sealed(text)) = 0

\* The string functions of the three libraries compute what the C standard
\* says, up to the last byte of memory, and write nothing else.
StringsRight ==
    kind = "memory" =>
      /\ \A s, t \in {a \in DOMAIN text : Terminated(text, a)} : ComparesRight(text, s, t) /\ SearchesRight(text, s, t)
      /\ \A d \in DOMAIN text : \A t \in {a \in DOMAIN text : Terminated(text, a)} : CopiesRight(text, d, t)
      /\ \A d, s \in DOMAIN text : \A n \in 0 .. Len(text) - Max({d, s}) + 1 : BytesRight(text, d, s, n)

BytesArrive == StringsRight /\ (kind = "packet" => FramesArrive(text))

-----------------------------------------------------------------------------
(* The dialogue with the shell, as a terminal shows it.                    *)

\* One character on a terminal: rows of text and a cursor in the last row.
OnTerminal(t, c) ==
    CASE c = "bell" -> t
      [] c = "bs" -> [t EXCEPT !.col = Max({0, @ - 1})]
      [] c = "\r" -> [t EXCEPT !.col = 0]
      [] c = "\n" -> [t EXCEPT !.rows = Append(@, <<>>)]
      [] OTHER -> LET row == Last(t.rows)
                      new == IF t.col < Len(row) THEN [row EXCEPT ![t.col + 1] = c] ELSE Append(row, c)
                  IN  [rows |-> Append(Front(t.rows), new), col |-> t.col + 1]
Screen(uart) == FoldLeft(OnTerminal, [rows |-> <<<<>>>>, col |-> 0], uart)
Shows(row, line) == IsPrefix(Prompt \o line, row) /\ \A i \in Len(Prompt) + Len(line) + 1 .. Len(row) : row[i] = " "

\* The line that is shown is the line that will be executed, the cursor is
\* behind it, and every line executed has been shown; the line and its NUL fit
\* the buffer.
LineShown ==
    LET shell == shell_main(text)
        screen == Screen(shell.uart)
    IN  /\ Len(shell.data) < SHELL_LINE_BUFFER_SIZE
        /\ Shows(Last(screen.rows), shell.data) /\ screen.col = Len(Prompt) + Len(shell.data)
        /\ Len(screen.rows) = Len(shell.commands) + 1
        /\ \A k \in DOMAIN shell.commands : Shows(screen.rows[k], shell.commands[k])

\* Text goes to a file as it is and to the console with a return before each
\* newline, in pieces that sys_write() accepts, from the shell and from cat.
TextArrives ==
    /\ shell_puts(text, FALSE) = text
    /\ SelectSeq(shell_puts(text, TRUE), LAMBDA c : c # "\r") = text
    /\ LET out == shell_puts(text, TRUE) IN \A i \in DOMAIN out : out[i] = "\n" => i > 1 /\ out[i - 1] = "\r"
    /\ \A uart \in BOOLEAN : \A k \in DOMAIN PutsCalls(text, uart) : Len(PutsCalls(text, uart)[k]) \in 1 .. PUTS_BUFFER
    /\ tty_write(text) = uart_puts(text)
    /\ free_main(text) = tty_write(text)
    /\ cat_main([f |-> text], <<"f", "none", "f">>) = [rc |-> 1, out |-> tty_write(text) \o <<"open failed">> \o tty_write(text)]

DialogueShown == (kind = "keys" => LineShown) /\ (kind = "puts" => TextArrives)

\* Every library call reaches the kernel function it is for with its arguments
\* (syscall.c, unistd.c, svc_handler()); _exit() of the first process restarts
\* its program instead.  A call is refused exactly when a path or a buffer does
\* not lie in user memory, where a table counts with its size modulo 2^32:
\* the products of svc_handler.c are words, and a count that makes one wrap is
\* accepted for a table that user memory does not hold.  The two conventions
\* of read and write are told apart as long as descriptors and lengths are
\* smaller than addresses.  Errors come back under their POSIX names.
CallsArrive ==
    kind = "call" /\ Len(text) = 3 =>
      /\ \A self \in {1, 2}, rest \in {0, USER_SPACE_VA} : CallsReach(self, text[1], text[2], text[3], rest)
      /\ in_user_space(text[1], text[2]) = Inside(text[1], text[2])
      /\ ErrorsReach

-----------------------------------------------------------------------------
(* Source text: the languages of the lexemes, on SubSeq(s, i, j).          *)

Escapes(s, i, k) == LET plain == {m \in i .. k - 1 : s[m] # Escape} IN k - 1 - Max(plain \cup {i - 1})
Unescaped(s, i, k) == s[k] = Quote /\ Escapes(s, i, k) % 2 = 0

IsBlank(s, i, j) ==
    \/ \A k \in i .. j : s[k] \in Whitespace
    \/ s[i] = "#" /\ (\A k \in i .. j - 1 : s[k] # "\n") /\ (s[j] = "\n" \/ j = Len(s))
    \/ j > i /\ s[i] = "/" /\ s[i + 1] = "/" /\ (\A k \in i .. j : s[k] # "\n") /\ At(s, j + 1) \in {"\n", "end"}
    \/ /\ j > i + 2 /\ s[i] = "/" /\ s[i + 1] = "*" /\ s[j - 1] = "*" /\ s[j] = "/"
       /\ \A k \in i + 2 .. j - 2 : ~(s[k] = "*" /\ s[k + 1] = "/")
IsName(s, i, j) == s[i] \in Letters /\ \A k \in i .. j : s[k] \in Letters \cup Numerals
IsInt(s, i, j) == \A k \in i .. j : s[k] \in Numerals
\* One character whatever it is, as read_char_literal() has it.
IsChar(s, i, j) == j = i + 2 /\ s[i] = "'" /\ s[j] = "'"
IsString(s, i, j) == j > i /\ s[i] = Quote /\ Unescaped(s, i + 1, j) /\ \A k \in i + 1 .. j - 1 : ~Unescaped(s, i + 1, k)
IsOp(s, i, j) == /\ SubSeq(s, i, j) \in Operators2 \/ (j = i /\ s[i] \in Operators1)
                 /\ ~(s[i] = "/" /\ At(s, i + 1) \in {"/", "*"})

Is(k, s, i, j) == CASE k = "blank" -> IsBlank(s, i, j) [] k = "name" -> IsName(s, i, j) [] k = "int" -> IsInt(s, i, j)
                    [] k = "char" -> IsChar(s, i, j) [] k = "string" -> IsString(s, i, j) [] k = "op" -> IsOp(s, i, j)
Kinds == {"blank", "name", "int", "char", "string", "op"}

\* A character literal that docs/subset_c_spec.md:51-61 gives to the language
\* starts at i: an escape, where "n" stands for the letters.
EscapeAt(s, i) == At(s, i) = "'" /\ At(s, i + 1) = Escape /\ At(s, i + 2) \in {"n", Escape, "'", Quote} /\ At(s, i + 3) = "'"

\* What becomes of it: the quoted quote is the literal of the backslash and a
\* quote that is left over, and every other escape is an error.
EscapeRefused(s, l) == IF s[l.from + 2] = "'" THEN l.kind = "char" /\ l.value = <<Escape>> /\ l.to = l.from + 2
                       ELSE l.kind = "error"

LexedLongest(s) ==
    LET ls == tokenize(s)
    IN  /\ \A n \in DOMAIN ls :
             LET l == ls[n]
                 fits == {j \in l.from .. Len(s) : \E k \in Kinds : Is(k, s, l.from, j)}
             IN  /\ l.from = (IF n = 1 THEN 1 ELSE ls[n - 1].to + 1)
                 /\ IF l.kind = "error" THEN fits = {} ELSE Is(l.kind, s, l.from, l.to) /\ l.to = Max(fits)
                 /\ l.kind \in {"name", "int", "op"} => l.value = SubSeq(s, l.from, l.to)
                 /\ EscapeAt(s, l.from) => EscapeRefused(s, l)
        /\ s # <<>> => Last(ls).to = Len(s)

Lines(name, i) == <<[text |-> name]>> \o [k \in 1 .. Cardinality({j \in {i, i + 1} : text[j] # "-"}) |->
                     [include |-> SelectSeq(SubSeq(text, i, i + 1), LAMBDA c : c # "-")[k]]]
Headers == [h \in {"h1", "h2"} |-> Lines(h, IF h = "h1" THEN 3 ELSE 5)]
Included(lines) == {lines[k].include : k \in {n \in DOMAIN lines : IsInclude(lines[n])}}
Reached == LET direct == Included(Lines("main", 1)) \cap DOMAIN Headers
           IN  direct \cup UNION {Included(Headers[h]) \cap DOMAIN Headers : h \in direct}

\* The lines of every header the source reaches appear once, cycles or not,
\* and no others; a header that cannot be found is an error.
IncludedOnce ==
    LET r == Preprocessed(Headers, Lines("main", 1))
        own(h) == {k \in DOMAIN r.out : ~IsInclude(r.out[k]) /\ r.out[k].text = h}
    IN  /\ \A h \in DOMAIN Headers : Cardinality(own(h)) = IF h \in Reached THEN 1 ELSE 0
        /\ Cardinality(own("main")) = 1 /\ r.processed = Reached
        /\ r.errors > 0 <=> "none" \in Included(Lines("main", 1)) \cup UNION {Included(Headers[h]) : h \in Reached}

\* tokenize() of lexer.py cuts a source text, without gap or overlap, into the
\* longest lexemes of its language at each place, and reports an error exactly
\* where none starts.  That language is not the documented one: the character
\* escapes of docs/subset_c_spec.md:51-61 are none of its literals, and
\* EscapeRefused says what the lexer makes of each of them.  The preprocessor
\* expands each header once.
TokensAreLongest == /\ kind \in {"comment", "literal", "operator"} => LexedLongest(text)
                    /\ kind = "include" /\ Len(text) = 6 => IncludedOnce

\* Values to text, text to tokens, strings in memory and lines on a terminal:
\* PrintedReadsBack, TokensAreLongest, BytesArrive and DialogueShown.
TextConverts == PrintedReadsBack /\ TokensAreLongest /\ BytesArrive /\ DialogueShown

-----------------------------------------------------------------------------
(* The frame buffer: pixel i is at column i % g_width of line i \div g_width. *)

X(i) == i % g_width
Y(i) == i \div g_width
Drawn(colour(_)) == [i \in Pixels \cup {Outside} |-> IF i = Outside THEN 0 ELSE colour(i)]

RectIsPixels(x, y, w, h) ==
    x + w < 2 ^ FB_BITS /\ y + h < 2 ^ FB_BITS =>
      fb_fillrect(Blank(0), x, y, w, h, 1) = Drawn(LAMBDA i : IF X(i) \in x .. x + w - 1 /\ Y(i) \in y .. y + h - 1 THEN 1 ELSE 0)

\* A row of the disc is drawn unless it starts left of the screen.
CircleIsDisc(cx, cy, r) ==
    fb_fillcircle(Blank(0), cx, cy, r, 1) =
      Drawn(LAMBDA i : IF /\ (X(i) - cx) ^ 2 + (Y(i) - cy) ^ 2 <= r * r
                          /\ \A k \in cx + 1 .. r : k * k + (Y(i) - cy) ^ 2 > r * r
                       THEN 1 ELSE 0)

Glyphs == [A |-> {<<0, 0>>, <<1, 1>>}, B |-> {<<0, 1>>}]
Lit(glyph, i, x, y, scale) == /\ X(i) >= x /\ Y(i) >= y
                              /\ <<(X(i) - x) \div scale, (Y(i) - y) \div scale>> \in glyph
InBox(i, x, y, w, h) == X(i) \in x .. x + w - 1 /\ Y(i) \in y .. y + h - 1

ScaledIsEnlarged(x, y, scale) ==
    LET w == FB_FONT_W * scale
        h == FB_FONT_H * scale
    IN  fb_puts_scaled(Blank(0), x, y, <<Glyphs["A"], Glyphs["B"]>>, 1, 2, scale) =
          Drawn(LAMBDA i : IF InBox(i, x, y, w, h) THEN IF Lit(Glyphs["A"], i, x, y, scale) THEN 1 ELSE 2
                           ELSE IF InBox(i, x + w, y, w, h) THEN IF Lit(Glyphs["B"], i, x + w, y, scale) THEN 1 ELSE 2
                           ELSE 0)

\* A terminal that never scrolls: where its cursor is and what each place of
\* its endless page holds.
Page(str) ==
    FoldLeft(LAMBDA p, c :
               LET next == CASE c = "newline" -> [p EXCEPT !.row = @ + 1, !.col = 0]
                             [] c = "return" -> [p EXCEPT !.col = 0]
                             [] c = "tab" -> [p EXCEPT !.col = @ + 4 - (@ % 4)]
                             [] OTHER -> [p EXCEPT !.col = @ + 1, !.at = (<<p.row, p.col>> :> c) @@ @]
               IN  IF next.col >= con_max_col THEN [next EXCEPT !.row = @ + 1, !.col = 0] ELSE next,
             [row |-> 0, col |-> 0, at |-> <<>>], str)

Typed(str) == [k \in DOMAIN str |-> [kind |-> str[k], cells |-> IF str[k] \in DOMAIN Glyphs THEN Glyphs[str[k]] ELSE {}]]

ShowsLastRows(str) ==
    LET con == fb_console_puts(fb_console_init(Blank(0), 2), Typed(str), 1, 2)
        page == Page(str)
        top == Max({0, page.row - con_max_row + 1})
        cell(i) == <<top + Y(i) \div FB_FONT_H, X(i) \div FB_FONT_W>>
        glyph(i) == Glyphs[page.at[cell(i)]]
    IN  /\ con.row = page.row - top /\ con.col = page.col
        /\ con.frame = Drawn(LAMBDA i : IF /\ cell(i) \in DOMAIN page.at
                                           /\ <<X(i) % FB_FONT_W, Y(i) % FB_FONT_H>> \in glyph(i)
                                        THEN 1 ELSE 2)
        /\ Len(str) <= con_max_col /\ (\A k \in DOMAIN str : str[k] \in DOMAIN Glyphs) =>
             con.frame = fb_print(Blank(2), 0, 0, [k \in DOMAIN str |-> Glyphs[str[k]]], 1, 2)

\* The drawing primitives of fb.c set the pixels of the shape inside the
\* screen and no other, whatever the alignment of a row of paired stores; the
\* scrolling console shows the last rows of the page that was written to it.
FrameSound ==
    /\ kind = "rect" /\ Len(text) = 2 =>
         fb_putpixel(Blank(0), text[1], text[2], 1) = fb_fillrect(Blank(0), text[1], text[2], 1, 1, 1)
    /\ kind = "rect" /\ Len(text) = 4 => RectIsPixels(text[1], text[2], text[3], text[4])
    /\ kind = "circle" /\ Len(text) = 3 => /\ CircleIsDisc(text[1], text[2], text[3])
                                           /\ ScaledIsEnlarged(text[1], text[2], text[3])
    /\ kind = "screen" => ShowsLastRows(text)

-----------------------------------------------------------------------------
\* As long as the first block of the pool is not handed out, the blocks a
\* program holds and the free ones of the ring make up the pool without
\* overlap, no two free blocks touch, and malloc() fails only when no free
\* block is large enough (stdlib.c; the ring has no block that always stays).
HeapSound ==
    kind = "heap" /\ Anchored =>
      /\ Partitioned(heap, held)
      /\ \A u, v \in Ring(heap) : u + heap.size[u] # v
      /\ \A n \in 1 .. POOL * HDR : malloc(heap, n).ptr = NULL_PTR <=> \A u \in Ring(heap) : heap.size[u] < need(n)
=============================================================================
