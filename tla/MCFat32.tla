------------------------------- MODULE MCFat32 ------------------------------
EXTENDS Fat32

\* Names: "a" and "b.c" when both parts are one character wide.
ShortNames == {<<97>>, <<98, 46, 99>>}

FileEntry(name, cluster, size) ==
    [raw |-> NameToRaw(name), is_dir |-> FALSE, cluster |-> cluster, size |-> size]
EndEntry == [raw |-> END, is_dir |-> FALSE, cluster |-> 0, size |-> 0]

\* The file "a" of three units in clusters 2 and 3; the rest is free.
OneFileDir == [e \in Entry |-> IF e = 1 THEN FileEntry(<<97>>, 2, 3) ELSE EndEntry]
OneFileFat == [c \in Cluster |-> IF c = 2 THEN 3 ELSE IF c = 3 THEN FAT32_EOC ELSE 0]
ZeroData == [c \in Cluster |-> [j \in 1 .. bytes_per_cluster |-> 0]]
ShortWrites == {<<1, 1, 1>>}
PlainFlags == {{}, {"creat", "trunc"}, {"append"}}
NoFaults == {-1}
AnyFault == -1 .. 25

\* A directory "a" and no file.
DirectoryDir == [e \in Entry |-> IF e = 1 THEN [FileEntry(<<97>>, 2, 0) EXCEPT !.is_dir = TRUE] ELSE EndEntry]

\* "abc.a" is longer than the component buffer of resolve_path().
LongNames == {<<97>>, <<97, 98, 99, 46, 97>>}
=============================================================================
