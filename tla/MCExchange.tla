----------------------------- MODULE MCExchange -----------------------------
(***************************************************************************)
(* Machines, lines and buffers of the real size for Exchange.              *)
(***************************************************************************)
EXTENDS Exchange

Repeat(x, n) == [i \in 1 .. n |-> x]
SidOf(n) == [i \in 1 .. n |-> i]

\* Characters, one of them outside of ASCII, and paths.
A == <<0, 97>>
Zh == <<4, 22>>
Short == <<A>>
Spaced == <<A, SPACE, SPACE, Zh>>
Longest == Repeat(Zh, 239)
TooLong == Repeat(Zh, 240)

Ace(type, flags, sid) == [type |-> type, mask |-> <<1, 31, 1, 255>>, flags |-> flags, sid |-> SidOf(sid)]
Various == <<Ace("ALLOWED", {"OBJECT_INHERIT", "CONTAINER_INHERIT"}, 28), Ace("AUDIT", {}, 40),
             Ace("DENIED", {"CONTAINER_INHERIT"}, 12), Ace("ALLOWED", {}, 32)>>

Described(dacl, sid, name) ==
    [hasDacl |-> TRUE, dacl |-> dacl, sid |-> SidOf(sid), domain |-> <<78, 84>>, name |-> name]
Bare == [Described(<<>>, 16, <<>>) EXCEPT !.hasDacl = FALSE]

Drive(kind, free) == [kind |-> kind, free |-> free]

Desktop == [native |-> "AMD64", version |-> <<<<0, 0, 0, 10>>, <<0, 1, 0, 2>>>>, bias |-> -330,
            time |-> Word(8, 100799999), uptime |-> Word(8, 90061500), total |-> <<0, 0, 0, 3, 255, 1, 2, 0>>,
            free |-> <<0, 0, 0, 1, 7, 6, 5, 4>>,
            drives |-> [l \in {1, 3, 26} |->
                          CASE l = 1  -> Drive("CDROM", <<>>)
                            [] l = 3  -> Drive("FIXED", <<0, 0, 0, 9, 8, 7, 6, 5>>)
                            [] l = 26 -> Drive("REMOTE", <<0, 0, 1, 0, 0, 0, 0, 1>>)],
            files |-> [p \in {Short, Longest} |->
                         IF p = Short THEN Described(Various, 28, Repeat(120, 13))
                         ELSE Described(Repeat(Various[1], 10), 32, Repeat(120, 255))],
            registry |-> [p \in {Short, Spaced} |-> Described(Repeat(Various[3], 11), 12, <<>>)]]

\* As many drives as fit, and a volume without security.
Server23 == [Desktop EXCEPT !.native = "ARM64", !.bias = 210, !.time = Word(8, 172799000), !.uptime = Word(8, 999),
                !.drives = [l \in 1 .. 23 |-> Drive("RAMDISK", <<0, 0, 0, 0, 0, 0, l, 0>>)],
                !.files = [p \in {Spaced} |-> Bare],
                !.registry = [p \in {Short} |-> Described(<<>>, 0, <<>>)]]

\* One drive more, a SID that is too long, and an owner with the longest names.
Server24 == [Server23 EXCEPT !.native = "IA64", !.bias = -840, !.time = Word(8, 86400000),
                !.drives = [l \in 3 .. 26 |-> Drive("UNKNOWN", <<0, 0, 0, 0, 0, 0, 0, l>>)],
                !.files = [p \in {Short, Spaced} |->
                    IF p = Short THEN Described(<<Ace("DENIED", {}, 48)>>, 48, <<120>>)
                    ELSE [Described(<<>>, 28, Repeat(120, 255)) EXCEPT !.domain = Repeat(78, 176)]],
                !.registry = [p \in {} |-> Bare]]

SomeMachines == {Desktop, Server23, Server24}
-----------------------------------------------------------------------------
Asks(type, rest, arg) ==
    [keys |-> <<NameOf(type)>> \o rest, meant |-> [type |-> type, arg |-> arg]]
Quoted(path) == <<SPACE, QUOTE>> \o path \o <<QUOTE>>

SomeLines ==
    { Asks(t, <<>>, <<>>) : t \in {"os", "time", "uptime", "memory", "drives"} }
    \cup { Asks("rights", <<SPACE, SPACE>> \o Short \o <<SPACE, A>>, Short),
           Asks("rights", Quoted(Spaced), Spaced),
           Asks("owner", <<SPACE, A, QUOTE, SPACE, SPACE, QUOTE, Zh>>, Spaced),
           Asks("owner", Quoted(Short), Short),
           Asks("owner", <<SPACE>> \o Longest, Longest),
           Asks("rights", <<SPACE>> \o Longest, Longest),
           Asks("rights", <<SPACE>> \o TooLong, TooLong),
           [keys |-> <<NameOf("owner"), SPACE, QUOTE, QUOTE>>, meant |-> NoRequest],
           [keys |-> <<Help>>, meant |-> NoRequest] }

SomeCuts == {1, 2, 6, 7, 8, 9, 30, 512}
Blob(n) == [i \in 1 .. n |-> 200]
Blob276 == Blob(276)
Blob268 == Blob(268)
=============================================================================
