------------------------------ MODULE Queries ------------------------------
(***************************************************************************)
(* What the server asks of its operating system: src/server/os_utils.cpp   *)
(* and the handlers of requests.  A machine is a record of what the calls  *)
(* of Windows would return on it:                                          *)
(*   native, version, bias, time, uptime, total, free  of the system: a    *)
(*           name, a number of minutes, and words                          *)
(*   drives  letters (1 for A) to a kind and a free size, <<>> if unknown  *)
(*   files, registry  paths to a security descriptor: its ACEs, if it has  *)
(*           a DACL, the owner's SID and the names of the owner's account  *)
(***************************************************************************)
EXTENDS Protocol

SID_SIZE == 32   \* AccessControlEntry::sid and OwnerInfo::sid

\* enum OSType, by the machine; what it does not name is OS_UNKNOWN.
get_type(m) == Word(1, Index(<<"I386", "AMD64", "ARM", "ARM64">>, m.native) - 1)

\* Two numbers of 32 bits are cut to 16.
get_version(m) == [major |-> SubSeq(m.version[1], 3, 4), minor |-> SubSeq(m.version[2], 3, 4)]

\* A division of C++ drops the fraction, towards zero.
Quotient(n, d) == IF n < 0 THEN -((-n) \div d) ELSE n \div d
Int8(n) == <<n % 256>>
get_timezone_hours(m) == Int8(Quotient(-1 * m.bias, 60))

get_meminfo(m) == [free_bytes |-> m.free, total_bytes |-> m.total]

\* enum DriveType, by what GetDriveTypeA returns.
DriveType(kind) ==
    CASE kind = "FIXED"                    -> Word(1, 0)
      [] kind = "REMOTE"                   -> Word(1, 1)
      [] kind \in {"REMOVABLE", "CDROM"}   -> Word(1, 2)
      [] kind = "RAMDISK"                  -> Word(1, 3)
      [] OTHER                             -> Word(1, 4)

\* What a loop from 1 to n keeps of the numbers in S.
Visited(n, S) ==
    LET Upto[i \in 0 .. n] ==
          IF i = 0 THEN <<>>
          ELSE IF i \in S THEN Append(Upto[i - 1], i) ELSE Upto[i - 1]
    IN  Upto[n]

\* The drives in the order of their letters: "A:\" and so on.
get_drives(m) ==
    LET letters == Visited(26, DOMAIN m.drives)
        Drive(l) == [type |-> DriveType(m.drives[l].kind), name |-> <<64 + l, 58, 92>>,
                     free_bytes |-> IF m.drives[l].free = <<>> THEN Word(8, 0)
                                    ELSE m.drives[l].free]
    IN  [i \in DOMAIN letters |-> Drive(letters[i])]
-----------------------------------------------------------------------------
\* GetNamedSecurityInfoW, for a file and then for a key of the registry.
Exists(m, path) == path \in DOMAIN m.files \cup DOMAIN m.registry
Descriptor(m, path) == IF path \in DOMAIN m.files THEN m.files[path] ELSE m.registry[path]

\* SidAsFound leaves what is behind the SID as it was on the stack.
SidAsFound(sid) == Cells(sid, 1, SID_SIZE)

\* A SID is copied to the start of an array that is zero.
Sid(sid) == sid \o [i \in 1 .. SID_SIZE - Len(sid) |-> 0]

\* AnyTold takes every other type of entry for one that denies.
AnyTold(ace) == TRUE

\* Only what is allowed or denied is told; who inherits it is told by one flag.
Told(ace) == ace.type \in {"ALLOWED", "DENIED"}
Scope(flags) ==
    IF "OBJECT_INHERIT" \in flags THEN Word(1, 1)
    ELSE IF "CONTAINER_INHERIT" \in flags THEN Word(1, 2) ELSE Word(1, 0)
Entry(ace) == [accessMask |-> ace.mask, aceType |-> Word(1, IF ace.type = "ALLOWED" THEN 0 ELSE 1),
               scope |-> Scope(ace.flags), sid |-> Sid(ace.sid)]

get_access_info(m, path) ==
    IF ~Exists(m, path) THEN <<>>
    ELSE LET dacl == Descriptor(m, path).dacl
             told == Visited(Len(dacl), {i \in DOMAIN dacl : Told(dacl[i])})
         IN  [i \in DOMAIN told |-> Entry(dacl[told[i]])]

\* An account that is not found has no name, and an owner without a SID nothing.
get_owner_info(m, path) ==
    LET d == Descriptor(m, path)
    IN  IF ~Exists(m, path) \/ d.sid = <<>>
        THEN [ownerDomain |-> <<>>, ownerName |-> <<>>, sid |-> Sid(<<>>)]
        ELSE [ownerDomain |-> d.domain, ownerName |-> d.name, sid |-> Sid(d.sid)]

\* Without a DACL a null pointer is read, and a longer SID is copied past its array.
NullDacl(m, path) == Exists(m, path) /\ ~Descriptor(m, path).hasDacl
LongSid(m, req) ==
    /\ Exists(m, req.arg)
    /\ LET d == Descriptor(m, req.arg) IN
       IF req.type = "owner" THEN Len(d.sid) > SID_SIZE
       ELSE \E i \in DOMAIN d.dacl : Told(d.dacl[i]) /\ Len(d.dacl[i].sid) > SID_SIZE
Undefined(m, req) ==
    \/ req.type = "rights" /\ NullDacl(m, req.arg)
    \/ req.type \in {"rights", "owner"} /\ LongSid(m, req)
-----------------------------------------------------------------------------
HandleGetTime(m) == [time_ms |-> m.time, time_zone |-> get_timezone_hours(m)]

\* The handler of each type of request.  The time since the start is told as a
\* time without a zone.
Handle(m, req) ==
    CASE req.type = "os" ->
           [type |-> "os", content |-> [type |-> get_type(m), major |-> get_version(m).major,
                                        minor |-> get_version(m).minor]]
      [] req.type = "time"   -> [type |-> "time", content |-> HandleGetTime(m)]
      [] req.type = "uptime" -> [type |-> "time", content |->
                                   [time_ms |-> m.uptime, time_zone |-> Int8(0)]]
      [] req.type = "memory" -> [type |-> "memory", content |-> get_meminfo(m)]
      [] req.type = "drives" -> [type |-> "drives", content |-> get_drives(m)]
      [] req.type = "rights" -> [type |-> "rights", content |-> get_access_info(m, req.arg)]
      [] req.type = "owner"  -> [type |-> "owner", content |-> get_owner_info(m, req.arg)]
=============================================================================
