-------------------------- MODULE IdentifierProofs -------------------------
(***************************************************************************)
(* The identifier of an interface never changes, for every set of          *)
(* instances, every supply of random numbers and any number of             *)
(* disturbances.                                                           *)
(***************************************************************************)
EXTENDS Processes, TLAPS

BootState ==
    [pc : {"off", "read", "create", "write", "done"}, key : {"iaid", "duid"},
     iaid : Contents("iaid"), duid : Contents("duid")]

ClientIdShape ==
    /\ disk \in [duid : Files("duid"), iaid : [Instances -> Files("iaid")]]
    /\ boot \in [Instances -> BootState]
    /\ ids \in [Instances -> Identifiers]
    /\ raced \in BOOLEAN

Making(b) == b.pc \in {"create", "write"}

Identifier(i) == <<255>> \o disk.iaid[i].data \o disk.duid.data

\* An identifier in use is the one in the files.
InTheFiles ==
    \A i \in Instances :
        ids[i] # <<>> => /\ disk.iaid[i].there /\ disk.duid.there
                         /\ ids[i] = Identifier(i)

\* A file that an instance is making is not yet part of any identifier, and
\* no two instances make the DUID.
MadeOnce ==
    \A i \in Instances : Making(boot[i]) =>
        /\ boot[i].key = "iaid" => ids[i] = <<>>
        /\ boot[i].key = "duid" =>
              \A j \in Instances :
                  /\ ids[j] = <<>>
                  /\ j # i => ~(Making(boot[j]) /\ boot[j].key = "duid")

\* The IAID in memory is the one of the file.
IaidKept ==
    \A i \in Instances :
        (boot[i].pc \in {"read", "create", "write"} /\ boot[i].key = "duid") =>
            disk.iaid[i].there /\ boot[i].iaid = disk.iaid[i].data

StableInv == ClientIdShape /\ (~raced => InTheFiles /\ MadeOnce /\ IaidKept)

-----------------------------------------------------------------------------

LEMMA StableInit == Init => StableInv
<1> SUFFICES ASSUME Init PROVE StableInv
    OBVIOUS
<1>1. ClientIdShape
  <2>1. \A i \in Instances : [there |-> TRUE, data |-> CHOOSE g \in generate_iaid : TRUE] \in Files("iaid")
    BY ClientIdAssumption DEF Files, Contents, generate_iaid
  <2>2. Missing \in Files("iaid") /\ Missing \in Files("duid")
    BY DEF Files
  <2>3. disk \in [duid : Files("duid"), iaid : [Instances -> Files("iaid")]]
    BY <2>1, <2>2 DEF Init, ClientIdInit
  <2>4. boot \in [Instances -> BootState]
    BY DEF Init, ClientIdInit, Off, BootState, Contents
  <2>5. ids \in [Instances -> Identifiers]
    BY DEF Init, ClientIdInit, Identifiers
  <2> QED
    BY <2>3, <2>4, <2>5, ZenonT(60) DEF Init, ClientIdInit, ClientIdShape
<1>2. InTheFiles /\ MadeOnce /\ IaidKept
    BY DEF Init, ClientIdInit, InTheFiles, MadeOnce, IaidKept, Off, Making
<1> QED
    BY <1>1, <1>2 DEF StableInv

-----------------------------------------------------------------------------
(* Steps of get_clientid *)

\* Instances that start or end, with the files left alone.
LEMMA Restarted ==
    ASSUME StableInv, UNCHANGED <<disk, ids, raced>>,
           boot' \in [Instances -> BootState],
           \A i \in Instances :
               \/ boot'[i] = boot[i]
               \/ /\ boot'[i].key = "iaid"
                  /\ ~Making(boot'[i])
    PROVE  StableInv'
<1>1. ClientIdShape'
    BY DEF StableInv, ClientIdShape
<1>2. ASSUME ~raced' PROVE (InTheFiles /\ MadeOnce /\ IaidKept)'
  <2>1. InTheFiles /\ MadeOnce /\ IaidKept
    BY <1>2 DEF StableInv
  <2>2. InTheFiles'
    BY <2>1, ZenonT(60) DEF InTheFiles, Identifier
  <2>3. MadeOnce'
    BY <2>1 DEF MadeOnce
  <2>4. IaidKept'
    BY <2>1 DEF IaidKept
  <2> QED
    BY <2>2, <2>3, <2>4
<1> QED
    BY <1>1, <1>2 DEF StableInv

LEMMA OffIsBoot == Off \in BootState /\ Booted \in BootState
    BY DEF Off, Booted, BootState, Contents

\* A process that ends forgets what it was making.
LEMMA DiesKept ==
    ASSUME StableInv, UNCHANGED <<disk, ids, raced>>,
           NEW i \in Instances, Dies(i)
    PROVE  StableInv'
<1>1. boot \in [Instances -> BootState]
    BY DEF StableInv, ClientIdShape
<1>2. boot' \in [Instances -> BootState]
    BY <1>1, OffIsBoot DEF Dies
<1>3. \A j \in Instances : boot'[j] = boot[j] \/ boot'[j] = Off
    BY <1>1 DEF Dies
<1>4. Off.key = "iaid" /\ ~Making(Off)
    BY DEF Off, Making
<1> QED
    BY <1>2, <1>3, <1>4, Restarted

LEMMA StartKept ==
    ASSUME StableInv, NEW i \in Instances, NEW configured \in BOOLEAN,
           get_clientid(i, configured)
    PROVE  StableInv'
<1> DEFINE start == [Off EXCEPT !.pc = "read"]
<1>1. boot \in [Instances -> BootState]
    BY DEF StableInv, ClientIdShape
<1>2. start \in BootState
    BY DEF Off, BootState, Contents
<1>3. boot' \in [Instances -> BootState]
    BY <1>1, <1>2, OffIsBoot DEF get_clientid
<1>4. \A j \in Instances : boot'[j] = boot[j] \/ boot'[j] \in {start, Booted}
    BY <1>1 DEF get_clientid
<1>5. \A b \in {start, Booted} : b.key = "iaid" /\ ~Making(b)
    BY DEF Off, Booted, Making
<1>6. UNCHANGED <<disk, ids, raced>>
    BY DEF get_clientid
<1> QED
    BY <1>3, <1>4, <1>5, <1>6, Restarted, ZenonT(60)

Stable == ~raced' => \A i \in Instances : ids[i] # <<>> => ids'[i] = ids[i]

\* The part of its identifier that an instance has is the one in its file:
\* the invariant holds with the next part, or with the identifier.
LEMMA HaveKept ==
    ASSUME ClientIdShape, ClientIdShape', raced' \in BOOLEAN,
           NEW i \in Instances, NEW data, Have(i, data),
           boot[i].pc \in {"read", "write"},
           disk'.iaid[i].there,
           boot[i].key = "iaid" => data = disk'.iaid[i].data,
           boot[i].key = "duid" =>
               /\ disk'.duid.there /\ data = disk'.duid.data
               /\ boot[i].iaid = disk'.iaid[i].data,
           \A j \in Instances \ {i} : disk'.iaid[j] = disk.iaid[j],
           IaidKept, MadeOnce,
           \A j \in Instances : ids[j] # <<>> =>
               /\ disk'.iaid[j].there /\ disk'.duid.there
               /\ ids[j] = Identifier(j)',
           \A j \in Instances \ {i} :
               boot[i].key = "duid" => ~(Making(boot[j]) /\ boot[j].key = "duid")
    PROVE  (InTheFiles /\ MadeOnce /\ IaidKept)' /\ Stable
<1>1. boot \in [Instances -> BootState] /\ ids \in [Instances -> Identifiers]
    BY DEF ClientIdShape
<1>2. CASE boot[i].key = "iaid"
  <2>1. /\ ids' = ids
        /\ \A j \in Instances \ {i} : boot'[j] = boot[j]
        /\ boot'[i].pc = "read" /\ boot'[i].key = "duid" /\ boot'[i].iaid = data
    <3> DEFINE next == [boot[i] EXCEPT !.pc = "read", !.key = "duid",
                                       !.iaid = data]
    <3>1. boot' = [boot EXCEPT ![i] = next] /\ ids' = ids
      BY <1>2 DEF Have
    <3>2. boot[i] \in BootState
      BY <1>1
    <3>3. next.pc = "read" /\ next.key = "duid" /\ next.iaid = data
      BY <3>2 DEF BootState
    <3> HIDE DEF next
    <3> QED
      BY <1>1, <3>1, <3>3
  <2>2. InTheFiles'
    BY <2>1 DEF InTheFiles
  <2>3. MadeOnce'
    BY <2>1 DEF MadeOnce, Making
  <2>4. IaidKept'
    BY <1>2, <2>1 DEF IaidKept
  <2> QED
    BY <2>1, <2>2, <2>3, <2>4 DEF Stable
<1>3. CASE boot[i].key = "duid"
  <2>1. /\ ids'[i] = <<255>> \o boot[i].iaid \o data
        /\ \A j \in Instances \ {i} : ids'[j] = ids[j] /\ boot'[j] = boot[j]
        /\ boot'[i] = Booted
    BY <1>1, <1>3 DEF Have
  <2>2. ids'[i] = Identifier(i)'
    BY <1>3, <2>1, ZenonT(60) DEF Identifier
  <2>3. InTheFiles'
    BY <1>3, <2>1, <2>2 DEF InTheFiles
  <2>4. Booted.pc = "done"
    BY DEF Booted, Off
  <2>5. MadeOnce'
    BY <1>3, <2>1, <2>4 DEF MadeOnce, Making
  <2>6. IaidKept'
    BY <2>1, <2>4 DEF IaidKept
  <2>7. Stable
    BY <2>1, <2>2 DEF Stable
  <2> QED
    BY <2>3, <2>5, <2>6, <2>7
<1> QED
    BY <1>1, <1>2, <1>3 DEF BootState

LEMMA IdentifierTyped ==
    ASSUME NEW a \in Contents("iaid"), NEW d \in Contents("duid")
    PROVE  <<255>> \o a \o d \in Identifiers
<1> DEFINE Joined(x, y) == <<255>> \o x \o y
<1>1. Identifiers =
        {<<>>} \cup {Joined(x, y) : x \in Contents("iaid"), y \in Contents("duid")}
    BY DEF Identifiers
<1> HIDE DEF Joined
<1>2. Joined(a, d) \in Identifiers
    BY <1>1
<1> QED
    BY <1>2 DEF Joined

LEMMA HaveShape ==
    ASSUME ClientIdShape, NEW i \in Instances, NEW data,
           data \in Contents(boot[i].key), Have(i, data)
    PROVE  /\ boot' \in [Instances -> BootState]
           /\ ids' \in [Instances -> Identifiers]
<1>1. boot \in [Instances -> BootState] /\ boot[i] \in BootState
    BY DEF ClientIdShape
<1>2. ids \in [Instances -> Identifiers]
    BY DEF ClientIdShape
<1>3. CASE boot[i].key = "iaid"
  <2> DEFINE next == [boot[i] EXCEPT !.pc = "read", !.key = "duid", !.iaid = data]
  <2>1. boot' = [boot EXCEPT ![i] = next] /\ ids' = ids
    BY <1>3 DEF Have
  <2>2. next \in BootState
    BY <1>1, <1>3, ZenonT(60) DEF BootState
  <2> HIDE DEF next
  <2> QED
    BY <1>1, <1>2, <2>1, <2>2
<1>4. CASE boot[i].key = "duid"
  <2> DEFINE id == <<255>> \o boot[i].iaid \o data
  <2>1. boot' = [boot EXCEPT ![i] = Booted] /\ ids' = [ids EXCEPT ![i] = id]
    BY <1>4 DEF Have
  <2>2. boot[i].iaid \in Contents("iaid") /\ data \in Contents("duid")
    BY <1>1, <1>4 DEF BootState
  <2>3. id \in Identifiers
    BY <2>2, IdentifierTyped
  <2> HIDE DEF id
  <2> QED
    BY <1>1, <1>2, <2>1, <2>3, OffIsBoot
<1> QED
    BY <1>1, <1>3, <1>4 DEF BootState

LEMMA FilesTyped ==
    ASSUME ClientIdShape, NEW i \in Instances
    PROVE  /\ disk.duid \in Files("duid") /\ disk.iaid[i] \in Files("iaid")
           /\ disk.duid.data \in Contents("duid")
           /\ disk.iaid[i].data \in Contents("iaid")
<1>1. disk.duid \in Files("duid") /\ disk.iaid[i] \in Files("iaid")
    BY DEF ClientIdShape
<1>2. \A k \in {"iaid", "duid"} : \A f \in Files(k) : f.data \in Contents(k)
  <2> SUFFICES ASSUME NEW k \in {"iaid", "duid"}, NEW f \in Files(k)
               PROVE  f.data \in Contents(k)
    OBVIOUS
  <2>1. Missing.data \in Contents(k)
    BY DEF Missing, Contents
  <2> QED
    BY <2>1, ZenonT(60) DEF Files
<1> QED
    BY <1>1, <1>2

LEMMA ReadKept ==
    ASSUME StableInv, NEW i \in Instances, OpenForReading(i)
    PROVE  StableInv' /\ Stable
<1> DEFINE k == boot[i].key
<1>1. ClientIdShape /\ raced \in BOOLEAN /\ boot[i] \in BootState
    BY DEF StableInv, ClientIdShape
<1>2. k \in {"iaid", "duid"} /\ File(i, k) \in Files(k) /\ File(i, k).data \in Contents(k)
    BY <1>1, FilesTyped DEF File, BootState
<1>3. disk' = disk /\ boot[i].pc = "read" /\ raced' \in BOOLEAN
    BY <1>1 DEF OpenForReading
<1>4. ~raced' => ~raced /\ (k = "duid" => ~DuidInTheMaking(i))
    BY <1>1, ZenonT(60) DEF OpenForReading
<1>5. CASE File(i, k).there /\ Have(i, File(i, k).data)
  <2>1. ClientIdShape'
    BY <1>1, <1>2, <1>3, <1>5, HaveShape DEF ClientIdShape
  <2>2. ASSUME ~raced' PROVE (InTheFiles /\ MadeOnce /\ IaidKept)' /\ Stable
    <3>1. InTheFiles /\ MadeOnce /\ IaidKept
      BY <1>4, <2>2 DEF StableInv
    <3>2. k = "iaid" => disk.iaid[i].there /\ File(i, k).data = disk.iaid[i].data
      BY <1>5 DEF File
    <3>3. k = "duid" => /\ disk.duid.there /\ File(i, k).data = disk.duid.data
                        /\ disk.iaid[i].there /\ boot[i].iaid = disk.iaid[i].data
      BY <1>3, <1>5, <3>1 DEF File, IaidKept
    <3>4. \A j \in Instances : ids[j] # <<>> =>
               /\ disk'.iaid[j].there /\ disk'.duid.there
               /\ ids[j] = Identifier(j)'
      BY <1>3, <3>1, ZenonT(60) DEF InTheFiles, Identifier
    <3>5. \A j \in Instances \ {i} :
               k = "duid" => ~(Making(boot[j]) /\ boot[j].key = "duid")
      BY <1>4, <2>2 DEF DuidInTheMaking, Making
    <3>6. disk'.iaid[i].there
      BY <1>2, <1>3, <3>2, <3>3
    <3> QED
      BY <1>1, <1>3, <1>5, <2>1, <3>1, <3>2, <3>3, <3>4, <3>5, <3>6, HaveKept
  <2> QED
    BY <2>1, <2>2 DEF StableInv, Stable
<1>6. CASE Dies(i) /\ UNCHANGED ids
  <2>1. boot' \in [Instances -> BootState]
    BY <1>1, <1>6, OffIsBoot DEF Dies, ClientIdShape
  <2>2. ClientIdShape'
    BY <1>1, <1>3, <1>6, <2>1 DEF ClientIdShape
  <2>3. CASE raced'
    BY <2>2, <2>3 DEF StableInv, Stable
  <2>4. CASE ~raced'
    <3>1. raced' = raced
      BY <1>1, <1>3, <1>4, <2>4
    <3> QED
      BY <1>3, <1>6, <3>1, DiesKept DEF Stable
  <2> QED
    BY <2>3, <2>4
<1>7. CASE /\ ~File(i, k).there /\ UNCHANGED ids
           /\ \E g \in Contents(k) \ {<<>>} : boot' = [boot EXCEPT ![i] = Keep(@, g)]
  <2> PICK g \in Contents(k) \ {<<>>} : boot' = [boot EXCEPT ![i] = Keep(@, g)]
    BY <1>7, ZenonT(60)
  <2> DEFINE next == Keep(boot[i], g)
  <2>1. /\ next \in BootState /\ next.key = k /\ next.pc = "create"
        /\ k = "duid" => next.iaid = boot[i].iaid
    BY <1>1, <1>2, ZenonT(60) DEF Keep, BootState
  <2>2. boot' = [boot EXCEPT ![i] = next]
    OBVIOUS
  <2> HIDE DEF next
  <2>3. boot \in [Instances -> BootState]
    BY <1>1 DEF ClientIdShape
  <2>4. /\ boot' \in [Instances -> BootState] /\ boot'[i] = next
        /\ \A j \in Instances \ {i} : boot'[j] = boot[j]
    BY <2>1, <2>2, <2>3
  <2>5. ClientIdShape'
    BY <1>1, <1>3, <1>7, <2>4 DEF ClientIdShape
  <2>6. ASSUME ~raced' PROVE (InTheFiles /\ MadeOnce /\ IaidKept)'
    <3>1. InTheFiles /\ MadeOnce /\ IaidKept
      BY <1>4, <2>6 DEF StableInv
    <3>2. InTheFiles'
      BY <1>3, <1>7, <3>1, ZenonT(60) DEF InTheFiles, Identifier
    <3>3. k = "iaid" => ids[i] = <<>>
      BY <1>7, <3>1 DEF InTheFiles, File
    <3>4. k = "duid" => \A j \in Instances :
              ids[j] = <<>> /\ (j # i => ~(Making(boot[j]) /\ boot[j].key = "duid"))
      BY <1>4, <1>7, <2>6, <3>1 DEF InTheFiles, File, DuidInTheMaking, Making
    <3>5. MadeOnce'
      <4> SUFFICES ASSUME NEW j \in Instances, Making(boot'[j])
                   PROVE  /\ boot'[j].key = "iaid" => ids[j] = <<>>
                          /\ boot'[j].key = "duid" => \A h \in Instances :
                                /\ ids[h] = <<>>
                                /\ h # j => ~(Making(boot'[h]) /\ boot'[h].key = "duid")
        BY <1>7 DEF MadeOnce
      <4>1. CASE j = i
        BY <2>1, <2>4, <3>3, <3>4, <4>1
      <4>2. CASE j # i
        BY <2>1, <2>4, <3>1, <3>4, <4>2 DEF MadeOnce
      <4> QED
        BY <4>1, <4>2
    <3>6. IaidKept'
      BY <1>3, <2>1, <2>4, <3>1 DEF IaidKept
    <3> QED
      BY <3>2, <3>5, <3>6
  <2> QED
    BY <1>7, <2>5, <2>6 DEF StableInv, Stable
<1> QED
    BY <1>5, <1>6, <1>7 DEF OpenForReading

LEMMA StoreFile ==
    ASSUME ClientIdShape, NEW i \in Instances, NEW k \in {"iaid", "duid"},
           NEW data \in Contents(k), disk' = Store(i, k, data)
    PROVE  /\ disk' \in [duid : Files("duid"), iaid : [Instances -> Files("iaid")]]
           /\ k = "iaid" => /\ disk'.duid = disk.duid
                            /\ disk'.iaid[i] = [there |-> TRUE, data |-> data]
                            /\ \A j \in Instances \ {i} : disk'.iaid[j] = disk.iaid[j]
           /\ k = "duid" => /\ disk'.iaid = disk.iaid
                            /\ disk'.duid = [there |-> TRUE, data |-> data]
<1> DEFINE f == [there |-> TRUE, data |-> data]
<1>1. f \in Files(k)
    BY DEF Files
<1>2. disk \in [duid : Files("duid"), iaid : [Instances -> Files("iaid")]]
    BY DEF ClientIdShape
<1>3. disk' = IF k = "duid" THEN [disk EXCEPT !.duid = f]
              ELSE [disk EXCEPT !.iaid[i] = f]
    BY DEF Store
<1> HIDE DEF f
<1>4. CASE k = "iaid"
  <2> DEFINE all == [disk.iaid EXCEPT ![i] = f]
  <2>1. disk' = [disk EXCEPT !.iaid = all]
    BY <1>3, <1>4
  <2>2. /\ all \in [Instances -> Files("iaid")] /\ all[i] = f
        /\ \A j \in Instances \ {i} : all[j] = disk.iaid[j]
    BY <1>1, <1>2, <1>4
  <2> HIDE DEF all
  <2>3. disk'.iaid = all /\ disk'.duid = disk.duid
    BY <1>2, <2>1
  <2>4. disk' \in [duid : Files("duid"), iaid : [Instances -> Files("iaid")]]
    BY <1>2, <2>1, <2>2
  <2> QED
    BY <1>4, <2>2, <2>3, <2>4, ZenonT(60) DEF f
<1>5. CASE k = "duid"
    BY <1>1, <1>2, <1>3, <1>5, ZenonT(60) DEF f
<1> QED
    BY <1>4, <1>5

LEMMA CreateKept ==
    ASSUME StableInv, NEW i \in Instances, OpenForWriting(i)
    PROVE  StableInv' /\ Stable
<1> DEFINE k == boot[i].key
<1>1. /\ ClientIdShape /\ raced \in BOOLEAN /\ boot[i] \in BootState
      /\ boot \in [Instances -> BootState]
    BY DEF StableInv, ClientIdShape
<1>2. /\ k \in {"iaid", "duid"} /\ <<>> \in Contents(k) /\ boot[i].pc = "create"
      /\ ids' = ids /\ raced' = raced
    BY <1>1 DEF BootState, Contents, OpenForWriting
<1>3. CASE Dies(i) /\ UNCHANGED disk
    BY <1>2, <1>3, DiesKept DEF Stable
<1>4. CASE disk' = Store(i, k, <<>>) /\ boot' = [boot EXCEPT ![i].pc = "write"]
  <2> DEFINE next == [boot[i] EXCEPT !.pc = "write"]
  <2>1. /\ next \in BootState /\ next.pc = "write" /\ next.key = k
        /\ next.iaid = boot[i].iaid
    BY <1>1 DEF BootState
  <2>2. boot' = [boot EXCEPT ![i] = next]
    BY <1>4
  <2> HIDE DEF next
  <2>3. /\ boot' \in [Instances -> BootState] /\ boot'[i] = next
        /\ \A j \in Instances \ {i} : boot'[j] = boot[j]
    BY <1>1, <2>1, <2>2
  <2>4. ClientIdShape'
    <3>1. disk' \in [duid : Files("duid"), iaid : [Instances -> Files("iaid")]]
      BY <1>1, <1>2, <1>4, StoreFile, ZenonT(60)
    <3> QED
      BY <1>1, <1>2, <2>3, <3>1 DEF ClientIdShape
  <2>5. ASSUME ~raced' PROVE (InTheFiles /\ MadeOnce /\ IaidKept)'
    <3>1. InTheFiles /\ MadeOnce /\ IaidKept
      BY <1>2, <2>5 DEF StableInv
    <3>2. /\ k = "iaid" => ids[i] = <<>>
          /\ k = "duid" => \A j \in Instances : ids[j] = <<>>
      BY <1>2, <3>1 DEF MadeOnce, Making
    <3>3. /\ k = "iaid" => /\ disk'.duid = disk.duid
                           /\ \A j \in Instances \ {i} : disk'.iaid[j] = disk.iaid[j]
          /\ k = "duid" => disk'.iaid = disk.iaid
      BY <1>1, <1>2, <1>4, StoreFile, ZenonT(60)
    <3>4. InTheFiles'
      <4>1. \A j \in Instances : ids[j] # <<>> =>
                disk'.iaid[j] = disk.iaid[j] /\ disk'.duid = disk.duid
        BY <1>2, <3>2, <3>3
      <4>2. \A j \in Instances : ids[j] # <<>> => Identifier(j)' = Identifier(j)
        BY <4>1, ZenonT(60) DEF Identifier
      <4> QED
        BY <1>2, <3>1, <4>1, <4>2 DEF InTheFiles
    <3>5. \A j \in Instances : Making(boot'[j]) = Making(boot[j]) /\ boot'[j].key = boot[j].key
      BY <1>2, <2>1, <2>3 DEF Making
    <3>6. MadeOnce'
      BY <1>2, <3>1, <3>5 DEF MadeOnce
    <3>7. IaidKept'
      BY <1>2, <2>1, <2>3, <3>1, <3>3 DEF IaidKept
    <3> QED
      BY <3>4, <3>6, <3>7
  <2> QED
    BY <1>2, <2>4, <2>5 DEF StableInv, Stable
<1> QED
    BY <1>3, <1>4 DEF OpenForWriting

LEMMA WriteKept ==
    ASSUME StableInv, NEW i \in Instances, Write(i)
    PROVE  StableInv' /\ Stable
<1> DEFINE k == boot[i].key
           data == Part(boot[i])
<1>1. /\ ClientIdShape /\ raced \in BOOLEAN /\ boot[i] \in BootState
      /\ boot \in [Instances -> BootState]
    BY DEF StableInv, ClientIdShape
<1>2. /\ k \in {"iaid", "duid"} /\ data \in Contents(k) /\ boot[i].pc = "write"
      /\ raced' = raced
    BY <1>1 DEF BootState, Part, Write
<1>3. CASE Dies(i) /\ UNCHANGED <<disk, ids>>
    BY <1>2, <1>3, DiesKept DEF Stable
<1>4. CASE disk' = Store(i, k, data) /\ Have(i, data)
  <2> HIDE DEF data
  <2>1. ClientIdShape'
    BY <1>1, <1>2, <1>4, StoreFile, HaveShape, ZenonT(60) DEF ClientIdShape
  <2>2. ASSUME ~raced' PROVE (InTheFiles /\ MadeOnce /\ IaidKept)' /\ Stable
    <3>1. InTheFiles /\ MadeOnce /\ IaidKept
      BY <1>2, <2>2 DEF StableInv
    <3>2. /\ k = "iaid" => ids[i] = <<>>
          /\ k = "duid" => \A j \in Instances :
                 ids[j] = <<>> /\ (j # i => ~(Making(boot[j]) /\ boot[j].key = "duid"))
      BY <1>2, <3>1 DEF MadeOnce, Making
    <3>3. /\ k = "iaid" => /\ disk'.duid = disk.duid
                           /\ disk'.iaid[i] = [there |-> TRUE, data |-> data]
                           /\ \A j \in Instances \ {i} : disk'.iaid[j] = disk.iaid[j]
          /\ k = "duid" => disk'.iaid = disk.iaid /\ disk'.duid = [there |-> TRUE, data |-> data]
      BY <1>1, <1>2, <1>4, StoreFile
    <3>4. \A j \in Instances : ids[j] # <<>> =>
               /\ disk'.iaid[j].there /\ disk'.duid.there
               /\ ids[j] = Identifier(j)'
      <4>1. \A j \in Instances : ids[j] # <<>> =>
                disk'.iaid[j] = disk.iaid[j] /\ disk'.duid = disk.duid
        BY <1>2, <3>2, <3>3
      <4>2. \A j \in Instances : ids[j] # <<>> => Identifier(j)' = Identifier(j)
        BY <4>1, ZenonT(60) DEF Identifier
      <4> QED
        BY <3>1, <4>1, <4>2 DEF InTheFiles
    <3>5. k = "iaid" => disk'.iaid[i].there /\ data = disk'.iaid[i].data
      BY <3>3
    <3>6. k = "duid" => /\ disk'.duid.there /\ data = disk'.duid.data
                        /\ disk'.iaid[i].there /\ boot[i].iaid = disk'.iaid[i].data
      BY <1>2, <3>1, <3>3 DEF IaidKept
    <3>7. disk'.iaid[i].there /\ raced' \in BOOLEAN
      BY <1>1, <1>2, <3>5, <3>6
    <3>8. \A j \in Instances \ {i} : disk'.iaid[j] = disk.iaid[j]
      BY <1>2, <3>3
    <3>9. \A j \in Instances \ {i} :
               k = "duid" => ~(Making(boot[j]) /\ boot[j].key = "duid")
      BY <3>2
    <3> QED
      BY <1>1, <1>2, <1>4, <2>1, <3>1, <3>4, <3>5, <3>6, <3>7, <3>8, <3>9, HaveKept
  <2> QED
    BY <2>1, <2>2 DEF StableInv, Stable
<1> QED
    BY <1>3, <1>4 DEF Write

-----------------------------------------------------------------------------
(* The identifier under the steps of the processes *)

\* What a step of the system does to the identifiers.
ClientIdMoves ==
    \/ UNCHANGED clientIdVars
    \/ \E i \in Instances :
          \/ Dies(i) /\ UNCHANGED <<disk, ids, raced>>
          \/ \E configured \in BOOLEAN : get_clientid(i, configured)
          \/ ClientIdStep(i)

LEMMA EndMoves == ASSUME NEW d \in BOOLEAN, MasterEnds(d) PROVE ClientIdMoves
    BY MeAssumption, ZenonT(60) DEF MasterEnds, ClientIdMoves, Dies

LEMMA ExitMoves == ASSUME MasterExits PROVE ClientIdMoves
    BY EndMoves DEF MasterExits

LEMMA StoringMoves ==
    ASSUME NEW i \in Instances, StoringIdentifier(i) PROVE ClientIdMoves
    BY DEF StoringIdentifier, Killed, ClientIdMoves

LEMMA NextMoves == ASSUME [Next]_vars PROVE ClientIdMoves
<1>1. CASE UNCHANGED vars
    BY <1>1 DEF vars, ClientIdMoves
<1>2. CASE \E configured \in BOOLEAN : main(configured)
    BY <1>2, MeAssumption DEF main, ClientIdMoves
<1>3. CASE StoringIdentifier(Me)
    BY <1>3, MeAssumption, StoringMoves
<1>4. CASE ndhc_main \/ FirstDeconfig \/ TurnEnds
    BY <1>4 DEF ndhc_main, FirstDeconfig, TurnEnds, ClientIdMoves
<1>5. CASE perform_ifup \/ rfkill_open \/ wait_for_rfkill \/ spawn_ifch \/ spawn_sockd
    BY <1>5, ExitMoves
       DEF perform_ifup, rfkill_open, wait_for_rfkill, spawn_ifch, spawn_sockd,
           ClientIdMoves
<1>6. CASE SetUpWork \/ \E c \in Commands : CallSockd(c)
    BY <1>6, ExitMoves, ZenonT(60)
       DEF SetUpWork, CallSockd, request_sockd_fd, ClientIdMoves
<1>7. CASE IfchAnswered
    BY <1>7, ExitMoves DEF IfchAnswered, ClientIdMoves
<1>8. CASE SockdAnswered
    BY <1>8, ExitMoves DEF SockdAnswered, ClientIdMoves
<1>9. CASE Turn \/ background \/ \E what \in {"bind", "deconfig"} : CallIfch(what)
    BY <1>9 DEF Turn, background, CallIfch, ClientIdMoves
<1>10. CASE signal_dispatch \/ StreamClosed \/ BindNothing \/ TurnExits
    BY <1>10, ExitMoves, EndMoves
       DEF signal_dispatch, StreamClosed, BindNothing, TurnExits
<1>11. CASE ifch_main \/ ifch_process_client_socket \/ IfchHungup
    BY <1>11 DEF ifch_main, ifch_process_client_socket, IfchHungup, ClientIdMoves
<1>12. CASE sockd_main \/ sockd_process_client_socket \/ SockdHungup
    BY <1>12 DEF sockd_main, sockd_process_client_socket, SockdHungup, ClientIdMoves
<1>13. CASE \E i \in Instances \ {Me} :
               OtherStarts(i) \/ OtherStops(i) \/ StoringIdentifier(i)
    BY <1>13, StoringMoves, ZenonT(60)
       DEF OtherStarts, OtherStops, ClientIdMoves
<1>14. CASE RadioSwitched \/ ChildKilled
    BY <1>14 DEF RadioSwitched, ChildKilled, ClientIdMoves
<1>15. CASE Terminate
    BY <1>15, ExitMoves DEF Terminate, ClientIdMoves
<1> QED
    BY <1>1, <1>2, <1>3, <1>4, <1>5, <1>6, <1>7, <1>8, <1>9, <1>10, <1>11, <1>12,
       <1>13, <1>14, <1>15 DEF Next, MasterStep

LEMMA StableNext == ASSUME StableInv, [Next]_vars PROVE StableInv' /\ Stable
<1>1. CASE UNCHANGED clientIdVars
  <2>1. UNCHANGED <<disk, boot, ids, raced>>
    BY <1>1 DEF clientIdVars
  <2>2. boot' \in [Instances -> BootState]
    BY <2>1 DEF StableInv, ClientIdShape
  <2> QED
    BY <2>1, <2>2, Restarted DEF Stable
<1>2. ASSUME NEW i \in Instances, Dies(i), UNCHANGED <<disk, ids, raced>>
      PROVE  StableInv' /\ Stable
    BY <1>2, DiesKept DEF Stable
<1>3. ASSUME NEW i \in Instances, NEW configured \in BOOLEAN,
             get_clientid(i, configured)
      PROVE  StableInv' /\ Stable
  <2>1. ids' = ids
    BY <1>3 DEF get_clientid
  <2> QED
    BY <1>3, <2>1, StartKept DEF Stable
<1>4. ASSUME NEW i \in Instances, ClientIdStep(i) PROVE StableInv' /\ Stable
    BY <1>4, ReadKept, CreateKept, WriteKept DEF ClientIdStep
<1> QED
    BY <1>1, <1>2, <1>3, <1>4, NextMoves DEF ClientIdMoves

\* The identifier of an interface never changes once it was completed, whatever
\* is killed, fails or is started again, unless two instances came to the
\* missing DUID file at once (get_clientid).
THEOREM IdentifiersAreStable == Spec => IdentifierStable
<1>1. StableInv /\ [Next]_vars => StableInv'
    BY StableNext
<1>2. StableInv /\ [Next]_vars =>
        [~raced' => \A i \in Instances : ids[i] # <<>> => ids'[i] = ids[i]]_<<ids, raced>>
    BY StableNext DEF Stable
<1> QED
    BY <1>1, <1>2, StableInit, PTL DEF Spec, IdentifierStable
=============================================================================
