------------------------------ MODULE ClientId ------------------------------
(***************************************************************************)
(* The client identifier (src/src/duiaid.c).  It is 255, the IAID and the  *)
(* DUID; both parts are kept in files of state_dir, one DUID for the host  *)
(* and one IAID per interface.  Several instances of ndhc, one for each    *)
(* interface, share the directory, and each may be killed and started      *)
(* again at any point.                                                     *)
(*                                                                         *)
(* A file is opened for reading, then created and truncated, then written, *)
(* in steps of their own.  An open for reading fails only when the file is *)
(* missing.                                                                *)
(***************************************************************************)
EXTENDS Naturals, Sequences

CONSTANTS
    Instances,      \* instances of ndhc, by the interface they run on
    Seeds,          \* random numbers an identifier may be made of
    Stored,         \* instances whose IAID file exists to begin with
    Disturbances    \* bound: things that go wrong or are done to a program

ASSUME ClientIdAssumption == Seeds # {} /\ Disturbances \in Nat

VARIABLES
    disk,   \* the files of state_dir
    boot,   \* per instance, how far get_clientid has come
    ids,    \* per instance, the identifier of its last completed start
    raced,  \* history: two instances were at the missing DUID file at once
    left    \* disturbances that can still happen

clientIdVars == <<disk, boot, ids, raced>>

-----------------------------------------------------------------------------

generate_iaid == {<<s>> : s \in Seeds}

generate_duid == {<<4, s>> : s \in Seeds}

Missing == [there |-> FALSE, data |-> <<>>]

Contents(k) == {<<>>} \cup (IF k = "iaid" THEN generate_iaid ELSE generate_duid)

Files(k) == [there : {TRUE}, data : Contents(k)] \cup {Missing}

\* One disturbance has been used up.
Disturbed == left > 0 /\ left' = left - 1

File(i, k) == IF k = "duid" THEN disk.duid ELSE disk.iaid[i]

Store(i, k, data) ==
    LET f == [there |-> TRUE, data |-> data]
    IN  IF k = "duid" THEN [disk EXCEPT !.duid = f]
        ELSE [disk EXCEPT !.iaid[i] = f]

\* The part of the identifier that is being made, and its start.
Part(b) == IF b.key = "duid" THEN b.duid ELSE b.iaid

Keep(b, g) ==
    IF b.key = "duid" THEN [b EXCEPT !.pc = "create", !.duid = g]
    ELSE [b EXCEPT !.pc = "create", !.iaid = g]

Off == [pc |-> "off", key |-> "iaid", iaid |-> <<>>, duid |-> <<>>]

Booted == [Off EXCEPT !.pc = "done"]

ClientIdInit ==
    /\ disk = [duid |-> Missing,
               iaid |-> [i \in Instances |->
                           IF i \in Stored
                           THEN [there |-> TRUE,
                                 data |-> CHOOSE g \in generate_iaid : TRUE]
                           ELSE Missing]]
    /\ boot = [i \in Instances |-> Off]
    /\ ids = [i \in Instances |-> <<>>]
    /\ raced = FALSE
    /\ left = Disturbances

\* Instance i has the part `data` of its identifier: on to the next one.
Have(i, data) ==
    IF boot[i].key = "iaid"
    THEN /\ boot' = [boot EXCEPT ![i] = [@ EXCEPT !.pc = "read", !.key = "duid",
                                                  !.iaid = data]]
         /\ UNCHANGED ids
    ELSE /\ boot' = [boot EXCEPT ![i] = Booted]
         /\ ids' = [ids EXCEPT ![i] = <<255>> \o boot[i].iaid \o data]

\* suicide() or a kill: the memory is gone, the files stay.
Dies(i) == boot' = [boot EXCEPT ![i] = Off]

\* get_clientid is called; an identifier from the command line is kept.
get_clientid(i, configured) ==
    /\ boot[i].pc = "off"
    /\ boot' = [boot EXCEPT ![i] = IF configured THEN Booted
                                   ELSE [Off EXCEPT !.pc = "read"]]
    /\ UNCHANGED <<disk, ids, raced>>

\* Another instance is between finding the DUID missing and having written it.
DuidInTheMaking(i) ==
    \E j \in Instances \ {i} :
        boot[j].key = "duid" /\ boot[j].pc \in {"create", "write"}

OpenForReading(i) ==
    LET k == boot[i].key IN
    /\ boot[i].pc = "read"
    /\ raced' = (raced \/ (k = "duid" /\ DuidInTheMaking(i)))
    /\ UNCHANGED disk
    /\ IF File(i, k).there
       THEN \/ Have(i, File(i, k).data) /\ UNCHANGED left
            \/ Dies(i) /\ Disturbed /\ UNCHANGED ids
       ELSE /\ \E g \in Contents(k) \ {<<>>} :
                    boot' = [boot EXCEPT ![i] = Keep(@, g)]
            /\ UNCHANGED <<ids, left>>

OpenForWriting(i) ==
    /\ boot[i].pc = "create"
    /\ \/ /\ disk' = Store(i, boot[i].key, <<>>)
          /\ boot' = [boot EXCEPT ![i].pc = "write"]
          /\ UNCHANGED left
       \/ Dies(i) /\ Disturbed /\ UNCHANGED disk
    /\ UNCHANGED <<ids, raced>>

\* Mutant: an identifier that could not be stored is used all the same.
WriteUnchecked(i) ==
    LET k == boot[i].key IN
    /\ boot[i].pc = "write"
    /\ \/ disk' = Store(i, k, Part(boot[i])) /\ UNCHANGED left
       \/ Disturbed /\ UNCHANGED disk
    /\ Have(i, Part(boot[i]))
    /\ UNCHANGED raced

Write(i) ==
    LET k == boot[i].key IN
    /\ boot[i].pc = "write"
    /\ \/ /\ disk' = Store(i, k, Part(boot[i]))
          /\ Have(i, Part(boot[i]))
          /\ UNCHANGED left
       \/ Dies(i) /\ Disturbed /\ UNCHANGED <<disk, ids>>
    /\ UNCHANGED raced

ClientIdStep(i) == OpenForReading(i) \/ OpenForWriting(i) \/ Write(i)

Killed(i) ==
    /\ boot[i].pc \in {"read", "create", "write"}
    /\ Dies(i)
    /\ Disturbed
    /\ UNCHANGED <<disk, ids, raced>>

-----------------------------------------------------------------------------

Identifiers ==
    {<<>>} \cup {<<255>> \o i \o d : i \in Contents("iaid"), d \in Contents("duid")}

ClientIdTypeOK ==
    /\ disk \in [duid : Files("duid"), iaid : [Instances -> Files("iaid")]]
    /\ boot \in [Instances -> [pc : {"off", "read", "create", "write", "done"},
                               key : {"iaid", "duid"},
                               iaid : Contents("iaid"),
                               duid : Contents("duid")]]
    /\ ids \in [Instances -> Identifiers]
    /\ raced \in BOOLEAN
    /\ left \in 0 .. Disturbances

\* The files have been written: the identifier that was announced to servers
\* is the one every later start will find, whatever was killed in between and
\* whatever other instances did (get_clientid), except when two instances
\* came to the missing DUID file at the same time.
IdentifierStable ==
    [][~raced' => \A i \in Instances : ids[i] # <<>> => ids'[i] = ids[i]]_<<ids, raced>>
=============================================================================
