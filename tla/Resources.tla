----------------------------- MODULE Resources -----------------------------
(***************************************************************************)
(* Immutable resources: writers that publish what they collected under a   *)
(* key, in memory under a lock or as a file that must not exist yet,       *)
(* readers, deletes of the host, and several hosts that open one directory *)
(* for the first time.  A content is a media type and bytes, one value.    *)
(*                                                                         *)
(* Lives tell entries apart that have been under one key one after the     *)
(* other; the store itself does not record them.                           *)
(***************************************************************************)
EXTENDS Integers, FiniteSets

CONSTANTS
    None,
    Writers, Readers, Keys, Contents,
    Hosts,           \* that open the directory
    Chunks,          \* chunks a writer collects
    MaxDeletes       \* bound: deletes

VARIABLES
    filesystem,      \* which of the two stores this is
    entries,         \* what is stored under each key
    writer,          \* each writer: its key and content, and how far it is
    reader,          \* each reader: the entry it opened and what it has read
    issued,          \* the references that writers returned
    deletes,         \* deletes so far
    root             \* the marker of the directory, and how far each host is
resources == <<entries, writer, reader, issued, deletes, root>>

NewWriter(key, content) == [key |-> key, content |-> content, at |-> "collecting",
                            sequence |-> 0, previous |-> None]

Init ==
    /\ filesystem \in BOOLEAN
    /\ entries = [k \in Keys |-> None]
    /\ writer \in [Writers -> {NewWriter(k, c) : k \in Keys, c \in Contents}]
    /\ reader = [r \in Readers |-> None]
    /\ issued = {}
    /\ deletes = 0
    /\ \E formats \in [Hosts -> IF filesystem THEN {"current", "other"} ELSE {None}] :
        root = [marker |-> None,
                host |-> [h \in Hosts |-> [format |-> formats[h], at |-> "opening"]]]

At(w, place) == writer[w].at = place
Move(w, place) == writer' = [writer EXCEPT ![w].at = place]

Ready == ~filesystem \/ \E h \in Hosts : root.host[h].at = "open"

-----------------------------------------------------------------------------
\* Writers

\* Chunks are numbered: one out of order is refused and changes nothing.
Append(w) ==
    /\ At(w, "collecting") /\ Ready
    /\ writer[w].sequence < Chunks
    /\ writer' = [writer EXCEPT ![w].sequence = @ + 1]
    /\ UNCHANGED <<entries, reader, issued, deletes, root>>

\* A variant: a file that exists is replaced.
TakenNever(k) == FALSE

\* An entry that is stored stays: the first writer of a key wins.
Exists(k) == entries[k] # None

\* Whether a key is taken when the entry is placed under it.
Taken(k) == Exists(k)

Return(w, entry) ==
    /\ Move(w, "returned")
    /\ issued' = issued \cup {[key |-> writer[w].key, life |-> entry.life,
                               content |-> writer[w].content]}

Publish(w) ==
    LET k == writer[w].key
        entry == [content |-> writer[w].content, life |-> deletes]
    IN entries' = [entries EXCEPT ![k] = entry] /\ Return(w, entry)

\* The same content again is the same resource, other content a conflict.
Compare(w, entry) ==
    IF entry.content = writer[w].content
    THEN Return(w, entry)
    ELSE Move(w, "conflict") /\ UNCHANGED issued

Finish(w) ==
    /\ At(w, "collecting") /\ writer[w].sequence = Chunks
    /\ IF ~Taken(writer[w].key)
       THEN Publish(w)
       ELSE /\ UNCHANGED entries
            /\ IF filesystem
               THEN Move(w, "comparing") /\ UNCHANGED issued
               ELSE Compare(w, entries[writer[w].key])
    /\ UNCHANGED <<reader, deletes, root>>

\* A file is opened and read after it was found to exist.  A host may have
\* deleted it meanwhile: opening fails, and one that is open is read on.
OpenPrevious(w) ==
    /\ At(w, "comparing") /\ writer[w].previous = None
    /\ IF Exists(writer[w].key)
       THEN writer' = [writer EXCEPT ![w].previous = entries[writer[w].key]]
       ELSE Move(w, "failed")
    /\ UNCHANGED <<entries, reader, issued, deletes, root>>

ComparePrevious(w) ==
    /\ At(w, "comparing") /\ writer[w].previous # None
    /\ Compare(w, writer[w].previous)
    /\ UNCHANGED <<entries, reader, deletes, root>>

\* A writer that is dropped, or whose I/O fails, leaves no entry behind.
Drop(w) ==
    /\ writer[w].at \in {"collecting", "comparing"}
    /\ Move(w, "failed")
    /\ UNCHANGED <<entries, reader, issued, deletes, root>>

-----------------------------------------------------------------------------
\* Readers and the host

\* A reader keeps the entry it opened, chunk by chunk, through a delete.
Open(r) ==
    /\ reader[r] = None
    /\ \E reference \in issued :
        /\ Exists(reference.key)
        /\ reader' = [reader EXCEPT ![r] =
                [reference |-> reference, entry |-> entries[reference.key], read |-> 0]]
    /\ UNCHANGED <<entries, writer, issued, deletes, root>>

Read(r) ==
    /\ reader[r] # None /\ reader[r].read < Chunks
    /\ reader' = [reader EXCEPT ![r].read = @ + 1]
    /\ UNCHANGED <<entries, writer, issued, deletes, root>>

Delete ==
    /\ deletes < MaxDeletes
    /\ \E reference \in issued : entries' = [entries EXCEPT ![reference.key] = None]
    /\ deletes' = deletes + 1
    /\ UNCHANGED <<writer, reader, issued, root>>

\* The marker of a fresh directory is written aside and placed unless another
\* host was first; a host of another version finds, or places, its own.
Marked == root.marker # None

CheckMarker(h) ==
    root' = [root EXCEPT !.host[h].at =
        IF root.marker = root.host[h].format THEN "open" ELSE "rejected"]

OpenRoot(h) ==
    /\ filesystem /\ root.host[h].at = "opening"
    /\ IF root.marker = None
       THEN root' = [root EXCEPT !.host[h].at = "placing"]
       ELSE CheckMarker(h)
    /\ UNCHANGED <<entries, writer, reader, issued, deletes>>

PlaceMarker(h) ==
    /\ root.host[h].at = "placing"
    /\ IF Marked
       THEN CheckMarker(h)
       ELSE root' = [marker |-> root.host[h].format, host |-> [root.host EXCEPT ![h].at = "open"]]
    /\ UNCHANGED <<entries, writer, reader, issued, deletes>>

Next ==
    /\ \/ \E w \in Writers : \/ Append(w) \/ Finish(w) \/ OpenPrevious(w)
                             \/ ComparePrevious(w) \/ Drop(w)
       \/ \E r \in Readers : Open(r) \/ Read(r)
       \/ Delete
       \/ \E h \in Hosts : OpenRoot(h) \/ PlaceMarker(h)
    /\ UNCHANGED filesystem

-----------------------------------------------------------------------------
\* Properties

TypeOK ==
    /\ \A w \in Writers : writer[w].sequence \in 0 .. Chunks
    /\ \A r \in Readers : reader[r] # None => reader[r].read \in 0 .. Chunks
    /\ deletes \in 0 .. MaxDeletes

\* What is published stays as it is until it is deleted: while the entry of a
\* reference lives it has the content the reference was issued for, no two
\* references of one life differ, and all hosts of a directory that opened it
\* agree on its format.
PublishedOnce ==
    /\ \A reference \in issued :
        /\ Exists(reference.key) /\ entries[reference.key].life = reference.life
            => entries[reference.key].content = reference.content
    /\ \A reference, other \in issued :
        reference.key = other.key /\ reference.life = other.life
            => reference.content = other.content
    /\ \A reference \in issued : reference.life = deletes => Exists(reference.key)
    /\ \A h \in Hosts : root.host[h].at = "open" => root.marker = root.host[h].format
=============================================================================
