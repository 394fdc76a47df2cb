----------------------------- MODULE AtomicFile -----------------------------
(***************************************************************************)
(* proposals.py, _atomic_write: a file is written through a temporary name *)
(* that is derived from its own, so that two writers of one path share the *)
(* temporary file too. A name points to an inode; a descriptor keeps its   *)
(* inode when the name moves. Reading is one step: a name is looked up and *)
(* its inode read.                                                         *)
(***************************************************************************)
EXTENDS Naturals

CONSTANTS
    Clients,    \* processes and threads that use the files
    Paths,      \* the files written
    Inodes,     \* bound: at least 2 * |Paths| + |Clients|
    Docs,       \* the documents, what a writer may write
    Empty,      \* a file just truncated
    Torn        \* part of a document, or parts of two

ASSUME FileAssumption ==
    /\ Inodes \subseteq Nat \ {0}
    /\ Empty \notin Docs /\ Torn \notin Docs /\ Empty # Torn

NoFile == 0

VARIABLES
    entry,      \* entry[p]: the inode of path p
    tmp,        \* tmp[p]: the inode of p's temporary name
    content,    \* content[i]
    fd          \* fd[c]: the inode c holds open for writing

fileVars == <<entry, tmp, content, fd>>

FileTypeOK ==
    /\ entry \in [Paths -> Inodes \cup {NoFile}]
    /\ tmp \in [Paths -> Inodes \cup {NoFile}]
    /\ content \in [Inodes -> Docs \cup {Empty, Torn}]
    /\ fd \in [Clients -> Inodes \cup {NoFile}]

Free == {i \in Inodes : \A p \in Paths, c \in Clients : i \notin {entry[p], tmp[p], fd[c]}}

Exists(p) == entry[p] # NoFile

\* What reading p yields, for a p that exists.
Text(p) == content[entry[p]]

Whole(text) == text \in Docs

\* open(name, "w"): truncate the file of that name or create it.
OpenInode(c, i) ==
    /\ content' = [content EXCEPT ![i] = Empty]
    /\ fd' = [fd EXCEPT ![c] = i]

\* tmp.write_text, the open.
OpenTmp(c, p) ==
    \/ /\ tmp[p] # NoFile
       /\ OpenInode(c, tmp[p])
       /\ UNCHANGED <<entry, tmp>>
    \/ /\ tmp[p] = NoFile
       /\ \E i \in Free :
            /\ \A j \in Free : i <= j
            /\ OpenInode(c, i)
            /\ tmp' = [tmp EXCEPT ![p] = i]
       /\ UNCHANGED entry

\* A descriptor writes from the start of the file: over a longer text of
\* another writer it leaves that text's tail.
Overwritten(old, doc) == {doc} \cup (IF old \in {Empty, doc} THEN {} ELSE {Torn})

\* tmp.write_text, the write and the close.
WriteTmp(c, doc) ==
    /\ \E text \in Overwritten(content[fd[c]], doc) : content' = [content EXCEPT ![fd[c]] = text]
    /\ fd' = [fd EXCEPT ![c] = NoFile]
    /\ UNCHANGED <<entry, tmp>>

\* os.replace(tmp, path), when the temporary name is there.
ReplaceByTmp(p) ==
    /\ tmp[p] # NoFile
    /\ entry' = [entry EXCEPT ![p] = tmp[p]]
    /\ tmp' = [tmp EXCEPT ![p] = NoFile]
    /\ UNCHANGED <<content, fd>>

\* path.unlink().
Unlink(p) ==
    /\ entry' = [entry EXCEPT ![p] = NoFile]
    /\ UNCHANGED <<tmp, content, fd>>

\* c dies, or its write fails: what it had open may be left half written.
CloseHalfWritten(c) ==
    /\ \/ UNCHANGED content
       \/ fd[c] # NoFile /\ content' = [content EXCEPT ![fd[c]] = Torn]
    /\ fd' = [fd EXCEPT ![c] = NoFile]
    /\ UNCHANGED <<entry, tmp>>
=============================================================================
