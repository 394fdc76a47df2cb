--------------------------- MODULE ServingProofs ---------------------------
(***************************************************************************)
(* Proofs about Serving, for any directories, manifests, requests and      *)
(* number of deployments. The inductive invariant says how old a record    *)
(* can be: what is loaded, served or scheduled was on the disk, versions   *)
(* on the disk grow, and a registry in the making is no older than the one *)
(* it is to replace as long as no other reload ends.                       *)
(***************************************************************************)
EXTENDS Serving, FiniteSetTheorems, WellFoundedInduction, TLAPS

\* A directory holds at most one bot, deployed by now.
DiskInv ==
    \A d \in Dirs : \A r \in disk[d] :
        /\ r.dir = d
        /\ r.version <= deploys
        /\ \A s \in disk[d] : s = r

Loaded == registry \cup UNION {found[p] : p \in Admins}

\* Nothing was loaded that is newer than the disk, ...
LoadedInv ==
    \A r \in Loaded :
        /\ r.version <= deploys
        /\ \A s \in disk[r.dir] : r.version <= s.version

\* When p is past the directory of r, it keeps the bot of r, and what it has
\* still to load comes behind.
Passed(p, r) ==
    r.dir \notin todo[p] => Keeps(found[p], r) /\ \A e \in todo[p] : r.dir < e

\* ... nor anything that is older than what the scheduler got, and what it got
\* and is still on the disk is kept.
JobInv ==
    \A j \in jobs :
        /\ j.version <= deploys
        /\ \A s \in disk[j.dir] : j.version <= s.version
        /\ \A r \in Loaded : r.dir = j.dir => j.version <= r.version
        /\ j \in disk[j.dir] => /\ Keeps(registry, j)
                               /\ \A p \in Admins : pc[p] = "load" => Passed(p, j)

\* A reload alone loads no older version than the registry has, and keeps
\* every bot of it that is still there.
AloneInv ==
    \A p \in alone : pc[p] = "load" =>
        \A r \in registry :
            /\ \A s \in found[p] : s.dir = r.dir => s.version >= r.version
            /\ r \in disk[r.dir] => Passed(p, r)

\* An undisturbed reload has found what the directories it is done with serve.
QuietInv ==
    \A p \in quiet :
        /\ pc[p] = "load" =>
            /\ found[p] = Served(Dirs \ todo[p])
            /\ \A d \in Dirs \ todo[p] : disk[d] # {} => \A e \in todo[p] : d < e
        /\ pc[p] \in {"answer", "done"} => registry = Served(Dirs)
        /\ pc[p] = "done" => answer[p] = {r.says.id : r \in Served(Dirs)}

\* A bot deployed before the server was first started and not touched since is
\* in the registry, and in what a reload that passed its directory has found.
UntouchedInv ==
    \A d \in Dirs : \A r \in disk[d] : r.version = 0 =>
        /\ Of(r.says.id, registry) # {}
        /\ \A p \in Admins :
            pc[p] = "load" /\ d \notin todo[p] => Of(r.says.id, found[p]) # {}

IInv == TypeOK /\ DiskInv /\ LoadedInv /\ JobInv /\ AloneInv /\ QuietInv

-----------------------------------------------------------------------------

LEMMA ServedTyped ==
    ASSUME TypeOK, NEW D \in SUBSET Dirs
    PROVE  /\ Served(D) \subseteq Record
           /\ \A r \in Served(D) : \E d \in D : r \in disk[d]
  BY DEF TypeOK, Served

\* One step of the loop: what was served, with the next directory put in.
LEMMA PutServes ==
    ASSUME TypeOK, DiskInv, NEW D \in SUBSET Dirs, NEW d \in Dirs,
           \A e \in D : disk[e] # {} => e < d
    PROVE  Put(Served(D), disk[d]) = Served(D \cup {d})
  <1> DEFINE U == UNION {disk[e] : e \in D}
             V == UNION {disk[e] : e \in D \cup {d}}
  <1>1. V = U \cup disk[d]
    OBVIOUS
  <1>2. \A r \in U : r.dir \in Nat /\ r.dir < d
    BY ServingAssumption DEF TypeOK, DiskInv, Record
  <1>3. \A r \in disk[d] : r.dir = d
    BY DEF DiskInv
  <1>4. d \in Nat
    BY ServingAssumption
  <1>5. ASSUME NEW r \in Put(Served(D), disk[d])
        PROVE  r \in Served(D \cup {d})
    <2>1. CASE r \in disk[d]
      <3>1. \A s \in V : s.dir <= r.dir
        BY <1>1, <1>2, <1>3, <1>4, <2>1
      <3> QED
        BY <1>1, <2>1, <3>1 DEF Served
    <2>2. CASE r \in Served(D) /\ \A s \in disk[d] : s.says.id # r.says.id
      BY <1>1, <2>2 DEF Served
    <2> QED
      BY <1>5, <2>1, <2>2 DEF Put
  <1>6. ASSUME NEW r \in Served(D \cup {d})
        PROVE  r \in Put(Served(D), disk[d])
    <2>1. r \in V /\ \A s \in V : s.says.id = r.says.id => s.dir <= r.dir
      BY <1>6 DEF Served
    <2>2. CASE r \in disk[d]
      BY <2>2 DEF Put
    <2>3. CASE r \in U
      <3>1. \A s \in disk[d] : s.says.id # r.says.id
        BY <1>1, <1>2, <1>3, <1>4, <2>1, <2>3
      <3>2. r \in Served(D)
        BY <1>1, <2>1, <2>3 DEF Served
      <3> QED
        BY <3>1, <3>2 DEF Put
    <2> QED
      BY <1>1, <2>1, <2>2, <2>3
  <1> QED
    BY <1>5, <1>6

\* Of finitely many directories that declare a bot_id one is the last (the one
\* with the fewest directories behind it), so what loads is served by some
\* directory.
LEMMA ServedFinds ==
    ASSUME TypeOK, NEW d \in Dirs, NEW r \in disk[d]
    PROVE  Of(r.says.id, Served(Dirs)) # {}
  <1> DEFINE U == Of(r.says.id, UNION {disk[e] : e \in Dirs})
             Behind(s) == {e \in Dirs : s.dir < e}
             T == {Behind(s) : s \in U}
             R == StrictSubsetOrdering(Dirs)
  <1>1. IsWellFoundedOn(R, SUBSET Dirs)
    BY FS_StrictSubsetOrderingWellFounded, FS_FiniteSubsetsOfFinite, ServingAssumption
  <1>2. T \subseteq SUBSET Dirs /\ T # {}
    BY DEF Of
  <1>3. PICK B \in T : \A C \in T : ~(<<C, B>> \in R)
    <2> HIDE DEF T, R
    <2> QED
      BY <1>1, <1>2, WFMin
  <1>4. PICK s \in U : B = Behind(s)
    BY <1>3
  <1>5. ASSUME NEW t \in U
        PROVE  t.dir <= s.dir
    <2>1. t.dir \in Dirs /\ s.dir \in Dirs /\ Dirs \subseteq Nat
      BY ServingAssumption DEF TypeOK, Record, Of
    <2>2. CASE s.dir < t.dir
      <3>1. Behind(t) \subseteq Behind(s) /\ t.dir \in Behind(s) /\ t.dir \notin Behind(t)
        <4>1. ASSUME NEW e \in Dirs, t.dir < e
              PROVE  s.dir < e
          <5> HIDE DEF U, T
          <5> QED
            BY <2>1, <2>2, <4>1
        <4>2. ~(t.dir < t.dir)
          <5>1. \A n \in Nat : ~(n < n)
            OBVIOUS
          <5> HIDE DEF U, T
          <5> QED
            BY <2>1, <5>1
        <4> QED
          BY <2>1, <2>2, <4>1, <4>2
      <3>2. <<Behind(t), Behind(s)>> \in R
        BY <3>1 DEF StrictSubsetOrdering
      <3> QED
        BY <1>3, <1>4, <3>2
    <2>3. t.dir \in Nat /\ s.dir \in Nat
      BY <2>1
    <2> HIDE DEF U
    <2> QED
      BY <2>2, <2>3
  <1>6. s \in Served(Dirs)
    BY <1>4, <1>5 DEF Of, Served
  <1> QED
    BY <1>4, <1>6 DEF Of

LEMMA InitInv == Init => IInv
  <1> SUFFICES ASSUME Init
               PROVE  IInv
    OBVIOUS
  <1>1. PICK says \in [Dirs -> SUBSET Manifests] :
            /\ \A d \in Dirs : \A m, n \in says[d] : m = n
            /\ disk = [d \in Dirs |-> {[dir |-> d, version |-> 0, says |-> m] : m \in says[d]}]
    BY DEF Init
  <1>2. disk \in [Dirs -> SUBSET Record]
    BY <1>1, ServingAssumption DEF Record
  <1>3. registry \subseteq Record /\ jobs \subseteq registry
    BY <1>2 DEF Init, Served, JobsOf
  <1>4. TypeOK
    BY <1>2, <1>3, ServingAssumption DEF Init, TypeOK
  <1>5. DiskInv
    BY <1>1 DEF Init, DiskInv
  <1>6. \A r \in Loaded : \E d \in Dirs : r \in disk[d]
    BY DEF Init, Loaded, Served
  <1>7. LoadedInv /\ JobInv
    BY <1>3, <1>4, <1>5, <1>6
       DEF Init, DiskInv, LoadedInv, JobInv, Loaded, TypeOK, Record, Keeps, Of
  <1>8. AloneInv /\ QuietInv
    BY DEF Init, AloneInv, QuietInv
  <1> QED
    BY <1>4, <1>5, <1>7, <1>8 DEF IInv

LEMMA RestartInv == IInv /\ Restart => IInv'
  <1> SUFFICES ASSUME IInv, Restart
               PROVE  IInv'
    OBVIOUS
  <1>1. registry' = Served(Dirs) /\ jobs' \subseteq registry'
    BY DEF Restart, JobsOf
  <1>2. /\ registry' \subseteq Record
        /\ \A r \in registry' : \E d \in Dirs : r \in disk[d]
    BY <1>1, ServedTyped DEF IInv
  <1>3. TypeOK'
    BY <1>1, <1>2 DEF IInv, TypeOK, Restart
  <1>4. DiskInv'
    BY DEF IInv, DiskInv, Restart
  <1>5. Loaded' = registry'
    BY DEF Loaded, Restart
  <1>6. LoadedInv' /\ JobInv'
    BY <1>1, <1>2, <1>3, <1>4, <1>5
       DEF IInv, DiskInv, LoadedInv, JobInv, TypeOK, Record, Keeps, Of, Restart
  <1>7. AloneInv' /\ QuietInv'
    BY DEF AloneInv, QuietInv, Restart
  <1> QED
    BY <1>3, <1>4, <1>6, <1>7 DEF IInv

LEMMA DeployInv == ASSUME IInv, NEW d \in Dirs, Deploy(d) PROVE IInv'
  <1>1. PICK new \in {{}} \cup {{[dir |-> d, version |-> deploys', says |-> m]} : m \in Manifests} :
            disk' = [disk EXCEPT ![d] = new]
    BY DEF Deploy
  <1>2. deploys \in Nat /\ deploys' = deploys + 1 /\ deploys' \in 0..MaxDeploys
    BY ServingAssumption DEF IInv, TypeOK, Deploy
  <1>3. new \subseteq Record
    BY <1>2, ServingAssumption DEF Record
  <1>4. TypeOK'
    <2>1. disk' \in [Dirs -> SUBSET Record]
      BY <1>1, <1>3 DEF IInv, TypeOK
    <2>2. quiet' = {} /\ UNCHANGED <<source, registry, jobs, pc, todo, found, answer, alone, held, reply>>
      BY DEF Deploy, callVars
    <2>3. fatal' \subseteq Dirs
      BY DEF IInv, TypeOK, Deploy
    <2> QED
      BY <1>2, <2>1, <2>2, <2>3 DEF IInv, TypeOK
  <1>5. \A r \in new : r.dir = d /\ r.version = deploys + 1 /\ \A s \in new : s = r
    BY <1>2
  <1>6. /\ disk'[d] = new
        /\ \A e \in Dirs \ {d} : disk'[e] = disk[e]
    BY <1>1 DEF IInv, TypeOK
  <1>7. DiskInv'
    <2> SUFFICES ASSUME NEW e \in Dirs, NEW r \in disk'[e]
                 PROVE  r.dir = e /\ r.version <= deploys' /\ \A s \in disk'[e] : s = r
      BY DEF DiskInv
    <2>1. CASE e = d
      BY <1>2, <1>5, <1>6, <2>1
    <2>2. CASE e # d
      <3>1. disk'[e] = disk[e] /\ r \in Record
        BY <1>6, <2>2 DEF IInv, TypeOK
      <3> QED
        BY <1>2, <3>1 DEF IInv, DiskInv, Record
    <2> QED
      BY <2>1, <2>2
  <1>8. Loaded' = Loaded /\ Loaded \subseteq Record /\ jobs' = jobs /\ jobs \subseteq Record
    BY DEF Loaded, Deploy, IInv, TypeOK
  <1>9. ASSUME NEW r \in Record, r.version <= deploys,
               \A s \in disk[r.dir] : r.version <= s.version
        PROVE  r.version <= deploys' /\ \A s \in disk'[r.dir] : r.version <= s.version
    <2>1. r.dir \in Dirs /\ r.version \in Nat
      BY DEF Record
    <2>2. CASE r.dir = d
      BY <1>2, <1>5, <1>6, <1>9, <2>1, <2>2
    <2>3. CASE r.dir # d
      BY <1>2, <1>6, <1>9, <2>1, <2>3
    <2> QED
      BY <2>2, <2>3
  <1>10. ASSUME NEW r \in Record, r.version <= deploys, r \in disk'[r.dir]
         PROVE  r \in disk[r.dir]
    <2>1. r.dir \in Dirs /\ r.version \in Nat
      BY DEF Record
    <2> QED
      BY <1>2, <1>5, <1>6, <1>10, <2>1
  <1>11. UNCHANGED <<registry, jobs, pc, todo, found, alone>>
    BY DEF Deploy
  <1>12. LoadedInv' /\ JobInv'
    <2>1. LoadedInv'
      BY <1>8, <1>9 DEF IInv, LoadedInv
    <2>2. ASSUME NEW j \in jobs
          PROVE  /\ j.version <= deploys'
                 /\ \A s \in disk'[j.dir] : j.version <= s.version
                 /\ \A r \in Loaded : r.dir = j.dir => j.version <= r.version
                 /\ j \in disk'[j.dir] => /\ Keeps(registry, j)
                                         /\ \A p \in Admins : pc[p] = "load" => Passed(p, j)
      BY <1>8, <1>9, <1>10 DEF IInv, JobInv
    <2> QED
      BY <1>8, <1>11, <2>1, <2>2 DEF JobInv, Passed, Keeps, Of
  <1>13. AloneInv'
    <2>1. ASSUME NEW p \in alone, pc[p] = "load", NEW r \in registry
          PROVE  /\ \A s \in found[p] : s.dir = r.dir => s.version >= r.version
                 /\ r \in disk'[r.dir] => Passed(p, r)
      <3>1. r \in Record /\ r \in Loaded
        BY DEF IInv, TypeOK, Loaded
      <3>2. r.version <= deploys
        BY <3>1 DEF IInv, LoadedInv
      <3> QED
        BY <1>10, <2>1, <3>1, <3>2 DEF IInv, AloneInv
    <2> QED
      BY <1>11, <2>1 DEF AloneInv, Passed, Keeps, Of
  <1>14. QuietInv'
    BY DEF QuietInv, Deploy
  <1> QED
    BY <1>4, <1>7, <1>12, <1>13, <1>14 DEF IInv

LEMMA ReloadInv == ASSUME IInv, NEW p \in Admins, Reload(p) PROVE IInv'
  <1>1. PICK children \in Listings : todo' = [todo EXCEPT ![p] = children]
    BY DEF Reload
  <1>2. /\ children \subseteq Dirs
        /\ \A d \in Dirs : disk[d] # {} => d \in children
    BY DEF Listings
  <1>3. /\ pc' = [pc EXCEPT ![p] = "load"]
        /\ found' = [found EXCEPT ![p] = {}]
        /\ answer' = [answer EXCEPT ![p] = {}]
        /\ alone' = alone \cup {p} /\ quiet' = quiet \cup {p}
        /\ UNCHANGED <<disk, fatal, deploys, source, registry, jobs, held, reply>>
    BY DEF Reload, callVars
  <1>4. /\ pc'[p] = "load" /\ todo'[p] = children /\ found'[p] = {}
        /\ \A q \in Admins \ {p} : /\ pc'[q] = pc[q] /\ todo'[q] = todo[q]
                                 /\ found'[q] = found[q] /\ answer'[q] = answer[q]
    BY <1>1, <1>3 DEF IInv, TypeOK
  <1>5. TypeOK'
    BY <1>1, <1>2, <1>3 DEF IInv, TypeOK
  <1>6. DiskInv'
    BY <1>3 DEF IInv, DiskInv
  <1>7. Loaded' \subseteq Loaded
    BY <1>3, <1>4 DEF Loaded
  <1>8. ASSUME NEW r \in Record, r \in disk[r.dir]
        PROVE  r.dir \in todo'[p]
    BY <1>2, <1>4, <1>8 DEF Record
  <1>9. LoadedInv' /\ JobInv'
    <2>1. LoadedInv'
      BY <1>3, <1>7 DEF IInv, LoadedInv
    <2>2. ASSUME NEW j \in jobs, j \in disk[j.dir], NEW q \in Admins, pc'[q] = "load"
          PROVE  Passed(q, j)'
      BY <1>4, <1>8, <2>2 DEF IInv, TypeOK, JobInv, Passed, Keeps, Of
    <2> QED
      BY <1>3, <1>7, <2>1, <2>2 DEF IInv, JobInv, Keeps, Of
  <1>10. AloneInv'
    <2>1. ASSUME NEW q \in alone', pc'[q] = "load", NEW r \in registry
          PROVE  /\ \A s \in found'[q] : s.dir = r.dir => s.version >= r.version
                 /\ r \in disk[r.dir] => Passed(q, r)'
      <3>1. r \in Record /\ q \in Admins
        BY <1>5 DEF IInv, TypeOK
      <3>2. CASE q = p
        BY <1>4, <1>8, <3>1, <3>2 DEF Passed
      <3>3. CASE q # p
        BY <1>3, <1>4, <2>1, <3>1, <3>3 DEF IInv, AloneInv, Passed, Keeps, Of
      <3> QED
        BY <3>2, <3>3
    <2> QED
      BY <1>3, <2>1 DEF AloneInv
  <1>11. QuietInv'
    <2>1. ASSUME NEW q \in quiet'
          PROVE  /\ pc'[q] = "load" =>
                     /\ found'[q] = Served(Dirs \ todo'[q])
                     /\ \A d \in Dirs \ todo'[q] : disk[d] # {} => \A e \in todo'[q] : d < e
                 /\ pc'[q] \in {"answer", "done"} => registry = Served(Dirs)
                 /\ pc'[q] = "done" => answer'[q] = {r.says.id : r \in Served(Dirs)}
      <3>1. CASE q = p
        BY <1>2, <1>4, <3>1 DEF Served
      <3>2. CASE q # p
        <4>1. q \in quiet /\ q \in Admins \ {p}
          BY <1>3, <3>2 DEF IInv, TypeOK
        <4> QED
          BY <1>4, <4>1 DEF IInv, QuietInv
      <3> QED
        BY <3>1, <3>2
    <2>2. \A D : Served(D)' = Served(D)
      BY <1>3 DEF Served
    <2> QED
      BY <1>3, <2>1, <2>2 DEF QuietInv
  <1> QED
    BY <1>5, <1>6, <1>9, <1>10, <1>11 DEF IInv

LEMMA LoadNextInv == ASSUME IInv, NEW p \in Admins, LoadNext(p) PROVE IInv'
  <1>1. PICK d \in todo[p] :
            /\ \A e \in todo[p] : d <= e
            /\ todo' = [todo EXCEPT ![p] = @ \ {d}]
            /\ found' = [found EXCEPT ![p] = Put(@, disk[d])]
    BY DEF LoadNext, IsNext
  <1>2. /\ pc[p] = "load"
        /\ UNCHANGED <<disk, fatal, deploys, source, registry, jobs, pc, answer, alone, quiet, callVars>>
    BY DEF LoadNext
  <1>3. d \in Dirs /\ disk[d] \subseteq Record
    BY DEF IInv, TypeOK
  <1>4. /\ todo'[p] = todo[p] \ {d} /\ found'[p] = Put(found[p], disk[d])
        /\ \A q \in Admins \ {p} : todo'[q] = todo[q] /\ found'[q] = found[q]
    BY <1>1 DEF IInv, TypeOK
  <1>5. found'[p] \subseteq found[p] \cup disk[d]
    BY <1>4 DEF Put
  <1>6. TypeOK'
    BY <1>1, <1>2, <1>3, <1>4, <1>5 DEF IInv, TypeOK, callVars
  <1>7. DiskInv'
    BY <1>2 DEF IInv, DiskInv
  <1>8. Loaded' \subseteq Loaded \cup disk[d]
    BY <1>2, <1>4, <1>5 DEF Loaded
  <1>9. \A r \in disk[d] : /\ r \in Record /\ r.dir = d /\ r.version \in Nat /\ r.version <= deploys
                           /\ \A s \in disk[d] : s = r
    BY <1>3 DEF IInv, DiskInv, Record
  <1>10. ASSUME NEW r \in Record, r \in disk[r.dir], Passed(p, r)
         PROVE  Passed(p, r)'
    <2>1. r.dir \in Dirs /\ Dirs \subseteq Nat /\ todo[p] \subseteq Dirs
      BY ServingAssumption DEF IInv, TypeOK, Record
    <2>2. CASE r.dir = d
      <3>1. Keeps(found'[p], r)
        BY <1>4, <1>10, <2>2 DEF Keeps, Put, Of
      <3>2. ASSUME NEW e \in todo'[p]
            PROVE  r.dir < e
        <4>1. e \in Nat /\ d \in Nat /\ d <= e /\ e # d
          BY <1>1, <1>4, <2>1
        <4> QED
          BY <2>2, <4>1
      <3> QED
        BY <3>1, <3>2 DEF Passed, Keeps, Of
    <2>3. CASE r.dir # d /\ r.dir \notin todo[p]
      <3>1. r.dir < d /\ \A e \in todo'[p] : r.dir < e
        BY <1>4, <1>10, <2>3 DEF Passed
      <3>2. PICK s \in found[p] : s.says.id = r.says.id /\ (s = r \/ r.dir < s.dir)
        BY <1>10, <2>3 DEF Passed, Keeps, Of
      <3>3. Keeps(found'[p], r)
        <4>1. CASE s \in found'[p]
          BY <3>2, <4>1 DEF Keeps, Of
        <4>2. CASE s \notin found'[p]
          BY <1>4, <1>9, <3>1, <3>2, <4>2 DEF Keeps, Of, Put
        <4> QED
          BY <4>1, <4>2
      <3> QED
        BY <3>1, <3>3 DEF Passed, Keeps, Of
    <2>4. CASE r.dir \in todo[p] /\ r.dir # d
      BY <1>4, <2>4 DEF Passed
    <2> QED
      BY <2>2, <2>3, <2>4
  <1>11. LoadedInv' /\ JobInv'
    <2>1. LoadedInv'
      BY <1>2, <1>3, <1>8, <1>9 DEF IInv, LoadedInv
    <2>2. ASSUME NEW j \in jobs, j \in disk[j.dir]
          PROVE  Passed(p, j)'
      BY <1>2, <2>2, <1>10 DEF IInv, TypeOK, JobInv
    <2>3. ASSUME NEW q \in Admins \ {p}, NEW j
          PROVE  Passed(q, j)' = Passed(q, j)
      BY <1>4 DEF Passed, Keeps, Of
    <2>4. JobInv'
      BY <1>2, <1>3, <1>8, <1>9, <2>2, <2>3 DEF IInv, JobInv, Keeps, Of
    <2> QED
      BY <2>1, <2>4
  <1>12. AloneInv'
    <2>1. ASSUME p \in alone, NEW r \in registry
          PROVE  /\ \A s \in found'[p] : s.dir = r.dir => s.version >= r.version
                 /\ r \in disk[r.dir] => Passed(p, r)'
      <3>1. r \in Loaded /\ r \in Record
        BY DEF IInv, TypeOK, Loaded
      <3>2. \A s \in disk[r.dir] : r.version <= s.version
        BY <3>1 DEF IInv, LoadedInv
      <3>3. \A s \in found'[p] : s.dir = r.dir => s.version >= r.version
        BY <1>2, <1>5, <1>9, <2>1, <3>2 DEF IInv, AloneInv
      <3>4. r \in disk[r.dir] => Passed(p, r)'
        BY <1>2, <1>10, <2>1, <3>1 DEF IInv, AloneInv
      <3> QED
        BY <3>3, <3>4
    <2>2. ASSUME NEW q \in Admins \ {p}, NEW r
          PROVE  Passed(q, r)' = Passed(q, r)
      BY <1>4 DEF Passed, Keeps, Of
    <2> QED
      BY <1>2, <1>4, <2>1, <2>2 DEF IInv, TypeOK, AloneInv
  <1>13. QuietInv'
    <2>1. \A D : Served(D)' = Served(D)
      BY <1>2 DEF Served
    <2>2. ASSUME p \in quiet
          PROVE  /\ found'[p] = Served(Dirs \ todo'[p])
                 /\ \A e \in Dirs \ todo'[p] : disk[e] # {} => \A f \in todo'[p] : e < f
      <3>1. /\ found[p] = Served(Dirs \ todo[p])
            /\ \A e \in Dirs \ todo[p] : disk[e] # {} => \A f \in todo[p] : e < f
        BY <1>2, <2>2 DEF IInv, QuietInv
      <3>2. Dirs \ todo'[p] = (Dirs \ todo[p]) \cup {d}
        BY <1>3, <1>4 DEF IInv, TypeOK
      <3>3. found'[p] = Served(Dirs \ todo'[p])
        BY <1>3, <1>4, <3>1, <3>2, PutServes DEF IInv
      <3>4. todo[p] \subseteq Nat
        BY ServingAssumption DEF IInv, TypeOK
      <3>5. \A e \in Dirs \ todo'[p] : disk[e] # {} => \A f \in todo'[p] : e < f
        BY <1>1, <1>4, <3>1, <3>2, <3>4
      <3> QED
        BY <3>3, <3>5
    <2>3. \A q \in quiet : q # p => q \in Admins \ {p}
      BY DEF IInv, TypeOK
    <2> QED
      BY <1>2, <1>4, <2>1, <2>2, <2>3 DEF IInv, QuietInv, Served
  <1> QED
    BY <1>6, <1>7, <1>11, <1>12, <1>13 DEF IInv

LEMMA AbortsInv == ASSUME IInv, NEW p \in Admins, LoadAborts(p) PROVE IInv'
  <1>1. /\ todo' = [todo EXCEPT ![p] = {}] /\ found' = [found EXCEPT ![p] = {}]
        /\ alone' = alone \ {p} /\ quiet' = quiet \ {p}
        /\ UNCHANGED <<disk, fatal, deploys, source, registry, jobs, answer, held, reply>>
    BY DEF LoadAborts, callVars
  <1>2. /\ pc'[p] = "failed" /\ found'[p] = {}
        /\ \A q \in Admins \ {p} : pc'[q] = pc[q] /\ todo'[q] = todo[q] /\ found'[q] = found[q]
    BY DEF LoadAborts, IInv, TypeOK
  <1>3. TypeOK'
    BY <1>1 DEF IInv, TypeOK, LoadAborts
  <1>4. DiskInv'
    BY <1>1 DEF IInv, DiskInv
  <1>5. Loaded' \subseteq Loaded
    BY <1>1, <1>2 DEF Loaded
  <1>6. LoadedInv' /\ JobInv'
    BY <1>1, <1>2, <1>5 DEF IInv, LoadedInv, JobInv, Passed, Keeps, Of
  <1>7. AloneInv'
    BY <1>1, <1>2, <1>3 DEF IInv, TypeOK, AloneInv, Passed, Keeps, Of
  <1>8. QuietInv'
    BY <1>1, <1>2, <1>3 DEF IInv, TypeOK, QuietInv, Served
  <1> QED
    BY <1>3, <1>4, <1>6, <1>7, <1>8 DEF IInv

LEMMA AssignInv == ASSUME IInv, NEW p \in Admins, Assign(p) PROVE IInv'
  <1>1. TypeOK'
    BY DEF IInv, TypeOK, Assign, callVars
  <1>2. DiskInv'
    BY DEF IInv, DiskInv, Assign
  <1>3. Loaded' \subseteq Loaded
    BY DEF Loaded, Assign
  <1>4. LoadedInv' /\ JobInv'
    <2>1. /\ todo[p] = {} /\ pc[p] = "load" /\ registry' = found[p]
          /\ UNCHANGED <<disk, deploys, jobs, todo, found>>
          /\ \A q \in Admins : pc'[q] = "load" => pc[q] = "load"
      BY DEF Assign, IInv, TypeOK
    <2> QED
      BY <1>3, <2>1 DEF IInv, LoadedInv, JobInv, Passed, Keeps, Of
  <1>5. pc'[p] = "answer" /\ alone' \subseteq {p} /\ quiet' \subseteq quiet \cap {p}
    BY DEF IInv, TypeOK, Assign
  <1>6. AloneInv'
    BY <1>5 DEF AloneInv
  <1>7. p \in quiet => found[p] = Served(Dirs)
    BY DEF IInv, QuietInv, Assign
  <1>8. QuietInv'
    BY <1>5, <1>7 DEF QuietInv, Served, Assign
  <1> QED
    BY <1>1, <1>2, <1>4, <1>6, <1>8 DEF IInv

LEMMA AnswerInv == ASSUME IInv, NEW p \in Admins, Answer(p) PROVE IInv'
  <1>1. TypeOK'
    BY DEF IInv, TypeOK, Answer, Record, Manifest, callVars
  <1>2. DiskInv' /\ LoadedInv' /\ JobInv'
    <2>1. \A q \in Admins : pc'[q] = "load" => pc[q] = "load"
      BY DEF IInv, TypeOK, Answer
    <2> QED
      BY <2>1 DEF IInv, DiskInv, LoadedInv, JobInv, Loaded, Passed, Keeps, Of, Answer
  <1>3. AloneInv'
    BY DEF IInv, TypeOK, AloneInv, Passed, Keeps, Of, Answer
  <1>4. QuietInv'
    BY DEF IInv, TypeOK, QuietInv, Served, Answer
  <1> QED
    BY <1>1, <1>2, <1>3, <1>4 DEF IInv

\* Neither requests for a bot nor a stutter touch what the invariant is about.
LEMMA CallInv ==
    ASSUME IInv, TypeOK', UNCHANGED <<disk, fatal, deploys, registry, jobs, reloadVars>>
    PROVE  IInv'
  BY DEF IInv, DiskInv, LoadedInv, JobInv, Loaded, AloneInv, Passed, Keeps, Of,
         QuietInv, Served, reloadVars

LEMMA StepInv == IInv /\ [Next]_vars => IInv'
  <1> SUFFICES ASSUME IInv, [Next]_vars
               PROVE  IInv'
    OBVIOUS
  <1>1. ASSUME NEW c \in Callers, NEW id \in Ids, Trigger(c, id)
        PROVE  IInv'
    <2>1. TypeOK'
      BY <1>1 DEF IInv, TypeOK, Trigger, Of, reloadVars
    <2> QED
      BY <1>1, <2>1, CallInv DEF Trigger
  <1>2. ASSUME NEW c \in Callers, StartRun(c)
        PROVE  IInv'
    <2>1. TypeOK'
      BY <1>2 DEF IInv, TypeOK, StartRun, reloadVars
    <2> QED
      BY <1>2, <2>1, CallInv DEF StartRun
  <1>3. CASE UNCHANGED vars
    <2>1. TypeOK'
      BY <1>3 DEF IInv, TypeOK, vars, reloadVars, callVars
    <2> QED
      BY <1>3, <2>1, CallInv DEF vars
  <1> QED
    BY <1>1, <1>2, <1>3, RestartInv, DeployInv, ReloadInv, LoadNextInv, AbortsInv, AssignInv,
       AnswerInv DEF Next

-----------------------------------------------------------------------------

\* The invariant holds throughout.
LEMMA Invariant == Spec => []IInv
  BY InitInv, StepInv, PTL DEF Spec

LEMMA UntouchedHolds == Spec => []UntouchedInv
  <1>1. Init => UntouchedInv
    <2> SUFFICES ASSUME Init
                 PROVE  UntouchedInv
      OBVIOUS
    <2>1. TypeOK /\ registry = Served(Dirs) /\ \A p \in Admins : pc[p] = "idle"
      BY InitInv DEF Init, IInv
    <2> QED
      BY <2>1, ServedFinds DEF UntouchedInv
  <1>2. IInv /\ UntouchedInv /\ [Next]_vars => UntouchedInv'
    <2> SUFFICES ASSUME IInv, UntouchedInv, [Next]_vars
                 PROVE  UntouchedInv'
      OBVIOUS
    <2>1. CASE Restart
      <3>1. registry' = Served(Dirs) /\ disk' = disk /\ \A p \in Admins : pc'[p] = "idle"
        BY <2>1 DEF Restart
      <3>2. TypeOK
        BY DEF IInv
      <3> QED
        BY <3>1, <3>2, ServedFinds DEF UntouchedInv, Of
    <2>2. ASSUME NEW d \in Dirs, Deploy(d)
          PROVE  UntouchedInv'
      <3>1. \A e \in Dirs : \A r \in disk'[e] : r.version = 0 => r \in disk[e]
        BY <2>2 DEF Deploy, IInv, TypeOK
      <3> QED
        BY <2>2, <3>1 DEF UntouchedInv, Of, Deploy
    <2>3. ASSUME NEW p \in Admins, Reload(p)
          PROVE  UntouchedInv'
      BY <2>3 DEF UntouchedInv, Of, Reload, Listings, IInv, TypeOK
    <2>4. ASSUME NEW p \in Admins, LoadNext(p)
          PROVE  UntouchedInv'
      <3>1. PICK d \in todo[p] :
                /\ todo' = [todo EXCEPT ![p] = @ \ {d}]
                /\ found' = [found EXCEPT ![p] = Put(@, disk[d])]
        BY <2>4 DEF LoadNext
      <3>2. /\ todo'[p] = todo[p] \ {d} /\ found'[p] = Put(found[p], disk[d])
            /\ \A q \in Admins \ {p} : todo'[q] = todo[q] /\ found'[q] = found[q]
        BY <3>1 DEF IInv, TypeOK
      <3>3. pc[p] = "load" /\ UNCHANGED <<disk, registry, pc>>
        BY <2>4 DEF LoadNext
      <3>4. ASSUME NEW e \in Dirs, NEW r \in disk[e], r.version = 0, e \notin todo'[p]
            PROVE  Of(r.says.id, found'[p]) # {}
        <4>1. CASE e = d
          BY <3>2, <4>1 DEF Of, Put
        <4>2. CASE e # d
          <5>1. PICK s \in found[p] : s.says.id = r.says.id
            BY <3>2, <3>3, <3>4, <4>2 DEF UntouchedInv, Of
          <5> QED
            BY <3>2, <5>1 DEF Of, Put
        <4> QED
          BY <4>1, <4>2
      <3> QED
        BY <3>2, <3>3, <3>4 DEF UntouchedInv
    <2>5. ASSUME NEW p \in Admins, Assign(p)
          PROVE  UntouchedInv'
      <3>1. /\ pc[p] = "load" /\ todo[p] = {} /\ registry' = found[p]
            /\ \A q \in Admins : pc'[q] = "load" => pc[q] = "load"
            /\ UNCHANGED <<disk, todo, found>>
        BY <2>5 DEF Assign, IInv, TypeOK
      <3> QED
        BY <3>1 DEF UntouchedInv
    <2>6. ASSUME NEW p \in Admins, Answer(p)
          PROVE  UntouchedInv'
      BY <2>6 DEF UntouchedInv, Answer, IInv, TypeOK
    <2>7. ASSUME NEW p \in Admins, LoadAborts(p)
          PROVE  UntouchedInv'
      <3>1. /\ pc'[p] = "failed" /\ UNCHANGED <<disk, registry>>
            /\ \A q \in Admins \ {p} : pc'[q] = pc[q] /\ todo'[q] = todo[q] /\ found'[q] = found[q]
        BY <2>7 DEF LoadAborts, IInv, TypeOK
      <3> QED
        BY <3>1 DEF UntouchedInv
    <2>8. CASE UNCHANGED <<disk, registry, reloadVars>>
      BY <2>8 DEF UntouchedInv, reloadVars
    <2> QED
      BY <2>1, <2>2, <2>3, <2>4, <2>5, <2>6, <2>7, <2>8
         DEF Next, Trigger, StartRun, vars, reloadVars
  <1> QED
    BY <1>1, <1>2, Invariant, PTL DEF Spec

\* Every variable keeps its type (Serving's state, registry.py and routers.py).
THEOREM TypeCorrect == Spec => []TypeOK
  <1>1. IInv => TypeOK
    BY DEF IInv
  <1> QED
    BY <1>1, Invariant, PTL

\* However many reloads overlap or abort, one that is answered and was not
\* disturbed serves exactly what loads, the last directory for a bot_id
\* (registry.py:59-73).
THEOREM QuietReloadsServeTheDisk == Spec => []QuietReloadServesDisk
  <1>1. IInv => QuietReloadServesDisk
    BY DEF IInv, QuietInv, QuietReloadServesDisk
  <1> QED
    BY <1>1, Invariant, PTL

\* However reloads overlap or abort, the scheduler runs no bot in a newer version
\* than is served from the same directory, and a scheduled bot whose files are
\* left alone is served from them or from a later directory (scheduler.py:28-39).
THEOREM JobsAreNeverAheadHolds == Spec => []JobsAreNeverAhead
  <1>1. IInv => JobsAreNeverAhead
    BY DEF IInv, JobInv, Loaded, Of, JobsAreNeverAhead
  <1> QED
    BY <1>1, Invariant, PTL

\* A reload alone drops no bot the disk still has, nor serves one from the same
\* directory in an older version (routers.py:273).
THEOREM NoReloadStepsBack == Spec => NoStepBack
  <1> DEFINE A ==
        \A p \in alone : pc[p] = "load" /\ pc'[p] = "answer" =>
            \A r \in registry :
                /\ \A s \in Of(r.says.id, registry') : s.dir = r.dir => s.version >= r.version
                /\ r \in disk[r.dir] => Keeps(registry', r)
  <1>1. IInv /\ [Next]_vars => [A]_vars
    <2> SUFFICES ASSUME IInv, Next, NEW p \in alone, pc[p] = "load", pc'[p] = "answer",
                        NEW r \in registry
                 PROVE  /\ \A s \in Of(r.says.id, registry') : s.dir = r.dir => s.version >= r.version
                        /\ r \in disk[r.dir] => Keeps(registry', r)
      OBVIOUS
    <2>1. Assign(p)
      BY DEF IInv, TypeOK, Next, Restart, Deploy, Reload, LoadNext, LoadAborts, Assign, Answer,
             Trigger, StartRun, reloadVars
    <2> QED
      BY <2>1 DEF IInv, AloneInv, Passed, Keeps, Of, Assign
  <1> QED
    BY <1>1, Invariant, PTL DEF Spec, NoStepBack

\* A bot nobody touched since the first start is found by every request,
\* however reloads overlap (routers.py:86-88, 273).
THEOREM UntouchedIsAlwaysFound == Spec => UntouchedIsFound
  <1> DEFINE A ==
        \A c \in Callers, id \in Ids :
            Trigger(c, id) /\ (\E d \in Dirs : \E r \in disk[d] : r.says.id = id /\ r.version = 0)
                => reply'[c] # 404
  <1>1. IInv /\ UntouchedInv /\ [Next]_vars => [A]_vars
    <2> SUFFICES ASSUME IInv, UntouchedInv, NEW c \in Callers, NEW id \in Ids, Trigger(c, id),
                        NEW d \in Dirs, NEW r \in disk[d], r.says.id = id, r.version = 0
                 PROVE  reply'[c] # 404
      OBVIOUS
    <2>1. Of(id, registry) # {}
      BY DEF UntouchedInv
    <2> QED
      BY <2>1 DEF IInv, TypeOK, Trigger
  <1> QED
    BY <1>1, Invariant, UntouchedHolds, PTL DEF Spec, UntouchedIsFound
=============================================================================
