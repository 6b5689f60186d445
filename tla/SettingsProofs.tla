--------------------------- MODULE SettingsProofs ---------------------------
(***************************************************************************)
(* Proofs about Settings: types for any clients, profiles and files, and,  *)
(* when the calls on one profile take turns and no two profiles share a    *)
(* keyfile, that memory agrees with the disk (SavedToDisk) and that every  *)
(* keyfile is the durable register of ProfileStore (Durable).              *)
(***************************************************************************)
EXTENDS Settings, TLAPS

-----------------------------------------------------------------------------
\* What a client's call does, by what it was asked.  A call that adds or
\* updates is writing, or knows how that ended.
Storing == {"open", "write", "rename", "saved", "failed"}

Adding(c) ==
    /\ call[c].op = "add" /\ pc[c] \in Storing
    /\ call[c].file = <<FileOf[call[c].uuid], 0>>
    /\ call[c].val \in Values /\ call[c].val.uuid = call[c].uuid

Updating(c) ==
    /\ call[c].op = "update" /\ pc[c] \in Storing
    /\ call[c].val \in Values /\ call[c].val.uuid = call[c].uuid
    /\ IF call[c].file = None THEN pc[c] = "failed" ELSE HasTemp(call[c].file)

Deleting(c) ==
    /\ call[c].op = "delete" /\ pc[c] \in {"unlink", "unexport"}
    /\ call[c].val = None

Rewriting ==
    /\ call[Main].op = "load" /\ pc[Main] \in Storing
    /\ call[Main].file \in Keyfile \X {0}
    /\ call[Main].val \in Values

\* Where each goroutine is and what it carries; old keyfiles are keyfiles
\* proper.  It holds however calls overlap.
Shape ==
    /\ \A w \in Writer : pc[w] = "idle" => call[w] = None
    /\ \A c \in Client : pc[c] # "idle" =>
          /\ boot = "up" /\ call[c] # None /\ call[c].uuid \in Profile
          /\ Adding(c) \/ Updating(c) \/ Deleting(c)
    /\ pc[Main] # "idle" => boot = "loading" /\ call[Main] # None /\ Rewriting
    /\ \A w \in Writer : pc[w] \in {"write", "rename"} => fd[w] # None
    /\ \A o \in 1 .. MaxConn : conns[o] # None => o <= gen
    /\ \A n \in Names : dir[n] # None /\ data[dir[n]].old => n[2] = 0
    /\ \A i \in Inode : data[i].old => data[i].val \in Values

\* The files of a profile: its keyfile, and temporary files that belong to it.
Owns(u, n) == u \in Profile => FileOf[u] = n[1]

\* One call at a time works on a profile, and on its files alone.
Turns ==
    /\ \A c, d \in Client : pc[c] # "idle" /\ pc[d] # "idle"
                              /\ call[c].uuid = call[d].uuid => c = d
    /\ \A c \in Client : pc[c] # "idle" /\ call[c].file # None
                              => Owns(call[c].uuid, call[c].file)

\* No two names lead to one file; a file holds settings of the profile it
\* belongs to, a keyfile proper those of one.
Files ==
    /\ \A m, n \in Names : dir[m] # None /\ dir[m] = dir[n] => m = n
    /\ \A n \in Names : dir[n] # None =>
          /\ Owns(data[dir[n]].val.uuid, n)
          /\ n[2] = 0 => data[dir[n]].val \in Values

\* A goroutine that writes has the file open that its temporary name leads to.
Opened ==
    \A w \in Writer :
        /\ pc[w] \in {"write", "rename"} => fd[w] = dir[Temp(call[w].file)]
        /\ pc[w] = "rename" => data[fd[w]].val = call[w].val
        /\ pc[w] \in {"write", "rename", "saved"} => ~readonly

\* A connection's file belongs to its profile, two connections do not share
\* a keyfile, and one that is not listed is being deleted.
Connections ==
    /\ \A o \in 1 .. MaxConn : conns[o] # None =>
          /\ conns[o].file # None =>
                /\ Owns(conns[o].val.uuid, conns[o].file)
                /\ conns[o].file[2] = 0 => conns[o].val \in Values
          /\ ~conns[o].listed =>
                \E c \in Client : pc[c] \in {"unlink", "unexport"} /\ call[c].conn = o
    /\ \A o, q \in 1 .. MaxConn :
          /\ conns[o] # None /\ conns[q] # None
          /\ conns[o].file # None /\ conns[o].file = conns[q].file
          /\ conns[o].file[2] = 0
          => o = q

\* What a call was asked about is still there when it ends.
Asked ==
    \A c \in Client : pc[c] # "idle" =>
        LET o == call[c].conn IN
        /\ call[c].op = "add" =>
              \A q \in Listed : conns[q].val.uuid # call[c].uuid
        /\ call[c].op = "update" =>
              /\ o \in Listed /\ conns[o].file = call[c].file
              /\ conns[o].val = call[c].val
        /\ call[c].op = "delete" =>
              /\ o \in 1 .. MaxConn /\ conns[o] # None /\ ~conns[o].listed
              /\ conns[o].file = call[c].file
              /\ conns[o].val.uuid = call[c].uuid

\* While the store is read, every file is still to be read, being rewritten,
\* or read: the rewrite of a keyfile leaves its settings as they are.
Reading ==
    /\ boot # "loading" => todo = {}
    /\ boot = "down" => \A o \in 1 .. MaxConn : conns[o] = None
    /\ \A o \in 1 .. MaxConn : conns[o] # None => conns[o].file \notin todo
    /\ pc[Main] # "idle" =>
          /\ call[Main].file \notin todo
          /\ \A o \in 1 .. MaxConn :
                conns[o] # None => conns[o].file # call[Main].file
          /\ OnFile(call[Main].file[1]) = call[Main].val

\* Memory and disk agree where no call is under way and none has failed.
Agree ==
    /\ \A o \in Listed, k \in Keyfile :
          /\ conns[o].file = <<k, 0>>
          /\ CallsOn(k) = {} /\ answer[k] # "failed"
          => OnFile(k) = conns[o].val
    /\ \A c \in Client, k \in Keyfile :
          /\ pc[c] = "saved" /\ call[c].file = <<k, 0>>
          => OnFile(k) = call[c].val

IInv == Shape /\ Turns /\ Files /\ Opened /\ Connections /\ Asked /\ Reading /\ Agree

-----------------------------------------------------------------------------
\* The names of files: the temporary file of a file is another one of the
\* same keyfile.
LEMMA TempName ==
    ASSUME NEW n \in Names, n[2] < MaxTemp
    PROVE  /\ Temp(n) \in Names /\ Temp(n) # n
           /\ Temp(n)[1] = n[1] /\ Temp(n)[2] = n[2] + 1
  BY ConstantsTyped DEF Names, Temp

LEMMA ProperTemp ==
    ASSUME NEW n \in Keyfile \X {0}
    PROVE  n \in Names /\ n[2] < MaxTemp /\ HasTemp(n) /\ n # None
<1>1. n \in Names /\ n[2] < MaxTemp
  BY ConstantsTyped DEF Names
<1> QED
  BY <1>1, NoneIsNothing DEF HasTemp

\* What writeKeyfile does to the disk and to the goroutine that runs it
LEMMA Opening ==
    ASSUME TypeOK, NEW w \in Writer, OpenTemp(w), call[w].file \in Names,
           call[w].file[2] < MaxTemp
    PROVE  \E i \in Inode :
             /\ pc[w] = "open" /\ ~readonly
             /\ dir' = [dir EXCEPT ![Temp(call[w].file)] = i]
             /\ data' = [data EXCEPT ![i] = [val |-> Empty, old |-> FALSE]]
             /\ fd' = [fd EXCEPT ![w] = i]
             /\ pc' = [pc EXCEPT ![w] = "write"]
             /\ \/ dir[Temp(call[w].file)] = i
                \/ \A n \in Names : dir[n] # i
<1> DEFINE tmp == Temp(call[w].file)
           unused == {i \in Inode : /\ \A n \in Names : dir[n] # i
                                    /\ \A v \in Writer : fd[v] # i}
           i == IF dir[tmp] # None THEN dir[tmp] ELSE CHOOSE j \in unused : TRUE
<1>1. tmp \in Names
  BY TempName
<1>2. dir[tmp] \in Inode \cup {None}
  BY <1>1 DEF TypeOK
<1>3. CASE dir[tmp] # None
  BY <1>2, <1>3 DEF OpenTemp, Goto
<1>4. CASE dir[tmp] = None
  <2>1. unused # {}
    BY <1>4 DEF OpenTemp
  <2>2. i \in unused
    BY <1>4, <2>1
  <2> QED
    BY <2>2 DEF OpenTemp, Goto
<1> QED
  BY <1>3, <1>4

\* The goroutine w alone moves.
Only(w) ==
    \A v \in Writer : v # w => /\ pc'[v] = pc[v] /\ call'[v] = call[v]
                               /\ fd'[v] = fd[v]

PCs == {"idle", "open", "write", "rename", "saved", "failed", "unlink",
        "unexport"}

\* The goroutine w goes from one place of a call to the next.
LEMMA Going ==
    ASSUME TypeOK, NEW w \in Writer, NEW p \in PCs, Goto(w, p),
           UNCHANGED <<call, fd>>
    PROVE  pc' \in [Writer -> PCs] /\ pc'[w] = p /\ Only(w)
  BY DEF TypeOK, PCs, Goto, Only

\* The goroutine w ends.
LEMMA Ending ==
    ASSUME TypeOK, NEW w \in Writer, NEW told \in {"saved", "failed"}, End(w, told)
    PROVE  /\ pc' \in [Writer -> PCs] /\ pc'[w] = "idle"
           /\ call' \in [Writer -> Calls \cup {None}] /\ call'[w] = None
           /\ fd' \in [Writer -> Inode \cup {None}]
           /\ answer' \in [Keyfile -> {"none", "saved", "failed"}]
           /\ Only(w)
           /\ \A k \in Keyfile :
                 answer'[k] = IF w # Main /\ call[w].file = <<k, 0>>
                              THEN told ELSE answer[k]
<1> USE DEF TypeOK, End
<1>1. /\ pc' \in [Writer -> PCs] /\ pc'[w] = "idle"
      /\ call' \in [Writer -> Calls \cup {None}] /\ call'[w] = None
      /\ fd' \in [Writer -> Inode \cup {None}]
      /\ Only(w)
  BY DEF Goto, PCs, Only
<1> DEFINE n == call[w].file
<1>2. CASE w = Main \/ n = None \/ n \notin Keyfile \X {0}
  <2>1. answer' = answer
    BY <1>2
  <2>2. ASSUME NEW k \in Keyfile PROVE ~(w # Main /\ n = <<k, 0>>)
    <3>1. <<k, 0>> \in Keyfile \X {0} /\ <<k, 0>> # None
      BY ProperTemp
    <3> QED
      BY <1>2, <3>1
  <2> QED
    BY <1>1, <2>1, <2>2
<1>3. CASE ~(w = Main \/ n = None \/ n \notin Keyfile \X {0})
  <2>1. answer' = [answer EXCEPT ![n[1]] = told] /\ n[1] \in Keyfile
        /\ n = <<n[1], 0>>
    BY <1>3
  <2> QED
    BY <1>1, <1>3, <2>1
<1> QED
  BY <1>2, <1>3

\* A connection is made and listed under the next path.
LEMMA Appending ==
    ASSUME TypeOK, NEW val \in Values \cup {Empty}, NEW file \in Names \cup {None},
           Append(val, file)
    PROVE  /\ gen \in Nat /\ gen' = gen + 1 /\ gen' \in 1 .. MaxConn
           /\ conns' \in [1 .. MaxConn -> Conns \cup {None}]
           /\ conns'[gen'] = [val |-> WithUuid(val), file |-> file,
                              listed |-> TRUE]
           /\ \A o \in 1 .. MaxConn : o # gen' => conns'[o] = conns[o]
           /\ val \in Values => WithUuid(val) = val
<1>1. gen \in Nat /\ gen' = gen + 1 /\ gen' \in 1 .. MaxConn
  BY ConstantsTyped DEF Append, TypeOK
<1>2. WithUuid(val) \in Values \cup {[Empty EXCEPT !.uuid = Fresh]}
      /\ (val \in Values => WithUuid(val) = val)
  <2>1. CASE val \in Values
    BY <2>1, NamesDistinct DEF Values, WithUuid
  <2>2. CASE val = Empty
    <3>1. val \notin Values
      BY <2>2, NamesDistinct DEF Values, Empty
    <3> QED
      BY <2>2, <3>1 DEF WithUuid, Empty
  <2> QED
    BY <2>1, <2>2
<1>3. [val |-> WithUuid(val), file |-> file, listed |-> TRUE] \in Conns
  BY <1>2 DEF Conns
<1> QED
  BY <1>1, <1>2, <1>3 DEF Append, TypeOK

-----------------------------------------------------------------------------
LEMMA TypeInit == Init => TypeOK /\ Shape
<1> SUFFICES ASSUME Init PROVE TypeOK /\ Shape
  OBVIOUS
<1> DEFINE Chosen(n) == CHOOSE u \in OnDisk : n = <<FileOf[u], 0>>
           Holder(i) == CHOOSE u \in OnDisk : Place[u] = i
<1>1. /\ Place \in [OnDisk -> Inode]
      /\ \A u, v \in OnDisk : Place[u] = Place[v] => u = v
  BY RoomForStored DEF Place
<1>2. ASSUME NEW u \in OnDisk
      PROVE  Stored(u) \in [val : Values, old : BOOLEAN]
  <2>1. (CHOOSE r \in Rev : TRUE) \in Rev
    BY ConstantsTyped
  <2> QED
    BY <2>1, ConstantsTyped DEF Stored, Values
<1>3. dir \in [Names -> Inode \cup {None}]
  BY <1>1 DEF Init
<1>4. data \in [Inode -> Contents] /\ \A i \in Inode : data[i].old => data[i].val \in Values
  BY <1>2 DEF Init, Contents
<1>5. ASSUME NEW n \in Names, dir[n] # None PROVE n[2] = 0
  BY <1>5 DEF Init
<1>6. /\ pc = [w \in Writer |-> "idle"] /\ call = [w \in Writer |-> None]
      /\ fd = [w \in Writer |-> None] /\ conns = [o \in 1 .. MaxConn |-> None]
      /\ gen = 0 /\ todo = {} /\ boot = "down" /\ crashes = 0
      /\ answer = [k \in Keyfile |-> "none"] /\ readonly \in BOOLEAN
  BY DEF Init
<1>7. TypeOK
  BY <1>3, <1>4, <1>6, ConstantsTyped DEF TypeOK
<1> QED
  BY <1>4, <1>5, <1>6, <1>7 DEF Shape, Writer

\* A goroutine that writes has a file to write, and settings to put there.
LEMMA Carrying ==
    ASSUME TypeOK, Shape, NEW w \in Writer,
           pc[w] \in {"open", "write", "rename", "saved"}
    PROVE  /\ call[w] \in Calls /\ call[w].file \in Names
           /\ call[w].file[2] < MaxTemp /\ call[w].val \in Values
           /\ Temp(call[w].file) \in Names
<1>1. call[w] \in Calls
  BY DEF TypeOK, Shape, Writer
<1>2. /\ call[w].file \in Names /\ call[w].file[2] < MaxTemp
      /\ call[w].val \in Values
  <2>1. CASE w = Main
    <3>1. Rewriting
      BY <2>1 DEF Shape
    <3> QED
      BY <2>1, <3>1, ProperTemp DEF Rewriting
  <2>2. CASE w \in Client
    <3>1. call[w].uuid \in Profile /\ (Adding(w) \/ Updating(w) \/ Deleting(w))
      BY <2>2 DEF Shape
    <3>2. CASE Adding(w)
      <4>1. <<FileOf[call[w].uuid], 0>> \in Keyfile \X {0}
        BY <3>1, ConstantsTyped
      <4> QED
        BY <3>2, <4>1, ProperTemp DEF Adding
    <3>3. CASE Updating(w)
      <4>1. call[w].file # None /\ HasTemp(call[w].file) /\ call[w].val \in Values
        BY <3>3 DEF Updating
      <4> QED
        BY <1>1, <4>1 DEF Calls, HasTemp
    <3> QED
      BY <3>1, <3>2, <3>3 DEF Deleting
  <2> QED
    BY <2>1, <2>2 DEF Writer
<1> QED
  BY <1>1, <1>2, TempName

\* A goroutine that goes on with its call keeps Shape, with the disk as it
\* was or changed in a temporary file.
LEMMA ShapeGoing ==
    ASSUME TypeOK, Shape, NEW w \in Writer, Only(w), UNCHANGED <<call, boot, conns, gen>>,
           pc[w] \in {"open", "write", "rename"}, pc'[w] \in Storing,
           pc'[w] \in {"write", "rename"} => fd'[w] # None,
           \A n \in Names : dir'[n] # None /\ data'[dir'[n]].old => n[2] = 0,
           \A i \in Inode : data'[i].old => data'[i].val \in Values
    PROVE  Shape'
<1>1. \A v \in Writer : pc'[v] = "idle" => call'[v] = None
  BY DEF Only, Shape, Storing
<1>2. ASSUME NEW c \in Client, pc'[c] # "idle"
      PROVE  /\ boot' = "up" /\ call'[c] # None /\ call'[c].uuid \in Profile
             /\ Adding(c)' \/ Updating(c)' \/ Deleting(c)'
  <2>1. CASE c # w
    BY <1>2, <2>1 DEF Only, Shape, Writer, Adding, Updating, Deleting
  <2>2. CASE c = w
    BY <1>2, <2>2 DEF Shape, Writer, Adding, Updating, Deleting, Storing
  <2> QED
    BY <2>1, <2>2
<1>3. pc'[Main] # "idle" => boot' = "loading" /\ call'[Main] # None /\ Rewriting'
  <2>1. CASE Main # w
    BY <2>1 DEF Only, Shape, Writer, Rewriting
  <2>2. CASE Main = w
    BY <2>2 DEF Shape, Writer, Rewriting, Storing
  <2> QED
    BY <2>1, <2>2
<1>4. \A v \in Writer : pc'[v] \in {"write", "rename"} => fd'[v] # None
  BY DEF Only, Shape
<1>5. \A o \in 1 .. MaxConn : conns'[o] # None => o <= gen'
  BY DEF Shape
<1> QED
  BY <1>1, <1>2, <1>3, <1>4, <1>5 DEF Shape

LEMMA WriteTypes ==
    ASSUME TypeOK, Shape, NEW w \in Writer, WriteKeyfile(w)
    PROVE  TypeOK' /\ Shape'
<1> USE DEF disk, memory
<1> DEFINE tmp == Temp(call[w].file)
<1>1. CASE OpenTemp(w)
  <2>0. /\ call[w].file \in Names /\ call[w].file[2] < MaxTemp /\ tmp \in Names
        /\ tmp[2] # 0
    BY <1>1, Carrying, TempName DEF OpenTemp, Names
  <2>1. PICK i \in Inode :
             /\ pc[w] = "open"
             /\ dir' = [dir EXCEPT ![tmp] = i]
             /\ data' = [data EXCEPT ![i] = [val |-> Empty, old |-> FALSE]]
             /\ fd' = [fd EXCEPT ![w] = i]
             /\ pc' = [pc EXCEPT ![w] = "write"]
    BY <1>1, <2>0, Opening
  <2>2. /\ dir' \in [Names -> Inode \cup {None}] /\ dir'[tmp] = i
        /\ \A n \in Names : n # tmp => dir'[n] = dir[n]
    BY <2>0, <2>1 DEF TypeOK
  <2>3. [val |-> Empty, old |-> FALSE] \in Contents
    BY DEF Contents
  <2>4. data' \in [Inode -> Contents] /\ ~data'[i].old
        /\ \A j \in Inode : j # i => data'[j] = data[j]
    BY <2>1, <2>3 DEF TypeOK
  <2>5. /\ pc' \in [Writer -> PCs] /\ pc'[w] = "write" /\ Only(w)
        /\ fd' \in [Writer -> Inode \cup {None}] /\ fd'[w] = i
        /\ UNCHANGED <<readonly, boot, conns, gen, todo, call, answer, crashes>>
    BY <1>1, <2>1 DEF TypeOK, PCs, OpenTemp, Only
  <2>6. TypeOK'
    BY <2>2, <2>4, <2>5 DEF TypeOK, PCs
  <2>7. i # None
    BY NamesDistinct
  <2>8. \A n \in Names : dir'[n] # None /\ data'[dir'[n]].old => n[2] = 0
    BY <2>2, <2>4 DEF TypeOK, Shape
  <2>9. \A j \in Inode : data'[j].old => data'[j].val \in Values
    BY <2>4 DEF Shape
  <2> QED
    BY <2>1, <2>5, <2>6, <2>7, <2>8, <2>9, ShapeGoing DEF Storing
<1>2. CASE WriteTemp(w)
  <2>1. fd[w] \in Inode /\ call[w].val \in Values /\ pc[w] = "write"
    BY <1>2, Carrying DEF WriteTemp, TypeOK, Shape
  <2>2. [val |-> call[w].val, old |-> FALSE] \in Contents
    BY <2>1 DEF Contents
  <2>3. data' \in [Inode -> Contents] /\ ~data'[fd[w]].old
        /\ \A j \in Inode : j # fd[w] => data'[j] = data[j]
    BY <1>2, <2>1, <2>2 DEF WriteTemp, TypeOK
  <2>4. pc' \in [Writer -> PCs] /\ pc'[w] = "rename" /\ Only(w)
    BY <1>2, Going DEF WriteTemp, PCs
  <2>5. UNCHANGED <<readonly, dir, boot, conns, gen, todo, call, fd, answer, crashes>>
    BY <1>2 DEF WriteTemp
  <2>6. TypeOK'
    BY <2>3, <2>4, <2>5 DEF TypeOK, PCs
  <2>7. \A n \in Names : dir'[n] # None /\ data'[dir'[n]].old => n[2] = 0
    BY <2>3, <2>5 DEF TypeOK, Shape
  <2>8. \A j \in Inode : data'[j].old => data'[j].val \in Values
    BY <2>3 DEF Shape
  <2>9. fd'[w] # None
    BY <2>1, <2>5, NamesDistinct
  <2> QED
    BY <2>1, <2>4, <2>5, <2>6, <2>7, <2>8, <2>9, ShapeGoing DEF Storing
<1>3. CASE Rename(w)
  <2>1. /\ pc[w] = "rename" /\ call[w].file \in Names /\ tmp \in Names
        /\ tmp[2] # 0 /\ dir[tmp] \in Inode
    BY <1>3, Carrying, TempName DEF Rename, TypeOK, Names
  <2>2. /\ dir' \in [Names -> Inode \cup {None}]
        /\ dir'[call[w].file] = dir[tmp]
        /\ \A n \in Names : n # call[w].file => dir'[n] \in {dir[n], None}
    BY <1>3, <2>1 DEF Rename, TypeOK
  <2>3. pc' \in [Writer -> PCs] /\ pc'[w] = "saved" /\ Only(w)
    BY <1>3, Going DEF Rename, PCs
  <2>4. UNCHANGED <<readonly, data, boot, conns, gen, todo, call, fd, answer, crashes>>
    BY <1>3 DEF Rename
  <2>5. TypeOK'
    BY <2>2, <2>3, <2>4 DEF TypeOK, PCs
  <2>6. ~data[dir[tmp]].old
    BY <1>3, <2>1 DEF Rename, Shape
  <2>7. \A n \in Names : dir'[n] # None /\ data'[dir'[n]].old => n[2] = 0
    BY <2>2, <2>4, <2>6 DEF Shape
  <2>8. \A j \in Inode : data'[j].old => data'[j].val \in Values
    BY <2>4 DEF Shape
  <2> QED
    BY <2>1, <2>3, <2>4, <2>5, <2>7, <2>8, ShapeGoing DEF Storing
<1>4. CASE WriteFails(w)
  <2>1. pc' \in [Writer -> PCs] /\ pc'[w] = "failed" /\ Only(w)
    BY <1>4, Going DEF WriteFails, PCs
  <2>2. UNCHANGED <<readonly, dir, data, boot, conns, gen, todo, call, fd, answer, crashes>>
    BY <1>4 DEF WriteFails
  <2>3. TypeOK'
    BY <2>1, <2>2 DEF TypeOK, PCs
  <2> QED
    BY <1>4, <2>1, <2>2, <2>3, ShapeGoing DEF WriteFails, Storing, Shape
<1> QED
  BY <1>1, <1>2, <1>3, <1>4 DEF WriteKeyfile

\* One goroutine's call changes, on a disk as it was, and nobody opens a file.
LEMMA ShapeCall ==
    ASSUME TypeOK, Shape, NEW w \in Writer, Only(w), UNCHANGED <<boot, data>>,
           \A n \in Names : dir'[n] \in {dir[n], None},
           pc'[w] \notin {"write", "rename"},
           pc'[w] = "idle" => call'[w] = None,
           w \in Client /\ pc'[w] # "idle" =>
               /\ boot = "up" /\ call'[w] # None /\ call'[w].uuid \in Profile
               /\ Adding(w)' \/ Updating(w)' \/ Deleting(w)',
           w = Main /\ pc'[w] # "idle" =>
               boot = "loading" /\ call'[w] # None /\ Rewriting',
           \A o \in 1 .. MaxConn : conns'[o] # None => o <= gen'
    PROVE  Shape'
<1>1. \A v \in Writer : pc'[v] = "idle" => call'[v] = None
  BY DEF Only, Shape
<1>2. ASSUME NEW c \in Client, pc'[c] # "idle"
      PROVE  /\ boot' = "up" /\ call'[c] # None /\ call'[c].uuid \in Profile
             /\ Adding(c)' \/ Updating(c)' \/ Deleting(c)'
  <2>1. CASE c # w
    BY <1>2, <2>1 DEF Only, Shape, Writer, Adding, Updating, Deleting
  <2>2. CASE c = w
    BY <1>2, <2>2
  <2> QED
    BY <2>1, <2>2
<1>3. pc'[Main] # "idle" => boot' = "loading" /\ call'[Main] # None /\ Rewriting'
  <2>1. CASE Main # w
    BY <2>1 DEF Only, Shape, Writer, Rewriting
  <2>2. CASE Main = w
    BY <2>2
  <2> QED
    BY <2>1, <2>2
<1>4. \A v \in Writer : pc'[v] \in {"write", "rename"} => fd'[v] # None
  BY DEF Only, Shape
<1>5. \A n \in Names : dir'[n] # None /\ data'[dir'[n]].old => n[2] = 0
  BY DEF Shape
<1>6. \A i \in Inode : data'[i].old => data'[i].val \in Values
  BY DEF Shape
<1> QED
  BY <1>1, <1>2, <1>3, <1>4, <1>5, <1>6 DEF Shape

\* A goroutine begins a call.
LEMMA Beginning ==
    ASSUME TypeOK, NEW w \in Writer, NEW p \in PCs, NEW r \in Calls, Goto(w, p),
           call' = [call EXCEPT ![w] = r], UNCHANGED fd
    PROVE  /\ pc' \in [Writer -> PCs] /\ pc'[w] = p
           /\ call' \in [Writer -> Calls \cup {None}] /\ call'[w] = r
           /\ Only(w)
  BY DEF TypeOK, PCs, Goto, Only

\* Update and Delete are called on a connection that is there.
LEMMA Called ==
    ASSUME TypeOK, NEW u \in Profile, NEW o \in Callable(u)
    PROVE  /\ o \in 1 .. MaxConn /\ conns[o] # None /\ conns[o] \in Conns
           /\ conns[o].val \in Values /\ conns[o].val.uuid = u
<1>1. o \in 1 .. MaxConn /\ conns[o] # None /\ conns[o].val.uuid = u
  BY DEF Callable, ByUuid, Listed
<1>2. conns[o] \in Conns
  BY <1>1 DEF TypeOK
<1> QED
  BY <1>1, <1>2, NamesDistinct DEF Conns, Empty

LEMMA RequestTypes ==
    ASSUME TypeOK, Shape, NEW c \in Client, Request(c)
    PROVE  TypeOK' /\ Shape'
<1> USE DEF disk, memory
<1>0. c \in Writer /\ c # Main
  BY NamesDistinct DEF Writer
<1>1. ASSUME NEW u \in Profile, NEW rev \in Rev, NEW psk \in {"none", "omitted", "set"},
             Add(c, u, rev, psk)
      PROVE  TypeOK' /\ Shape'
  <2> DEFINE r == [op |-> "add", uuid |-> u, conn |-> 0,
                   file |-> <<FileOf[u], 0>>,
                   val |-> [uuid |-> u, rev |-> rev, psk |-> psk]]
  <2>1. r.val \in Values /\ r.file \in Names
    BY ConstantsTyped DEF Values, Names
  <2>2. r \in Calls
    BY <2>1, ConstantsTyped DEF Calls
  <2>3. /\ pc' \in [Writer -> PCs] /\ pc'[c] = "open"
        /\ call' \in [Writer -> Calls \cup {None}] /\ call'[c] = r /\ Only(c)
    BY <1>0, <1>1, <2>2, Beginning DEF Add, PCs
  <2>4. UNCHANGED <<readonly, dir, data, boot, conns, gen, todo, fd, answer, crashes>>
    BY <1>1 DEF Add
  <2>5. TypeOK'
    BY <2>3, <2>4 DEF TypeOK, PCs
  <2>6. Adding(c)' /\ call'[c] # None /\ call'[c].uuid \in Profile /\ boot = "up"
    BY <1>1, <2>1, <2>2, <2>3, NoneIsNothing DEF Adding, Storing, Add, MayCall
  <2> QED
    BY <1>0, <2>3, <2>4, <2>5, <2>6, ShapeCall DEF Shape
<1>2. ASSUME NEW u \in Profile, MayCall(c, u), NEW o \in Callable(u), Delete(c, o)
      PROVE  TypeOK' /\ Shape'
  <2> DEFINE r == [op |-> "delete", uuid |-> conns[o].val.uuid, conn |-> o,
                   file |-> conns[o].file, val |-> None]
  <2>1. /\ o \in 1 .. MaxConn /\ conns[o] # None /\ conns[o] \in Conns
        /\ conns[o].val.uuid = u
    BY Called
  <2>2. r \in Calls
    BY <2>1, ConstantsTyped DEF Calls, Conns
  <2>3. /\ pc' \in [Writer -> PCs] /\ pc'[c] = "unlink"
        /\ call' \in [Writer -> Calls \cup {None}] /\ call'[c] = r /\ Only(c)
    BY <1>0, <1>2, <2>2, Beginning DEF Delete, PCs
  <2>4. UNCHANGED <<readonly, dir, data, boot, gen, todo, fd, answer, crashes>>
    BY <1>2 DEF Delete
  <2>5. [conns[o] EXCEPT !.listed = FALSE] \in Conns
    BY <2>1 DEF Conns
  <2>6. /\ conns' \in [1 .. MaxConn -> Conns \cup {None}]
        /\ \A q \in 1 .. MaxConn : q # o => conns'[q] = conns[q]
    BY <1>2, <2>1, <2>5 DEF Delete, TypeOK
  <2>7. TypeOK'
    BY <2>3, <2>4, <2>6 DEF TypeOK, PCs
  <2>8. Deleting(c)' /\ call'[c] # None /\ call'[c].uuid \in Profile /\ boot = "up"
    BY <1>2, <2>1, <2>2, <2>3, NoneIsNothing DEF Deleting, MayCall
  <2>9. \A q \in 1 .. MaxConn : conns'[q] # None => q <= gen'
    BY <2>1, <2>4, <2>6 DEF Shape
  <2> QED
    BY <1>0, <2>3, <2>4, <2>7, <2>8, <2>9, ShapeCall
<1>3. ASSUME NEW u \in Profile, MayCall(c, u), NEW o \in Callable(u),
             HasTemp(conns[o].file), NEW rev \in Rev,
             NEW psk \in {"none", "omitted", "set"}, Update(c, o, rev, psk)
      PROVE  TypeOK' /\ Shape'
  <2> DEFINE prev == conns[o].val
             next == [uuid |-> prev.uuid, rev |-> rev, psk |-> psk]
             kept == KeepSecrets(next, prev)
             r == [op |-> "update", uuid |-> prev.uuid, conn |-> o,
                   file |-> conns[o].file, val |-> kept]
             p == IF conns[o].file = None THEN "failed" ELSE "open"
  <2>1. /\ o \in 1 .. MaxConn /\ conns[o] # None /\ conns[o] \in Conns
        /\ prev.uuid = u
    BY Called
  <2>2. kept \in Values /\ kept.uuid = u
    BY <2>1 DEF KeepSecrets, Values
  <2>3. r \in Calls
    BY <2>1, <2>2, ConstantsTyped DEF Calls, Conns
  <2>4. call' = [call EXCEPT ![c] = r] /\ Goto(c, p) /\ p \in PCs /\ UNCHANGED fd
    BY <1>3 DEF Update, Written, PCs
  <2>5. /\ pc' \in [Writer -> PCs] /\ pc'[c] = p
        /\ call' \in [Writer -> Calls \cup {None}] /\ call'[c] = r /\ Only(c)
    BY <1>0, <2>3, <2>4, Beginning
  <2>6. UNCHANGED <<readonly, dir, data, boot, gen, todo, fd, answer, crashes>>
    BY <1>3 DEF Update
  <2>7. [conns[o] EXCEPT !.val = kept] \in Conns
    BY <2>1, <2>2 DEF Conns
  <2>8. /\ conns' \in [1 .. MaxConn -> Conns \cup {None}]
        /\ \A q \in 1 .. MaxConn : q # o => conns'[q] = conns[q]
    BY <1>3, <2>1, <2>7 DEF Update, TypeOK
  <2>9. TypeOK'
    BY <2>5, <2>6, <2>8 DEF TypeOK, PCs
  <2>10. Updating(c)' /\ call'[c] # None /\ call'[c].uuid \in Profile /\ boot = "up"
    BY <1>3, <2>1, <2>2, <2>3, <2>5, NoneIsNothing
    DEF Updating, MayCall, Storing, HasTemp
  <2>11. \A q \in 1 .. MaxConn : conns'[q] # None => q <= gen'
    BY <2>1, <2>6, <2>8 DEF Shape
  <2> QED
    BY <1>0, <2>5, <2>6, <2>9, <2>10, <2>11, ShapeCall
<1> QED
  BY <1>1, <1>2, <1>3 DEF Request

LEMMA StepTypes ==
    ASSUME TypeOK, Shape, NEW c \in Client, Step(c)
    PROVE  TypeOK' /\ Shape'
<1> USE DEF disk, memory
<1>0. c \in Writer /\ c # Main
  BY NamesDistinct DEF Writer
<1>1. ASSUME Added(c) PROVE TypeOK' /\ Shape'
  <2> DEFINE f == IF pc[c] = "saved" THEN call[c].file ELSE None
  <2>1. call[c].val \in Values /\ f \in Names \cup {None}
    <3>1. Adding(c) /\ call[c].uuid \in Profile
      BY <1>1 DEF Added, Shape, Updating, Deleting
    <3> QED
      BY <3>1, ConstantsTyped DEF Adding, Names
  <2>2. Append(call[c].val, f) /\ End(c, pc[c]) /\ pc[c] \in {"saved", "failed"}
    BY <1>1 DEF Added
  <2>3. /\ gen \in Nat /\ gen' = gen + 1 /\ gen' \in 1 .. MaxConn
        /\ conns' \in [1 .. MaxConn -> Conns \cup {None}]
        /\ \A o \in 1 .. MaxConn : o # gen' => conns'[o] = conns[o]
    BY <2>1, <2>2, Appending
  <2>4. /\ pc' \in [Writer -> PCs] /\ pc'[c] = "idle"
        /\ call' \in [Writer -> Calls \cup {None}] /\ call'[c] = None
        /\ fd' \in [Writer -> Inode \cup {None}]
        /\ answer' \in [Keyfile -> {"none", "saved", "failed"}] /\ Only(c)
    BY <1>0, <2>2, Ending
  <2>5. UNCHANGED <<readonly, dir, data, boot, todo, crashes>>
    BY <1>1 DEF Added
  <2>6. TypeOK'
    BY <2>3, <2>4, <2>5 DEF TypeOK, PCs
  <2>7. \A o \in 1 .. MaxConn : conns'[o] # None => o <= gen'
    BY <2>3 DEF Shape
  <2> QED
    BY <1>0, <2>4, <2>5, <2>6, <2>7, ShapeCall
<1>2. ASSUME Updated(c) PROVE TypeOK' /\ Shape'
  <2>1. /\ pc' \in [Writer -> PCs] /\ pc'[c] = "idle"
        /\ call' \in [Writer -> Calls \cup {None}] /\ call'[c] = None
        /\ fd' \in [Writer -> Inode \cup {None}]
        /\ answer' \in [Keyfile -> {"none", "saved", "failed"}] /\ Only(c)
    BY <1>0, <1>2, Ending DEF Updated
  <2>2. UNCHANGED <<readonly, dir, data, boot, conns, gen, todo, crashes>>
    BY <1>2 DEF Updated
  <2>3. TypeOK'
    BY <2>1, <2>2 DEF TypeOK, PCs
  <2> QED
    BY <1>0, <2>1, <2>2, <2>3, ShapeCall DEF Shape
<1>3. ASSUME Unlink(c) PROVE TypeOK' /\ Shape'
  <2>1. /\ call[c].uuid \in Profile /\ boot = "up" /\ call[c] # None
        /\ call[c].file \in Names \cup {None} /\ Deleting(c)
    BY <1>0, <1>3 DEF Unlink, Shape, Adding, Updating, Storing, TypeOK, Calls
  <2>2. /\ dir' \in [Names -> Inode \cup {None}]
        /\ \A n \in Names : dir'[n] \in {dir[n], None}
    BY <1>3, <2>1 DEF Unlink, TypeOK
  <2>3. pc' \in [Writer -> PCs] /\ pc'[c] = "unexport" /\ Only(c)
    BY <1>0, <1>3, Going DEF Unlink, PCs
  <2>4. UNCHANGED <<readonly, data, boot, conns, gen, todo, call, fd, answer, crashes>>
    BY <1>3 DEF Unlink
  <2>5. TypeOK'
    BY <2>2, <2>3, <2>4 DEF TypeOK, PCs
  <2>6. Deleting(c)'
    BY <2>1, <2>3, <2>4 DEF Deleting
  <2> QED
    BY <1>0, <2>1, <2>2, <2>3, <2>4, <2>5, <2>6, ShapeCall DEF Shape
<1>4. ASSUME Unexport(c) PROVE TypeOK' /\ Shape'
  <2>1. /\ pc' \in [Writer -> PCs] /\ pc'[c] = "idle"
        /\ call' \in [Writer -> Calls \cup {None}] /\ call'[c] = None
        /\ fd' \in [Writer -> Inode \cup {None}]
        /\ answer' \in [Keyfile -> {"none", "saved", "failed"}] /\ Only(c)
    BY <1>0, <1>4, Ending DEF Unexport
  <2>2. UNCHANGED <<readonly, dir, data, boot, gen, todo, crashes>>
    BY <1>4 DEF Unexport
  <2>3. /\ conns' \in [1 .. MaxConn -> Conns \cup {None}]
        /\ \A o \in 1 .. MaxConn : conns'[o] \in {conns[o], None}
    BY <1>4 DEF Unexport, TypeOK
  <2>4. TypeOK'
    BY <2>1, <2>2, <2>3 DEF TypeOK, PCs
  <2> QED
    BY <1>0, <2>1, <2>2, <2>3, <2>4, ShapeCall DEF Shape
<1> QED
  BY <1>0, <1>1, <1>2, <1>3, <1>4, WriteTypes DEF Step

LEMMA NewSettingsTypes ==
    ASSUME TypeOK, Shape, NewSettings
    PROVE  TypeOK' /\ Shape'
<1> USE DEF disk, memory
<1>0. Main \in Writer /\ Main \notin Client
  BY NamesDistinct DEF Writer
<1>1. ASSUME ReadDir \/ Export \/ \E n \in Names : LoadGone(n)
      PROVE  TypeOK' /\ Shape'
  <2>1. UNCHANGED <<readonly, dir, data, conns, gen, pc, call, fd, answer, crashes>>
    BY <1>1 DEF ReadDir, Export, LoadGone
  <2>2. /\ boot' \in {"down", "loading", "up"} /\ todo' \in SUBSET Names
        /\ boot' = boot \/ (boot # "up" /\ pc[Main] = "idle")
    BY <1>1 DEF ReadDir, Export, LoadGone, TypeOK, Shape
  <2>3. TypeOK'
    BY <2>1, <2>2 DEF TypeOK
  <2> QED
    BY <2>1, <2>2, <2>3 DEF Shape, Adding, Updating, Deleting, Rewriting
<1>2. ASSUME NEW n \in Names, Load(n) PROVE TypeOK' /\ Shape'
  <2>1. dir[n] \in Inode /\ data[dir[n]].val \in Values \cup {Empty}
    BY <1>2 DEF Load, TypeOK, Contents
  <2>2. /\ gen \in Nat /\ gen' = gen + 1 /\ gen' \in 1 .. MaxConn
        /\ conns' \in [1 .. MaxConn -> Conns \cup {None}]
        /\ \A o \in 1 .. MaxConn : o # gen' => conns'[o] = conns[o]
    BY <1>2, <2>1, Appending DEF Load
  <2>3. UNCHANGED <<readonly, dir, data, boot, pc, call, fd, answer, crashes>>
        /\ todo' \in SUBSET Names
    BY <1>2 DEF Load, TypeOK
  <2>4. TypeOK'
    BY <2>2, <2>3 DEF TypeOK
  <2>5. \A o \in 1 .. MaxConn : conns'[o] # None => o <= gen'
    BY <2>2 DEF Shape
  <2> QED
    BY <2>3, <2>4, <2>5 DEF Shape, Adding, Updating, Deleting, Rewriting
<1>3. ASSUME NEW n \in Names, LoadLegacy(n) PROVE TypeOK' /\ Shape'
  <2> DEFINE r == [op |-> "load", uuid |-> None, conn |-> 0, file |-> n,
                   val |-> data[dir[n]].val]
  <2>1. dir[n] \in Inode /\ data[dir[n]].val \in Values /\ n \in Keyfile \X {0}
    BY <1>3 DEF LoadLegacy, TypeOK, Shape, Names
  <2>2. r \in Calls
    BY <2>1, ConstantsTyped DEF Calls
  <2>3. /\ pc' \in [Writer -> PCs] /\ pc'[Main] = "open"
        /\ call' \in [Writer -> Calls \cup {None}] /\ call'[Main] = r /\ Only(Main)
    BY <1>0, <1>3, <2>2, Beginning DEF LoadLegacy, PCs
  <2>4. UNCHANGED <<readonly, dir, data, boot, conns, gen, fd, answer, crashes>>
        /\ todo' \in SUBSET Names /\ boot = "loading"
    BY <1>3 DEF LoadLegacy, TypeOK
  <2>5. TypeOK'
    BY <2>3, <2>4 DEF TypeOK, PCs
  <2>6. Rewriting' /\ call'[Main] # None
    BY <2>1, <2>2, <2>3, NoneIsNothing DEF Rewriting, Storing
  <2> QED
    BY <1>0, <2>3, <2>4, <2>5, <2>6, ShapeCall DEF Shape
<1>4. ASSUME Loaded PROVE TypeOK' /\ Shape'
  <2>1. call[Main].val \in Values /\ call[Main].file \in Names
    BY <1>4, ProperTemp DEF Loaded, Shape, Rewriting
  <2>2. /\ gen \in Nat /\ gen' = gen + 1 /\ gen' \in 1 .. MaxConn
        /\ conns' \in [1 .. MaxConn -> Conns \cup {None}]
        /\ \A o \in 1 .. MaxConn : o # gen' => conns'[o] = conns[o]
    BY <1>4, <2>1, Appending DEF Loaded
  <2>3. /\ pc' \in [Writer -> PCs] /\ pc'[Main] = "idle"
        /\ call' \in [Writer -> Calls \cup {None}] /\ call'[Main] = None
        /\ fd' \in [Writer -> Inode \cup {None}]
        /\ answer' \in [Keyfile -> {"none", "saved", "failed"}] /\ Only(Main)
    BY <1>0, <1>4, Ending DEF Loaded
  <2>4. UNCHANGED <<readonly, dir, data, boot, todo, crashes>>
    BY <1>4 DEF Loaded
  <2>5. TypeOK'
    BY <2>2, <2>3, <2>4 DEF TypeOK, PCs
  <2>6. \A o \in 1 .. MaxConn : conns'[o] # None => o <= gen'
    BY <2>2 DEF Shape
  <2> QED
    BY <1>0, <2>3, <2>4, <2>5, <2>6, ShapeCall
<1> QED
  BY <1>0, <1>1, <1>2, <1>3, <1>4, WriteTypes DEF NewSettings

LEMMA CrashTypes ==
    ASSUME TypeOK, Shape, Crash
    PROVE  TypeOK' /\ Shape'
<1>1. /\ pc' = [w \in Writer |-> "idle"] /\ call' = [w \in Writer |-> None]
      /\ fd' = [w \in Writer |-> None] /\ conns' = [o \in 1 .. MaxConn |-> None]
      /\ gen' = 0 /\ todo' = {} /\ boot' = "down" /\ crashes' \in 0 .. MaxCrash
      /\ UNCHANGED <<readonly, dir, data, answer>>
  BY ConstantsTyped DEF Crash, TypeOK, disk
<1>2. TypeOK'
  BY <1>1, ConstantsTyped DEF TypeOK
<1> QED
  BY <1>1, <1>2 DEF Shape, Writer

LEMMA TypeStep == TypeOK /\ Shape /\ [Next]_vars => TypeOK' /\ Shape'
<1> SUFFICES ASSUME TypeOK, Shape, [Next]_vars PROVE TypeOK' /\ Shape'
  OBVIOUS
<1>1. CASE UNCHANGED vars
  BY <1>1 DEF vars, disk, memory, TypeOK, Shape, Adding, Updating, Deleting, Rewriting
<1> QED
  BY <1>1, RequestTypes, StepTypes, NewSettingsTypes, CrashTypes DEF Next

\* Every variable of the settings store keeps a value of its kind, however the
\* calls on its profiles overlap: in particular a connection always has a
\* uuid, one of its own when its file named none (settings.go:90-95).
THEOREM TypeCorrect == Spec => []TypeOK
<1>1. Spec => [](TypeOK /\ Shape)
  BY TypeInit, TypeStep, PTL DEF Spec
<1> QED
  BY <1>1, PTL

-----------------------------------------------------------------------------
\* The calls on a profile take turns, and no two profiles share a keyfile.
OwnFiles ==
    /\ TakeTurns
    /\ \A u, v \in Profile : FileOf[u] = FileOf[v] => u = v

\* Whoever serves something has the files of its keyfile for itself; while the
\* store is read, no client is served.
LEMMA Alone ==
    ASSUME OwnFiles, TypeOK, Shape, Turns, NEW v \in Writer, NEW w \in Writer,
           pc[v] # "idle", pc[w] # "idle",
           call[v].file # None, call[w].file # None,
           call[v].file[1] = call[w].file[1]
    PROVE  v = w
<1>1. CASE v = Main \/ w = Main
  BY <1>1 DEF Shape, Writer
<1>2. CASE v \in Client /\ w \in Client
  <2>1. /\ call[v].uuid \in Profile /\ FileOf[call[v].uuid] = call[v].file[1]
        /\ call[w].uuid \in Profile /\ FileOf[call[w].uuid] = call[w].file[1]
    BY <1>2 DEF Shape, Turns, Owns
  <2> QED
    BY <1>2, <2>1 DEF OwnFiles, Turns
<1> QED
  BY <1>1, <1>2 DEF Writer

LEMMA Serving ==
    ASSUME TypeOK, Shape, Reading, NEW c \in Client, boot = "up"
    PROVE  pc[Main] = "idle" /\ todo = {} /\ c \in Writer /\ c # Main
  BY NamesDistinct DEF Shape, Reading, Writer

\* The keyfile that is being rewritten holds the settings read from it.
LEMMA RewritesOwn ==
    ASSUME TypeOK, Shape, Files, Reading, pc[Main] # "idle"
    PROVE  /\ call[Main].file \in Keyfile \X {0} /\ call[Main].val \in Values
           /\ OnFile(call[Main].file[1]) = call[Main].val
           /\ Owns(call[Main].val.uuid, call[Main].file)
<1>1. /\ call[Main].file \in Keyfile \X {0} /\ call[Main].val \in Values
      /\ OnFile(call[Main].file[1]) = call[Main].val
  BY DEF Shape, Rewriting, Reading
<1>2. /\ call[Main].file \in Names
      /\ call[Main].file = <<call[Main].file[1], 0>>
  BY <1>1, ProperTemp
<1>3. /\ dir[call[Main].file] # None
      /\ data[dir[call[Main].file]].val = call[Main].val
  BY <1>1, <1>2, NoneIsNothing DEF OnFile
<1> QED
  BY <1>1, <1>2, <1>3 DEF Files

\* What is written belongs to the file it is written to.
LEMMA WritesOwn ==
    ASSUME TypeOK, Shape, Turns, Files, Reading, NEW w \in Writer,
           pc[w] \in {"open", "write", "rename", "saved"}
    PROVE  Owns(call[w].val.uuid, call[w].file)
<1>1. CASE w = Main
  BY <1>1, RewritesOwn
<1>2. CASE w \in Client
  <2>1. call[w].file # None
    BY Carrying, NoneIsNothing
  <2> QED
    BY <1>2, <2>1 DEF Shape, Turns, Adding, Updating, Deleting
<1> QED
  BY <1>1, <1>2 DEF Writer

\* The settings in the keyfiles change in one step of writing only: the rename
\* puts in place what the call carries.
LEMMA WriteDisk ==
    ASSUME OwnFiles, TypeOK, Shape, Turns, Files, Opened, Reading,
           NEW w \in Writer, WriteKeyfile(w)
    PROVE  /\ Files' /\ Opened'
           /\ \A k \in Keyfile :
                 IF pc'[w] = "saved" /\ call[w].file = <<k, 0>>
                 THEN OnFile(k)' = call[w].val ELSE OnFile(k)' = OnFile(k)
<1> USE DEF disk, memory
<1> DEFINE file == call[w].file
           tmp == Temp(file)
<1>1. \A k \in Keyfile : <<k, 0>> \in Names
  BY ConstantsTyped DEF Names
<1>2. ASSUME NEW v \in Writer, v # w, pc[v] \in {"write", "rename"},
             pc[w] \in {"open", "write", "rename"}
      PROVE  /\ Temp(call[v].file) \in Names /\ Temp(call[v].file) # tmp
             /\ Temp(call[v].file) # file
  <2>1. /\ call[v].file \in Names /\ call[v].file[2] < MaxTemp
        /\ file \in Names /\ file[2] < MaxTemp
    BY <1>2, Carrying
  <2>2. call[v].file[1] # file[1]
    BY <1>2, <2>1, Alone, NoneIsNothing
  <2> QED
    BY <2>1, <2>2, TempName
<1>3. CASE OpenTemp(w)
  <2>0. /\ file \in Names /\ file[2] < MaxTemp /\ tmp \in Names
        /\ tmp[2] # 0 /\ tmp[1] = file[1]
    BY <1>3, Carrying, TempName DEF OpenTemp, Names
  <2>1. PICK i \in Inode :
             /\ pc[w] = "open" /\ ~readonly
             /\ dir' = [dir EXCEPT ![tmp] = i]
             /\ data' = [data EXCEPT ![i] = [val |-> Empty, old |-> FALSE]]
             /\ fd' = [fd EXCEPT ![w] = i]
             /\ pc' = [pc EXCEPT ![w] = "write"]
             /\ dir[tmp] = i \/ \A n \in Names : dir[n] # i
    BY <1>3, <2>0, Opening
  <2>2. /\ i # None /\ dir'[tmp] = i /\ data'[i].val = Empty
        /\ \A n \in Names : n # tmp => dir'[n] = dir[n] /\ dir[n] # i
        /\ \A n \in Names : n # tmp /\ dir[n] # None
                                => data'[dir'[n]] = data[dir[n]]
    BY <2>0, <2>1, NamesDistinct DEF TypeOK, Files
  <2>3. Files'
    <3>1. Empty.uuid \notin Profile
      BY NamesDistinct DEF Empty
    <3>2. \A m, n \in Names : dir'[m] # None /\ dir'[m] = dir'[n] => m = n
      BY <2>2 DEF Files
    <3>3. ASSUME NEW n \in Names, dir'[n] # None
          PROVE  /\ Owns(data'[dir'[n]].val.uuid, n)
                 /\ n[2] = 0 => data'[dir'[n]].val \in Values
      BY <2>0, <2>2, <3>1, <3>3 DEF Files, Owns
    <3> QED
      BY <3>2, <3>3 DEF Files, Owns
  <2>4. /\ pc'[w] = "write" /\ fd'[w] = i /\ UNCHANGED <<call, readonly>>
        /\ \A v \in Writer : v # w => pc'[v] = pc[v] /\ fd'[v] = fd[v]
    BY <1>3, <2>1 DEF OpenTemp, TypeOK
  <2>5. Opened'
    <3>1. ASSUME NEW v \in Writer, v # w, pc[v] \in {"write", "rename"}
          PROVE  /\ fd'[v] = dir'[Temp(call[v].file)]
                 /\ data'[fd'[v]] = data[fd[v]]
      <4>1. /\ Temp(call[v].file) \in Names /\ Temp(call[v].file) # tmp
            /\ fd[v] = dir[Temp(call[v].file)] /\ fd[v] # None
        BY <1>2, <2>1, <3>1 DEF Opened, Shape
      <4> QED
        BY <2>2, <2>4, <3>1, <4>1
    <3> QED
      BY <2>1, <2>2, <2>4, <3>1 DEF Opened
  <2>6. ASSUME NEW k \in Keyfile PROVE OnFile(k)' = OnFile(k)
    BY <1>1, <2>0, <2>2 DEF OnFile
  <2> QED
    BY <2>3, <2>4, <2>5, <2>6
<1>4. CASE WriteTemp(w)
  <2>0. /\ file \in Names /\ file[2] < MaxTemp /\ tmp \in Names
        /\ tmp[2] # 0 /\ tmp[1] = file[1] /\ pc[w] = "write"
        /\ call[w].val \in Values
    BY <1>4, Carrying, TempName DEF WriteTemp, Names
  <2>1. fd[w] = dir[tmp] /\ dir[tmp] # None /\ fd[w] \in Inode /\ ~readonly
    BY <2>0 DEF Opened, Shape, TypeOK
  <2>2. /\ UNCHANGED <<dir, call, fd, readonly>>
        /\ data'[dir[tmp]].val = call[w].val
        /\ \A j \in Inode : j # dir[tmp] => data'[j] = data[j]
        /\ pc'[w] = "rename"
        /\ \A v \in Writer : v # w => pc'[v] = pc[v]
    BY <1>4, <2>1 DEF WriteTemp, TypeOK, Goto
  <2>3. \A n \in Names : n # tmp /\ dir[n] # None
                            => data'[dir'[n]] = data[dir[n]]
    BY <2>0, <2>1, <2>2 DEF Files, TypeOK
  <2>4. Files'
    <3>1. Owns(call[w].val.uuid, tmp)
      BY <2>0, WritesOwn DEF Owns
    <3>2. \A m, n \in Names : dir'[m] # None /\ dir'[m] = dir'[n] => m = n
      BY <2>2 DEF Files
    <3>3. ASSUME NEW n \in Names, dir'[n] # None
          PROVE  /\ Owns(data'[dir'[n]].val.uuid, n)
                 /\ n[2] = 0 => data'[dir'[n]].val \in Values
      BY <2>0, <2>2, <2>3, <3>1, <3>3 DEF Files
    <3> QED
      BY <3>2, <3>3 DEF Files, Owns
  <2>5. Opened'
    <3>1. ASSUME NEW v \in Writer, v # w, pc[v] \in {"write", "rename"}
          PROVE  /\ fd'[v] = dir'[Temp(call[v].file)]
                 /\ data'[fd'[v]] = data[fd[v]]
      <4>1. /\ Temp(call[v].file) \in Names /\ Temp(call[v].file) # tmp
            /\ fd[v] = dir[Temp(call[v].file)] /\ fd[v] # None
        BY <1>2, <2>0, <3>1 DEF Opened, Shape
      <4> QED
        BY <2>2, <2>3, <4>1
    <3> QED
      BY <2>0, <2>1, <2>2, <3>1 DEF Opened
  <2>6. ASSUME NEW k \in Keyfile PROVE OnFile(k)' = OnFile(k)
    BY <1>1, <2>0, <2>2, <2>3 DEF OnFile
  <2> QED
    BY <2>2, <2>4, <2>5, <2>6
<1>5. CASE Rename(w)
  <2>0. /\ file \in Names /\ file[2] < MaxTemp /\ tmp \in Names
        /\ tmp # file /\ tmp[2] # 0 /\ tmp[1] = file[1] /\ pc[w] = "rename"
        /\ call[w].val \in Values
    BY <1>5, Carrying, TempName DEF Rename, Names
  <2>1. /\ dir[tmp] # None /\ data[dir[tmp]].val = call[w].val /\ ~readonly
    BY <1>5, <2>0 DEF Opened, Rename
  <2>2. /\ UNCHANGED <<data, call, fd, readonly>>
        /\ dir'[file] = dir[tmp] /\ dir'[tmp] = None
        /\ \A n \in Names : n # file /\ n # tmp => dir'[n] = dir[n]
        /\ pc'[w] = "saved"
        /\ \A v \in Writer : v # w => pc'[v] = pc[v]
    BY <1>5, <2>0 DEF Rename, TypeOK, Goto
  <2>3. Files'
    <3>2. \A m, n \in Names : dir'[m] # None /\ dir'[m] = dir'[n] => m = n
      BY <2>0, <2>2 DEF Files
    <3>3. ASSUME NEW n \in Names, dir'[n] # None
          PROVE  /\ Owns(data'[dir'[n]].val.uuid, n)
                 /\ n[2] = 0 => data'[dir'[n]].val \in Values
      <4>1. CASE n = file
        BY <2>0, <2>1, <2>2, <4>1 DEF Files, Owns
      <4>2. CASE n # file
        BY <2>0, <2>2, <3>3, <4>2 DEF Files
      <4> QED
        BY <4>1, <4>2
    <3> QED
      BY <3>2, <3>3 DEF Files, Owns
  <2>4. Opened'
    <3>1. ASSUME NEW v \in Writer, v # w, pc[v] \in {"write", "rename"}
          PROVE  /\ fd'[v] = dir'[Temp(call[v].file)]
                 /\ data'[fd'[v]] = data[fd[v]]
      <4>1. /\ Temp(call[v].file) \in Names /\ Temp(call[v].file) # tmp
            /\ Temp(call[v].file) # file
            /\ fd[v] = dir[Temp(call[v].file)]
        BY <1>2, <2>0, <3>1 DEF Opened
      <4> QED
        BY <2>2, <4>1
    <3> QED
      BY <2>0, <2>1, <2>2, <3>1 DEF Opened
  <2>5. ASSUME NEW k \in Keyfile
        PROVE  IF pc'[w] = "saved" /\ call[w].file = <<k, 0>>
               THEN OnFile(k)' = call[w].val ELSE OnFile(k)' = OnFile(k)
    BY <1>1, <2>0, <2>1, <2>2 DEF OnFile
  <2> QED
    BY <2>3, <2>4, <2>5
<1>6. CASE WriteFails(w)
  <2>1. /\ UNCHANGED <<readonly, dir, data, call, fd>> /\ pc'[w] = "failed"
        /\ \A v \in Writer : v # w => pc'[v] = pc[v]
    BY <1>6 DEF WriteFails, TypeOK, Goto
  <2> QED
    BY <2>1 DEF Files, Owns, Opened, OnFile
<1> QED
  BY <1>3, <1>4, <1>5, <1>6 DEF WriteKeyfile

\* A step that leaves the disk alone, of a goroutine that does not write
LEMMA Undisturbed ==
    ASSUME TypeOK, Files, Opened, NEW w \in Writer, Only(w),
           UNCHANGED <<readonly, dir, data>>,
           pc'[w] \notin {"write", "rename", "saved"}
    PROVE  /\ Files' /\ Opened'
           /\ \A k \in Keyfile : OnFile(k)' = OnFile(k)
  BY DEF Files, Owns, Opened, OnFile, Only

-----------------------------------------------------------------------------
LEMMA WriteMoves ==
    ASSUME TypeOK, Shape, NEW w \in Writer, WriteKeyfile(w)
    PROVE  /\ pc[w] \in {"open", "write", "rename"}
           /\ pc'[w] \in {"write", "rename", "saved", "failed"}
           /\ \A v \in Writer : v # w => pc'[v] = pc[v]
           /\ UNCHANGED <<readonly, boot, conns, gen, todo, call, answer, crashes>>
  BY DEF WriteKeyfile, OpenTemp, WriteTemp, Rename, WriteFails, Goto, TypeOK,
         disk, memory

LEMMA WriteKeeps ==
    ASSUME OwnFiles, TypeOK, IInv, Shape', NEW w \in Writer, WriteKeyfile(w)
    PROVE  IInv'
<1> USE DEF IInv
<1>1. /\ pc[w] \in {"open", "write", "rename"}
      /\ pc'[w] \in {"write", "rename", "saved", "failed"}
      /\ \A v \in Writer : v # w => pc'[v] = pc[v]
      /\ UNCHANGED <<readonly, boot, conns, gen, todo, call, answer, crashes>>
  BY WriteMoves
<1>2. /\ Files' /\ Opened'
      /\ \A k \in Keyfile :
            IF pc'[w] = "saved" /\ call[w].file = <<k, 0>>
            THEN OnFile(k)' = call[w].val ELSE OnFile(k)' = OnFile(k)
  BY WriteDisk
<1>3. \A c \in Client : /\ pc'[c] = "idle" <=> pc[c] = "idle"
                        /\ pc'[c] \in {"unlink", "unexport"}
                              <=> pc[c] \in {"unlink", "unexport"}
  BY <1>1 DEF Writer
<1>4. Turns'
  BY <1>1, <1>3 DEF Turns, Owns
<1>5. Connections'
  BY <1>1, <1>3 DEF Connections, Owns
<1>6. Asked'
  BY <1>1, <1>3 DEF Asked, Listed
<1>7. Reading'
  <2>1. ASSUME pc'[Main] # "idle"
        PROVE  /\ pc[Main] # "idle"
               /\ OnFile(call[Main].file[1])' = call[Main].val
    <3>1. pc[Main] # "idle" /\ boot = "loading"
      BY <1>1, <2>1 DEF Writer, Shape
    <3>2. w = Main
      BY <1>1, <3>1 DEF Shape, Writer
    <3>3. /\ call[Main].file[1] \in Keyfile
          /\ OnFile(call[Main].file[1]) = call[Main].val
      BY <3>1 DEF Shape, Rewriting, Reading
    <3> QED
      BY <1>1, <1>2, <3>1, <3>2, <3>3
  <2> QED
    BY <1>1, <2>1 DEF Reading
<1>8. Agree'
  <2>1. \A k \in Keyfile : CallsOn(k)' = CallsOn(k)
    BY <1>1, <1>3 DEF CallsOn
  <2>2. ASSUME NEW o \in Listed, NEW k \in Keyfile, conns[o].file = <<k, 0>>,
               CallsOn(k) = {}
        PROVE  OnFile(k)' = OnFile(k)
    <3>1. SUFFICES ASSUME pc'[w] = "saved", call[w].file = <<k, 0>> PROVE FALSE
      BY <1>2
    <3>2. CASE w \in Client
      BY <1>1, <2>2, <3>1, <3>2 DEF CallsOn
    <3>3. CASE w = Main
      BY <1>1, <2>2, <3>1, <3>3 DEF Reading, Listed
    <3> QED
      BY <3>2, <3>3 DEF Writer
  <2>3. ASSUME NEW c \in Client, NEW k \in Keyfile, pc'[c] = "saved",
               call[c].file = <<k, 0>>
        PROVE  OnFile(k)' = call[c].val
    <3>1. CASE c = w
      BY <1>2, <2>3, <3>1
    <3>2. CASE c # w
      <4>1. pc[c] = "saved" /\ OnFile(k) = call[c].val /\ c \in Writer
        BY <1>1, <2>3, <3>2 DEF Agree, Writer
      <4>2. call[w].file # <<k, 0>>
        <5>1. SUFFICES ASSUME call[w].file = <<k, 0>> PROVE FALSE
          OBVIOUS
        <5>2. <<k, 0>> # None
          BY ProperTemp
        <5> QED
          BY <1>1, <2>3, <3>2, <4>1, <5>1, <5>2, Alone
      <4> QED
        BY <1>2, <4>1, <4>2
    <3> QED
      BY <3>1, <3>2
  <2>4. Listed' = Listed
    BY <1>1 DEF Listed
  <2> QED
    BY <1>1, <2>1, <2>2, <2>3, <2>4 DEF Agree
<1> QED
  BY <1>2, <1>4, <1>5, <1>6, <1>7, <1>8

\* A call on profile u begins: nobody else is serving one on it.
LEMMA Asking ==
    ASSUME OwnFiles, TypeOK, IInv, NEW c \in Client, NEW u \in Profile,
           MayCall(c, u), NEW r \in Calls, r.uuid = u, Only(c), call'[c] = r,
           pc'[c] \in {"open", "failed", "unlink"},
           UNCHANGED <<readonly, dir, data, boot, todo, answer>>,
           r.file # None => Owns(u, r.file)
    PROVE  /\ Turns' /\ Files' /\ Opened' /\ Reading'
           /\ \A d \in Client : d # c =>
                 /\ pc'[d] = pc[d] /\ call'[d] = call[d]
                 /\ pc[d] # "idle" => call[d].uuid # u
           /\ \A k \in Keyfile : /\ OnFile(k)' = OnFile(k)
                                 /\ CallsOn(k)' = {} => CallsOn(k) = {}
           /\ \A d \in Client, k \in Keyfile :
                 /\ pc'[d] = "saved" /\ call'[d].file = <<k, 0>>
                 => OnFile(k)' = call'[d].val
<1> USE DEF IInv
<1>0. boot = "up" /\ pc[c] = "idle" /\ c \in Writer
  BY DEF MayCall, Writer
<1>1. /\ Files' /\ Opened'
      /\ \A k \in Keyfile : OnFile(k)' = OnFile(k)
  BY <1>0, Undisturbed
<1>2. ASSUME NEW d \in Client, d # c
      PROVE  /\ pc'[d] = pc[d] /\ call'[d] = call[d]
             /\ pc[d] # "idle" => call[d].uuid # u
  BY <1>2 DEF Only, Writer, MayCall, OwnFiles
<1>3. Turns'
  BY <1>0, <1>2 DEF Turns, Owns
<1>4. Reading'
  <2>1. pc[Main] = "idle" /\ todo = {} /\ c # Main /\ Main \in Writer
    BY <1>0, Serving DEF Writer
  <2> QED
    BY <1>0, <2>1 DEF Only, Reading
<1>5. ASSUME NEW k \in Keyfile, CallsOn(k)' = {} PROVE CallsOn(k) = {}
  BY <1>0, <1>2, <1>5 DEF CallsOn
<1>6. \A d \in Client, k \in Keyfile :
         /\ pc'[d] = "saved" /\ call'[d].file = <<k, 0>>
         => OnFile(k)' = call'[d].val
  BY <1>1, <1>2 DEF Agree
<1> QED
  BY <1>1, <1>2, <1>3, <1>4, <1>5, <1>6

LEMMA AddKeeps ==
    ASSUME OwnFiles, TypeOK, IInv, Shape', NEW c \in Client, NEW u \in Profile,
           NEW rev \in Rev, NEW psk \in {"none", "omitted", "set"},
           Add(c, u, rev, psk)
    PROVE  IInv'
<1> DEFINE r == [op |-> "add", uuid |-> u, conn |-> 0, file |-> <<FileOf[u], 0>>,
                 val |-> [uuid |-> u, rev |-> rev, psk |-> psk]]
<1>1. r \in Calls /\ Owns(u, r.file)
  BY ConstantsTyped DEF Calls, Values, Names, Owns
<1>2. c \in Writer /\ MayCall(c, u)
      /\ UNCHANGED <<readonly, dir, data, boot, conns, gen, todo, fd, answer, crashes>>
  BY DEF Add, Writer, disk, memory
<1>3. pc'[c] = "open" /\ call'[c] = r /\ Only(c)
  BY <1>1, <1>2, Beginning DEF Add, PCs
<1>4. /\ Turns' /\ Files' /\ Opened' /\ Reading'
      /\ \A d \in Client : d # c =>
            /\ pc'[d] = pc[d] /\ call'[d] = call[d]
            /\ pc[d] # "idle" => call[d].uuid # u
      /\ \A k \in Keyfile : /\ OnFile(k)' = OnFile(k)
                            /\ CallsOn(k)' = {} => CallsOn(k) = {}
      /\ \A d \in Client, k \in Keyfile :
            /\ pc'[d] = "saved" /\ call'[d].file = <<k, 0>>
            => OnFile(k)' = call'[d].val
  BY <1>1, <1>2, <1>3, Asking
<1>5. Connections'
  <2>1. pc[c] = "idle"
    BY <1>2 DEF MayCall
  <2> QED
    BY <1>2, <1>4, <2>1 DEF IInv, Connections, Owns
<1>6. Asked'
  <2>1. \A q \in Listed : conns[q].val.uuid # u
    BY DEF Add, OwnFiles
  <2>2. Listed' = Listed
    BY <1>2 DEF Listed
  <2> QED
    BY <1>2, <1>3, <1>4, <2>1, <2>2 DEF IInv, Asked
<1>7. Agree'
  BY <1>2, <1>4 DEF IInv, Agree, Listed
<1> QED
  BY <1>4, <1>5, <1>6, <1>7 DEF IInv

LEMMA DeleteKeeps ==
    ASSUME OwnFiles, TypeOK, IInv, Shape', NEW c \in Client, NEW u \in Profile,
           MayCall(c, u), NEW o \in Callable(u), Delete(c, o)
    PROVE  IInv'
<1> DEFINE r == [op |-> "delete", uuid |-> conns[o].val.uuid, conn |-> o,
                 file |-> conns[o].file, val |-> None]
<1>1. /\ o \in Listed /\ o \in 1 .. MaxConn /\ conns[o] # None
      /\ conns[o] \in Conns /\ conns[o].val.uuid = u
  BY Called DEF OwnFiles, Callable, ByUuid
<1>2. r \in Calls /\ (r.file # None => Owns(u, r.file))
  BY <1>1, ConstantsTyped DEF Calls, Conns, IInv, Connections
<1>3. /\ c \in Writer
      /\ UNCHANGED <<readonly, dir, data, boot, gen, todo, fd, answer, crashes>>
  BY DEF Delete, Writer, disk
<1>4. pc'[c] = "unlink" /\ call'[c] = r /\ Only(c)
  BY <1>2, <1>3, Beginning DEF Delete, PCs
<1>5. /\ Turns' /\ Files' /\ Opened' /\ Reading'
      /\ \A d \in Client : d # c =>
            /\ pc'[d] = pc[d] /\ call'[d] = call[d]
            /\ pc[d] # "idle" => call[d].uuid # u
      /\ \A k \in Keyfile : /\ OnFile(k)' = OnFile(k)
                            /\ CallsOn(k)' = {} => CallsOn(k) = {}
      /\ \A d \in Client, k \in Keyfile :
            /\ pc'[d] = "saved" /\ call'[d].file = <<k, 0>>
            => OnFile(k)' = call'[d].val
  BY <1>1, <1>2, <1>3, <1>4, Asking
<1>6. /\ conns'[o] = [conns[o] EXCEPT !.listed = FALSE]
      /\ \A q \in 1 .. MaxConn : q # o => conns'[q] = conns[q]
  BY <1>1 DEF Delete, TypeOK
<1>7. /\ conns'[o] # None /\ conns'[o].val = conns[o].val
      /\ conns'[o].file = conns[o].file /\ conns'[o].listed = FALSE
  BY <1>1, <1>6, NoneIsNothing DEF Conns
<1>8. Listed' = Listed \ {o}
  BY <1>6, <1>7 DEF Listed
<1>9. \A q \in 1 .. MaxConn : /\ conns'[q] # None <=> conns[q] # None
                              /\ conns'[q].val = conns[q].val
                              /\ conns'[q].file = conns[q].file
  BY <1>1, <1>6, <1>7
<1>10. pc[c] = "idle"
  BY DEF MayCall
<1>11. Connections'
  <2>1. ASSUME NEW q \in 1 .. MaxConn, conns'[q] # None, ~conns'[q].listed
        PROVE  \E d \in Client : pc'[d] \in {"unlink", "unexport"} /\ call'[d].conn = q
    <3>1. CASE q = o
      BY <1>4, <3>1
    <3>2. CASE q # o
      BY <1>5, <1>6, <1>10, <2>1, <3>2 DEF IInv, Connections
    <3> QED
      BY <3>1, <3>2
  <2> QED
    BY <1>9, <2>1 DEF IInv, Connections, Owns
<1>12. \A q \in Listed' : q \in Listed /\ q # o /\ conns'[q] = conns[q]
  BY <1>6, <1>8 DEF Listed
<1>13. Asked'
  <2>1. ASSUME NEW d \in Client, d # c, pc[d] # "idle"
        PROVE  call[d].op \in {"update", "delete"} => call[d].conn # o
    <3>1. call[d].uuid # u /\ (call[d].op = "update" => call[d].val.uuid = call[d].uuid)
      BY <1>5, <2>1 DEF IInv, Shape, Adding, Updating, Deleting
    <3> QED
      BY <1>1, <2>1, <3>1 DEF IInv, Asked
  <2>2. ASSUME NEW d \in Client, d # c, pc[d] # "idle", call[d].op = "add"
        PROVE  \A q \in Listed' : conns'[q].val.uuid # call[d].uuid
    BY <1>12, <2>2 DEF IInv, Asked
  <2>3. ASSUME NEW d \in Client, d # c, pc[d] # "idle", call[d].op = "update"
        PROVE  /\ call[d].conn \in Listed'
               /\ conns'[call[d].conn].file = call[d].file
               /\ conns'[call[d].conn].val = call[d].val
    BY <1>8, <1>12, <2>1, <2>3 DEF IInv, Asked
  <2>4. ASSUME NEW d \in Client, d # c, pc[d] # "idle", call[d].op = "delete"
        PROVE  LET q == call[d].conn IN
               /\ q \in 1 .. MaxConn /\ conns'[q] # None /\ ~conns'[q].listed
               /\ conns'[q].file = call[d].file
               /\ conns'[q].val.uuid = call[d].uuid
    BY <1>6, <2>1, <2>4 DEF IInv, Asked
  <2>5. /\ r.op = "delete" /\ r.conn \in 1 .. MaxConn /\ conns'[r.conn] # None
        /\ ~conns'[r.conn].listed /\ conns'[r.conn].file = r.file
        /\ conns'[r.conn].val.uuid = r.uuid
    BY <1>1, <1>7
  <2> QED
    BY <1>4, <1>5, <2>2, <2>3, <2>4, <2>5 DEF Asked
<1>14. Agree'
  BY <1>3, <1>5, <1>12 DEF IInv, Agree
<1> QED
  BY <1>5, <1>11, <1>13, <1>14 DEF IInv

LEMMA UpdateKeeps ==
    ASSUME OwnFiles, TypeOK, IInv, Shape', NEW c \in Client, NEW u \in Profile,
           MayCall(c, u), NEW o \in Callable(u), HasTemp(conns[o].file),
           NEW rev \in Rev, NEW psk \in {"none", "omitted", "set"},
           Update(c, o, rev, psk)
    PROVE  IInv'
<1> DEFINE prev == conns[o].val
           next == [uuid |-> prev.uuid, rev |-> rev, psk |-> psk]
           kept == KeepSecrets(next, prev)
           r == [op |-> "update", uuid |-> prev.uuid, conn |-> o,
                 file |-> conns[o].file, val |-> kept]
           p == IF conns[o].file = None THEN "failed" ELSE "open"
<1>1. /\ o \in Listed /\ o \in 1 .. MaxConn /\ conns[o] # None
      /\ conns[o] \in Conns /\ prev.uuid = u
  BY Called DEF OwnFiles, Callable, ByUuid
<1>2. kept \in Values /\ kept.uuid = u
  BY <1>1 DEF KeepSecrets, Values
<1>3. r \in Calls /\ (r.file # None => Owns(u, r.file))
  BY <1>1, <1>2, ConstantsTyped DEF Calls, Conns, IInv, Connections
<1>4. /\ c \in Writer /\ call' = [call EXCEPT ![c] = r] /\ Goto(c, p) /\ p \in PCs
      /\ UNCHANGED <<readonly, dir, data, boot, gen, todo, fd, answer, crashes>>
  BY DEF Update, Written, PCs, Writer, disk
<1>5. pc'[c] = p /\ call'[c] = r /\ Only(c)
  BY <1>3, <1>4, Beginning
<1>6. /\ Turns' /\ Files' /\ Opened' /\ Reading'
      /\ \A d \in Client : d # c =>
            /\ pc'[d] = pc[d] /\ call'[d] = call[d]
            /\ pc[d] # "idle" => call[d].uuid # u
      /\ \A k \in Keyfile : /\ OnFile(k)' = OnFile(k)
                            /\ CallsOn(k)' = {} => CallsOn(k) = {}
      /\ \A d \in Client, k \in Keyfile :
            /\ pc'[d] = "saved" /\ call'[d].file = <<k, 0>>
            => OnFile(k)' = call'[d].val
  BY <1>1, <1>3, <1>4, <1>5, Asking
<1>7. /\ conns'[o] = [conns[o] EXCEPT !.val = kept]
      /\ \A q \in 1 .. MaxConn : q # o => conns'[q] = conns[q]
  BY <1>1 DEF Update, TypeOK
<1>8. /\ conns'[o] # None /\ conns'[o].val = kept /\ conns'[o].listed
      /\ conns'[o].file = conns[o].file
  <2>1. conns'[o] \in Conns
    BY <1>1, <1>2, <1>7 DEF Conns
  <2> QED
    BY <1>1, <1>7, <2>1, NoneIsNothing DEF Conns, Listed
<1>9. Listed' = Listed
  BY <1>1, <1>7, <1>8 DEF Listed
<1>10. \A q \in 1 .. MaxConn : /\ conns'[q] # None <=> conns[q] # None
                               /\ conns'[q].val.uuid = conns[q].val.uuid
                               /\ conns'[q].file = conns[q].file
                               /\ q # o => conns'[q] = conns[q]
  BY <1>1, <1>2, <1>7, <1>8
<1>11. pc[c] = "idle"
  BY DEF MayCall
<1>12. Connections'
  <2>1. ASSUME NEW q \in 1 .. MaxConn, conns'[q] # None, ~conns'[q].listed
        PROVE  \E d \in Client : pc'[d] \in {"unlink", "unexport"} /\ call'[d].conn = q
    <3>1. q # o /\ conns'[q] = conns[q]
      BY <1>8, <1>10, <2>1
    <3> QED
      BY <1>6, <1>11, <2>1, <3>1 DEF IInv, Connections
  <2>2. ASSUME NEW q \in 1 .. MaxConn, conns'[q] # None, conns'[q].file # None
        PROVE  /\ Owns(conns'[q].val.uuid, conns'[q].file)
               /\ conns'[q].file[2] = 0 => conns'[q].val \in Values
    BY <1>2, <1>8, <1>10, <2>2 DEF IInv, Connections, Owns
  <2> QED
    BY <1>10, <2>1, <2>2 DEF IInv, Connections, Owns
<1>13. Asked'
  <2>1. ASSUME NEW d \in Client, d # c, pc[d] # "idle"
        PROVE  call[d].op \in {"update", "delete"} => call[d].conn # o
    <3>1. call[d].uuid # u /\ (call[d].op = "update" => call[d].val.uuid = call[d].uuid)
      BY <1>6, <2>1 DEF IInv, Shape, Adding, Updating, Deleting
    <3> QED
      BY <1>1, <2>1, <3>1 DEF IInv, Asked
  <2>2. ASSUME NEW d \in Client, d # c, pc[d] # "idle", call[d].op = "add"
        PROVE  \A q \in Listed : conns'[q].val.uuid # call[d].uuid
    BY <1>10, <2>2 DEF IInv, Asked, Listed
  <2>3. ASSUME NEW d \in Client, d # c, pc[d] # "idle", call[d].op = "update"
        PROVE  /\ call[d].conn \in Listed
               /\ conns'[call[d].conn].file = call[d].file
               /\ conns'[call[d].conn].val = call[d].val
    <3>1. call[d].conn \in Listed /\ call[d].conn \in 1 .. MaxConn
      BY <2>3 DEF IInv, Asked, Listed
    <3> QED
      BY <1>10, <2>1, <2>3, <3>1 DEF IInv, Asked
  <2>4. ASSUME NEW d \in Client, d # c, pc[d] # "idle", call[d].op = "delete"
        PROVE  LET q == call[d].conn IN
               /\ q \in 1 .. MaxConn /\ conns'[q] # None /\ ~conns'[q].listed
               /\ conns'[q].file = call[d].file
               /\ conns'[q].val.uuid = call[d].uuid
    BY <1>10, <2>1, <2>4 DEF IInv, Asked
  <2>5. /\ r.op = "update" /\ r.conn \in Listed
        /\ conns'[r.conn].file = r.file /\ conns'[r.conn].val = r.val
    BY <1>1, <1>8
  <2> QED
    BY <1>5, <1>6, <1>9, <2>2, <2>3, <2>4, <2>5 DEF Asked
<1>14. Agree'
  <2>1. ASSUME NEW q \in Listed, NEW k \in Keyfile, conns'[q].file = <<k, 0>>,
               CallsOn(k)' = {}, answer[k] # "failed"
        PROVE  OnFile(k)' = conns'[q].val
    <3>1. q # o
      <4>1. SUFFICES ASSUME q = o PROVE FALSE
        OBVIOUS
      <4>2. r.file = <<k, 0>> /\ r.file # None
        BY <1>8, <2>1, <4>1, ProperTemp
      <4>3. pc'[c] = "open"
        BY <1>5, <4>2
      <4>4. c \in CallsOn(k)'
        BY <1>5, <4>2, <4>3 DEF CallsOn
      <4> QED
        BY <2>1, <4>4
    <3>2. conns'[q] = conns[q] /\ CallsOn(k) = {}
      BY <1>6, <1>10, <2>1, <3>1 DEF Listed
    <3> QED
      BY <1>6, <2>1, <3>2 DEF IInv, Agree
  <2> QED
    BY <1>4, <1>6, <1>9, <2>1 DEF Agree
<1> QED
  BY <1>6, <1>12, <1>13, <1>14 DEF IInv

-----------------------------------------------------------------------------
\* The connection with the keyfile of a call is the one the call was asked
\* about; none has the keyfile that is being added.
LEMMA InHand ==
    ASSUME OwnFiles, TypeOK, IInv, NEW c \in Client, pc[c] # "idle",
           NEW k \in Keyfile, call[c].file = <<k, 0>>,
           NEW o \in 1 .. MaxConn, conns[o] # None, conns[o].file = <<k, 0>>
    PROVE  call[c].op \in {"update", "delete"} /\ call[c].conn = o
<1> USE DEF IInv
<1>1. <<k, 0>> # None
  BY ProperTemp
<1>2. conns[o].val.uuid = call[c].uuid
  <2>1. Owns(conns[o].val.uuid, <<k, 0>>) /\ conns[o].val.uuid \in Profile
    BY <1>1 DEF Connections, Values
  <2>2. Owns(call[c].uuid, <<k, 0>>) /\ call[c].uuid \in Profile
    BY <1>1 DEF Turns, Shape
  <2> QED
    BY <2>1, <2>2 DEF Owns, OwnFiles
<1>3. call[c].op # "add"
  <2>1. SUFFICES ASSUME call[c].op = "add" PROVE FALSE
    OBVIOUS
  <2>2. ~conns[o].listed
    BY <1>2, <2>1 DEF Asked, Listed
  <2>3. PICK d \in Client : pc[d] \in {"unlink", "unexport"} /\ call[d].conn = o
    BY <2>2 DEF Connections
  <2>4. Deleting(d)
    BY <2>3 DEF Shape, Adding, Updating, Storing
  <2>5. call[d].uuid = call[c].uuid
    BY <1>2, <2>3, <2>4 DEF Asked, Deleting
  <2> QED
    BY <2>1, <2>3, <2>4, <2>5 DEF Turns, Deleting
<1>4. call[c].op \in {"update", "delete"}
  BY <1>3 DEF Shape, Adding, Updating, Deleting
<1>5. LET q == call[c].conn IN
      q \in 1 .. MaxConn /\ conns[q] # None /\ conns[q].file = <<k, 0>>
  BY <1>4 DEF Asked, Listed
<1>6. <<k, 0>>[2] = 0
  OBVIOUS
<1> QED
  BY <1>1, <1>4, <1>5, <1>6 DEF Connections

\* A call ends, on a disk as it was: it leaves the others alone.
LEMMA Answering ==
    ASSUME OwnFiles, TypeOK, IInv, NEW c \in Client, pc[c] # "idle",
           NEW told \in {"saved", "failed"}, End(c, told),
           UNCHANGED <<readonly, dir, data, boot, todo>>
    PROVE  /\ Turns' /\ Files' /\ Opened' /\ Reading'
           /\ pc'[c] = "idle"
           /\ \A d \in Client : d # c => pc'[d] = pc[d] /\ call'[d] = call[d]
           /\ \A k \in Keyfile :
                 /\ OnFile(k)' = OnFile(k)
                 /\ call[c].file = <<k, 0>> => answer'[k] = told
                 /\ call[c].file # <<k, 0>> => /\ answer'[k] = answer[k]
                                               /\ CallsOn(k)' = CallsOn(k)
           /\ \A d \in Client, k \in Keyfile :
                 /\ pc'[d] = "saved" /\ call'[d].file = <<k, 0>>
                 => OnFile(k)' = call'[d].val
<1> USE DEF IInv
<1>0. boot = "up" /\ c \in Writer /\ c # Main /\ pc[Main] = "idle" /\ todo = {}
  BY Serving DEF Shape
<1>1. /\ pc'[c] = "idle" /\ Only(c)
      /\ \A k \in Keyfile : answer'[k] = IF call[c].file = <<k, 0>>
                                         THEN told ELSE answer[k]
  BY <1>0, Ending
<1>2. /\ Files' /\ Opened'
      /\ \A k \in Keyfile : OnFile(k)' = OnFile(k)
  BY <1>0, <1>1, Undisturbed
<1>3. \A d \in Client : d # c => pc'[d] = pc[d] /\ call'[d] = call[d]
  BY <1>1 DEF Only, Writer
<1>4. Turns'
  BY <1>1, <1>3 DEF Turns, Owns
<1>5. Reading'
  BY <1>0, <1>1 DEF Reading, Only, Writer
<1>6. ASSUME NEW k \in Keyfile, call[c].file # <<k, 0>>
      PROVE  CallsOn(k)' = CallsOn(k)
  BY <1>1, <1>3, <1>6 DEF CallsOn
<1>7. \A d \in Client, k \in Keyfile :
         /\ pc'[d] = "saved" /\ call'[d].file = <<k, 0>>
         => OnFile(k)' = call'[d].val
  BY <1>1, <1>2, <1>3 DEF Agree
<1> QED
  BY <1>1, <1>2, <1>3, <1>4, <1>5, <1>6, <1>7

LEMMA UpdatedKeeps ==
    ASSUME OwnFiles, TypeOK, IInv, Shape', NEW c \in Client, Updated(c)
    PROVE  IInv'
<1> USE DEF IInv
<1>1. /\ pc[c] \in {"saved", "failed"} /\ call[c].op = "update" /\ End(c, pc[c])
      /\ UNCHANGED <<readonly, dir, data, boot, conns, gen, todo, crashes>>
  BY DEF Updated, disk, memory
<1>2. /\ Turns' /\ Files' /\ Opened' /\ Reading'
      /\ pc'[c] = "idle"
      /\ \A d \in Client : d # c => pc'[d] = pc[d] /\ call'[d] = call[d]
      /\ \A k \in Keyfile :
            /\ OnFile(k)' = OnFile(k)
            /\ call[c].file = <<k, 0>> => answer'[k] = pc[c]
            /\ call[c].file # <<k, 0>> => /\ answer'[k] = answer[k]
                                          /\ CallsOn(k)' = CallsOn(k)
      /\ \A d \in Client, k \in Keyfile :
            /\ pc'[d] = "saved" /\ call'[d].file = <<k, 0>>
            => OnFile(k)' = call'[d].val
  BY <1>1, Answering
<1>3. Connections'
  BY <1>1, <1>2 DEF Connections, Owns
<1>4. Listed' = Listed
  BY <1>1 DEF Listed
<1>5. Asked'
  BY <1>1, <1>2, <1>4 DEF Asked
<1>6. ASSUME NEW o \in Listed, NEW k \in Keyfile, conns[o].file = <<k, 0>>,
             CallsOn(k)' = {}, answer'[k] # "failed"
      PROVE  OnFile(k)' = conns[o].val
  <2>1. CASE call[c].file = <<k, 0>>
    <3>1. o \in 1 .. MaxConn /\ conns[o] # None
      BY DEF Listed
    <3>2. call[c].conn = o /\ pc[c] = "saved"
      BY <1>1, <1>2, <1>6, <2>1, <3>1, InHand
    <3> QED
      BY <1>1, <1>2, <2>1, <3>2 DEF Asked, Agree
  <2>2. CASE call[c].file # <<k, 0>>
    BY <1>2, <1>6, <2>2 DEF Agree
  <2> QED
    BY <2>1, <2>2
<1>7. Agree'
  BY <1>1, <1>2, <1>4, <1>6 DEF Agree
<1> QED
  BY <1>2, <1>3, <1>5, <1>7

LEMMA UnexportKeeps ==
    ASSUME OwnFiles, TypeOK, IInv, Shape', NEW c \in Client, Unexport(c)
    PROVE  IInv'
<1> USE DEF IInv
<1> DEFINE o == call[c].conn
<1>1. /\ pc[c] = "unexport" /\ End(c, "saved")
      /\ UNCHANGED <<readonly, dir, data, boot, gen, todo, crashes>>
  BY DEF Unexport, disk
<1>2. /\ Turns' /\ Files' /\ Opened' /\ Reading'
      /\ pc'[c] = "idle"
      /\ \A d \in Client : d # c => pc'[d] = pc[d] /\ call'[d] = call[d]
      /\ \A k \in Keyfile :
            /\ OnFile(k)' = OnFile(k)
            /\ call[c].file = <<k, 0>> => answer'[k] = "saved"
            /\ call[c].file # <<k, 0>> => /\ answer'[k] = answer[k]
                                          /\ CallsOn(k)' = CallsOn(k)
      /\ \A d \in Client, k \in Keyfile :
            /\ pc'[d] = "saved" /\ call'[d].file = <<k, 0>>
            => OnFile(k)' = call'[d].val
  BY <1>1, Answering
<1>3. Deleting(c)
  BY <1>1 DEF Shape, Adding, Updating, Storing
<1>4. /\ o \in 1 .. MaxConn /\ conns[o] # None /\ ~conns[o].listed
      /\ conns[o].val.uuid = call[c].uuid
  BY <1>1, <1>3 DEF Asked, Deleting
<1>5. conns'[o] = None /\ \A q \in 1 .. MaxConn : q # o => conns'[q] = conns[q]
  BY <1>4 DEF Unexport, TypeOK
<1>6. Listed' = Listed /\ o \notin Listed
  BY <1>4, <1>5 DEF Listed
<1>7. Connections'
  <2>1. ASSUME NEW q \in 1 .. MaxConn, conns'[q] # None, ~conns'[q].listed
        PROVE  \E d \in Client : pc'[d] \in {"unlink", "unexport"} /\ call'[d].conn = q
    <3>1. q # o /\ conns'[q] = conns[q]
      BY <1>5, <2>1
    <3> QED
      BY <1>2, <2>1, <3>1 DEF Connections
  <2>2. \A q \in 1 .. MaxConn : conns'[q] # None => conns'[q] = conns[q]
    BY <1>5
  <2> QED
    BY <2>1, <2>2 DEF Connections, Owns
<1>8. Asked'
  <2>1. ASSUME NEW d \in Client, d # c, pc[d] # "idle", call[d].op \in {"update", "delete"}
        PROVE  call[d].conn # o
    BY <1>1, <1>4, <1>6, <2>1 DEF Asked, Turns
  <2>2. \A q \in Listed : conns'[q] = conns[q]
    BY <1>5, <1>6 DEF Listed
  <2>3. \A q \in 1 .. MaxConn : q # o => conns'[q] = conns[q]
    BY <1>5
  <2> QED
    BY <1>2, <1>6, <2>1, <2>2, <2>3 DEF Asked
<1>9. ASSUME NEW q \in Listed, NEW k \in Keyfile, conns'[q].file = <<k, 0>>,
             CallsOn(k)' = {}, answer'[k] # "failed"
      PROVE  OnFile(k)' = conns'[q].val
  <2>1. q \in 1 .. MaxConn /\ conns[q] # None /\ conns'[q] = conns[q]
    BY <1>5, <1>6 DEF Listed
  <2>2. call[c].file # <<k, 0>>
    BY <1>1, <1>6, <1>9, <2>1, InHand
  <2> QED
    BY <1>2, <1>9, <2>1, <2>2 DEF Agree
<1>10. Agree'
  BY <1>2, <1>6, <1>9 DEF Agree
<1> QED
  BY <1>2, <1>7, <1>8, <1>10

LEMMA AddedKeeps ==
    ASSUME OwnFiles, TypeOK, IInv, Shape', NEW c \in Client, Added(c)
    PROVE  IInv'
<1> USE DEF IInv
<1> DEFINE v == call[c].val
           f == IF pc[c] = "saved" THEN call[c].file ELSE None
<1>1. /\ pc[c] \in {"saved", "failed"} /\ call[c].op = "add"
      /\ End(c, pc[c]) /\ Append(v, f)
      /\ UNCHANGED <<readonly, dir, data, boot, todo, crashes>>
  BY DEF Added, disk
<1>2. /\ Turns' /\ Files' /\ Opened' /\ Reading'
      /\ pc'[c] = "idle"
      /\ \A d \in Client : d # c => pc'[d] = pc[d] /\ call'[d] = call[d]
      /\ \A k \in Keyfile :
            /\ OnFile(k)' = OnFile(k)
            /\ call[c].file = <<k, 0>> => answer'[k] = pc[c]
            /\ call[c].file # <<k, 0>> => /\ answer'[k] = answer[k]
                                          /\ CallsOn(k)' = CallsOn(k)
      /\ \A d \in Client, k \in Keyfile :
            /\ pc'[d] = "saved" /\ call'[d].file = <<k, 0>>
            => OnFile(k)' = call'[d].val
  BY <1>1, Answering
<1>3. /\ v \in Values /\ v.uuid = call[c].uuid /\ call[c].uuid \in Profile
      /\ call[c].file = <<FileOf[call[c].uuid], 0>>
      /\ call[c].file \in Keyfile \X {0}
  <2>1. Adding(c) /\ call[c].uuid \in Profile
    BY <1>1 DEF Shape, Updating, Deleting
  <2>2. FileOf[call[c].uuid] \in Keyfile
    BY <2>1, ConstantsTyped
  <2> QED
    BY <2>1, <2>2 DEF Adding
<1>4. call[c].file \in Names /\ call[c].file # None /\ f \in Names \cup {None}
  BY <1>3, ProperTemp
<1>5. /\ gen' \in 1 .. MaxConn /\ conns[gen'] = None /\ conns'[gen'] # None
      /\ conns'[gen'] = [val |-> v, file |-> f, listed |-> TRUE]
      /\ \A o \in 1 .. MaxConn : o # gen' => conns'[o] = conns[o]
  <2>1. /\ gen \in Nat /\ gen' = gen + 1 /\ gen' \in 1 .. MaxConn
        /\ conns'[gen'] = [val |-> v, file |-> f, listed |-> TRUE]
        /\ \A o \in 1 .. MaxConn : o # gen' => conns'[o] = conns[o]
    <3>1. v \in Values \cup {Empty} /\ WithUuid(v) = v
      BY <1>3, NamesDistinct DEF WithUuid
    <3> QED
      BY <1>1, <1>4, <3>1, Appending
  <2>2. conns[gen'] = None
    BY <2>1 DEF Shape
  <2>3. conns'[gen'] \in Conns
    BY <1>3, <1>4, <2>1 DEF Conns
  <2> QED
    BY <2>1, <2>2, <2>3, NoneIsNothing
<1>6. Listed' = Listed \cup {gen'} /\ gen' \notin Listed
  BY <1>5 DEF Listed
<1>7. ASSUME NEW o \in 1 .. MaxConn, conns[o] # None, conns[o].file # None,
             conns[o].file = call[c].file
      PROVE  FALSE
  <2>1. PICK k \in Keyfile : call[c].file = <<k, 0>>
    BY <1>3
  <2> QED
    BY <1>1, <1>7, <2>1, InHand
<1>8. Connections'
  <2>1. ASSUME NEW o \in 1 .. MaxConn, conns'[o] # None, ~conns'[o].listed
        PROVE  \E d \in Client : pc'[d] \in {"unlink", "unexport"} /\ call'[d].conn = o
    <3>1. conns'[o] = conns[o]
      BY <1>5, <2>1
    <3> QED
      BY <1>1, <1>2, <2>1, <3>1 DEF Connections
  <2>2. ASSUME NEW o \in 1 .. MaxConn, conns'[o] # None, conns'[o].file # None
        PROVE  /\ Owns(conns'[o].val.uuid, conns'[o].file)
               /\ conns'[o].file[2] = 0 => conns'[o].val \in Values
    <3>1. CASE o = gen'
      BY <1>3, <1>5, <2>2, <3>1 DEF Owns
    <3>2. CASE o # gen'
      BY <1>5, <2>2, <3>2 DEF Connections
    <3> QED
      BY <3>1, <3>2
  <2>3. ASSUME NEW o \in 1 .. MaxConn, NEW q \in 1 .. MaxConn,
               conns'[o] # None, conns'[q] # None,
               conns'[o].file # None, conns'[o].file = conns'[q].file,
               conns'[o].file[2] = 0
        PROVE  o = q
    <3>1. CASE o # gen' /\ q # gen'
      BY <1>5, <2>3, <3>1 DEF Connections
    <3>2. CASE o = gen' /\ q # gen'
      BY <1>5, <1>7, <2>3, <3>2
    <3>3. CASE o # gen' /\ q = gen'
      BY <1>5, <1>7, <2>3, <3>3
    <3> QED
      BY <3>1, <3>2, <3>3
  <2> QED
    BY <2>1, <2>2, <2>3 DEF Connections, Owns
<1>9. Asked'
  <2>1. ASSUME NEW d \in Client, d # c, pc[d] # "idle"
        PROVE  call[d].uuid # v.uuid
    BY <1>1, <1>3, <2>1 DEF Turns
  <2>2. ASSUME NEW d \in Client, d # c, pc[d] # "idle", call[d].op = "add"
        PROVE  \A q \in Listed' : conns'[q].val.uuid # call[d].uuid
    <3>1. conns'[gen'].val.uuid # call[d].uuid
      BY <1>5, <2>1, <2>2
    <3>2. \A q \in Listed : conns'[q] = conns[q]
      BY <1>5, <1>6 DEF Listed
    <3> QED
      BY <1>6, <2>2, <3>1, <3>2 DEF Asked
  <2>3. ASSUME NEW d \in Client, d # c, pc[d] # "idle", call[d].op \in {"update", "delete"}
        PROVE  /\ call[d].conn \in Listed => call[d].conn \in Listed'
               /\ call[d].conn \in 1 .. MaxConn
               /\ conns'[call[d].conn] = conns[call[d].conn]
    <3>1. call[d].conn \in 1 .. MaxConn /\ conns[call[d].conn] # None
      BY <2>3 DEF Asked, Listed
    <3> QED
      BY <1>5, <1>6, <3>1
  <2> QED
    BY <1>2, <2>2, <2>3 DEF Asked
<1>10. ASSUME NEW o \in Listed', NEW k \in Keyfile, conns'[o].file = <<k, 0>>,
              CallsOn(k)' = {}, answer'[k] # "failed"
       PROVE  OnFile(k)' = conns'[o].val
  <2>0. <<k, 0>> # None
    BY ProperTemp
  <2>1. CASE o = gen'
    <3>1. call[c].file = <<k, 0>> /\ pc[c] = "saved"
      BY <1>5, <1>10, <2>0, <2>1
    <3> QED
      BY <1>2, <1>5, <2>1, <3>1 DEF Agree
  <2>2. CASE o # gen'
    <3>1. o \in Listed /\ o \in 1 .. MaxConn /\ conns[o] # None /\ conns'[o] = conns[o]
      BY <1>5, <1>6, <2>2 DEF Listed
    <3>2. call[c].file # <<k, 0>>
      BY <1>7, <1>10, <2>0, <3>1
    <3> QED
      BY <1>2, <1>10, <3>1, <3>2 DEF Agree
  <2> QED
    BY <2>1, <2>2
<1>11. Agree'
  BY <1>2, <1>10 DEF Agree
<1> QED
  BY <1>2, <1>8, <1>9, <1>11

LEMMA UnlinkKeeps ==
    ASSUME OwnFiles, TypeOK, IInv, Shape', NEW c \in Client, Unlink(c)
    PROVE  IInv'
<1> USE DEF IInv
<1> DEFINE n == call[c].file
<1>1. /\ pc[c] = "unlink" /\ c \in Writer /\ boot = "up" /\ call[c] \in Calls
      /\ dir' = IF n = None \/ readonly THEN dir ELSE [dir EXCEPT ![n] = None]
      /\ UNCHANGED <<readonly, data, boot, conns, gen, todo, call, fd, answer, crashes>>
  BY DEF Unlink, Shape, Writer, TypeOK, memory
<1>2. /\ pc'[c] = "unexport"
      /\ \A w \in Writer : w # c => pc'[w] = pc[w]
  BY <1>1 DEF Unlink, Goto, TypeOK
<1>3. /\ \A m \in Names : dir'[m] # None => dir'[m] = dir[m]
      /\ \A m \in Names : m # n => dir'[m] = dir[m]
  BY <1>1 DEF TypeOK, Calls
<1>4. \A d \in Client : /\ pc'[d] = "idle" <=> pc[d] = "idle"
                        /\ pc'[d] \in {"unlink", "unexport"}
                              <=> pc[d] \in {"unlink", "unexport"}
                        /\ pc'[d] = "saved" => pc[d] = "saved"
  BY <1>1, <1>2 DEF Writer
<1>5. ASSUME NEW k \in Keyfile, n # <<k, 0>> PROVE OnFile(k)' = OnFile(k)
  <2>1. <<k, 0>> \in Names
    BY ProperTemp
  <2> QED
    BY <1>1, <1>3, <1>5, <2>1 DEF OnFile
<1>6. Files'
  BY <1>1, <1>3 DEF Files, Owns
<1>7. Opened'
  <2>1. ASSUME NEW w \in Writer, pc'[w] \in {"write", "rename"}
        PROVE  dir'[Temp(call[w].file)] = dir[Temp(call[w].file)]
    <3>1. w # c /\ pc[w] \in {"write", "rename"}
      BY <1>2, <2>1
    <3>2. /\ call[w].file \in Names /\ Temp(call[w].file) \in Names
          /\ Temp(call[w].file)[1] = call[w].file[1]
      BY <3>1, Carrying, TempName
    <3>3. n # None => n[1] # call[w].file[1]
      BY <1>1, <3>1, <3>2, Alone, NoneIsNothing
    <3> QED
      BY <1>1, <1>3, <3>2, <3>3, NoneIsNothing
  <2> QED
    BY <1>1, <1>2, <2>1 DEF Opened
<1>8. Turns'
  BY <1>1, <1>4 DEF Turns, Owns
<1>9. Connections'
  BY <1>1, <1>4 DEF Connections, Owns
<1>10. Asked'
  BY <1>1, <1>4 DEF Asked, Listed
<1>11. Reading'
  <2>1. pc[Main] = "idle" /\ todo = {} /\ c # Main /\ Main \in Writer
    BY <1>1, Serving DEF Writer
  <2> QED
    BY <1>1, <1>2, <2>1 DEF Reading
<1>12. Agree'
  <2>1. \A k \in Keyfile : CallsOn(k)' = CallsOn(k)
    BY <1>1, <1>4 DEF CallsOn
  <2>2. ASSUME NEW k \in Keyfile, CallsOn(k) = {} PROVE OnFile(k)' = OnFile(k)
    BY <1>1, <1>5, <2>2 DEF CallsOn
  <2>3. ASSUME NEW d \in Client, NEW k \in Keyfile, pc'[d] = "saved",
               call[d].file = <<k, 0>>
        PROVE  OnFile(k)' = call[d].val
    <3>1. pc[d] = "saved" /\ d # c /\ d \in Writer /\ <<k, 0>> # None
      BY <1>2, <1>4, <2>3, ProperTemp DEF Writer
    <3>2. n # <<k, 0>>
      <4>1. SUFFICES ASSUME n = <<k, 0>> PROVE FALSE
        OBVIOUS
      <4> QED
        BY <1>1, <2>3, <3>1, <4>1, Alone
    <3> QED
      BY <1>5, <2>3, <3>1, <3>2 DEF Agree
  <2>4. Listed' = Listed
    BY <1>1 DEF Listed
  <2> QED
    BY <1>1, <2>1, <2>2, <2>3, <2>4 DEF Agree
<1> QED
  BY <1>6, <1>7, <1>8, <1>9, <1>10, <1>11, <1>12

-----------------------------------------------------------------------------
\* newSettings lists a connection with what it read from a file.
LEMMA Loading ==
    ASSUME OwnFiles, TypeOK, IInv, Shape', boot = "loading",
           NEW n \in Names, NEW val \in Values \cup {Empty}, Append(val, n),
           Owns(val.uuid, n),
           n[2] = 0 => val \in Values /\ OnFile(n[1]) = val,
           \A o \in 1 .. MaxConn : conns[o] # None => conns[o].file # n,
           todo' \subseteq todo, n \notin todo',
           Only(Main), pc'[Main] = "idle",
           UNCHANGED <<readonly, dir, data, boot, answer>>
    PROVE  IInv'
<1> USE DEF IInv
<1>1. /\ gen' \in 1 .. MaxConn
      /\ conns'[gen'] = [val |-> WithUuid(val), file |-> n, listed |-> TRUE]
      /\ \A o \in 1 .. MaxConn : o # gen' => conns'[o] = conns[o]
      /\ val \in Values => WithUuid(val) = val
  BY Appending
<1>2. Owns(WithUuid(val).uuid, n)
  BY NamesDistinct DEF WithUuid, Owns, Values, Empty
<1>3. \A c \in Client : pc[c] = "idle" /\ pc'[c] = "idle"
  BY NamesDistinct DEF Shape, Only, Writer
<1>4. Files' /\ Opened' /\ \A k \in Keyfile : OnFile(k)' = OnFile(k)
  BY Undisturbed DEF Writer
<1>5. Turns' /\ Asked'
  BY <1>3 DEF Turns, Asked
<1>6. Connections'
  <2>1. ASSUME NEW o \in 1 .. MaxConn, conns'[o] # None
        PROVE  /\ conns'[o].file # None =>
                     /\ Owns(conns'[o].val.uuid, conns'[o].file)
                     /\ conns'[o].file[2] = 0 => conns'[o].val \in Values
               /\ conns'[o].listed
    <3>1. CASE o = gen'
      BY <1>1, <1>2, <3>1
    <3>2. CASE o # gen'
      BY <1>1, <1>3, <2>1, <3>2 DEF Connections
    <3> QED
      BY <3>1, <3>2
  <2>2. ASSUME NEW o \in 1 .. MaxConn, NEW q \in 1 .. MaxConn,
               conns'[o] # None, conns'[q] # None,
               conns'[o].file # None, conns'[o].file = conns'[q].file,
               conns'[o].file[2] = 0
        PROVE  o = q
    <3>1. CASE o # gen' /\ q # gen'
      BY <1>1, <2>2, <3>1 DEF Connections
    <3>2. CASE o = gen' /\ q # gen'
      BY <1>1, <2>2, <3>2
    <3>3. CASE o # gen' /\ q = gen'
      BY <1>1, <2>2, <3>3
    <3> QED
      BY <3>1, <3>2, <3>3
  <2> QED
    BY <2>1, <2>2 DEF Connections, Owns
<1>7. Reading'
  <2>1. ASSUME NEW o \in 1 .. MaxConn, conns'[o] # None
        PROVE  conns'[o].file \notin todo'
    BY <1>1, <2>1 DEF Reading
  <2> QED
    BY <2>1 DEF Reading
<1>8. ASSUME NEW o \in Listed', NEW k \in Keyfile, conns'[o].file = <<k, 0>>,
             answer'[k] # "failed"
      PROVE  OnFile(k)' = conns'[o].val
  <2>1. CASE o = gen'
    BY <1>1, <1>4, <1>8, <2>1
  <2>2. CASE o # gen'
    <3>1. o \in Listed /\ conns'[o] = conns[o] /\ CallsOn(k) = {}
      BY <1>1, <1>3, <2>2 DEF Listed, CallsOn
    <3> QED
      BY <1>4, <1>8, <3>1 DEF Agree
  <2> QED
    BY <2>1, <2>2
<1>9. Agree'
  BY <1>3, <1>8 DEF Agree
<1> QED
  BY <1>4, <1>5, <1>6, <1>7, <1>9

LEMMA NewSettingsKeeps ==
    ASSUME OwnFiles, TypeOK, IInv, Shape', NewSettings
    PROVE  IInv'
<1> USE DEF IInv
<1>0. Main \in Writer /\ Main \notin Client
  BY NamesDistinct DEF Writer
<1>1. ASSUME ReadDir \/ Export \/ \E n \in Names : LoadGone(n) PROVE IInv'
  <2>1. /\ UNCHANGED <<readonly, dir, data, conns, gen, pc, call, fd, answer, crashes>>
        /\ pc[Main] = "idle" /\ boot # "up"
    BY <1>1 DEF ReadDir, Export, LoadGone, disk, Shape
  <2>2. Reading'
    BY <1>1, <2>1 DEF ReadDir, Export, LoadGone, Reading, memory
  <2>3. Turns' /\ Asked'
    BY <2>1 DEF Turns, Owns, Asked, Listed
  <2>4. Files' /\ Opened'
    BY <2>1 DEF Files, Owns, Opened
  <2>5. Connections'
    BY <2>1 DEF Connections, Owns
  <2>6. Agree'
    BY <2>1 DEF Agree, Listed, CallsOn, OnFile
  <2> QED
    BY <2>2, <2>3, <2>4, <2>5, <2>6
<1>2. ASSUME NEW n \in Names, Load(n) PROVE IInv'
  <2> DEFINE val == data[dir[n]].val
  <2>1. /\ boot = "loading" /\ n \in todo /\ dir[n] # None /\ Append(val, n)
        /\ todo' = todo \ {n} /\ pc[Main] = "idle"
        /\ UNCHANGED <<readonly, dir, data, boot, pc, call, fd, answer, crashes>>
    BY <1>2 DEF Load, Foremost, disk
  <2>2. val \in Values \cup {Empty}
    BY <2>1 DEF TypeOK, Contents
  <2>3. Owns(val.uuid, n) /\ (n[2] = 0 => val \in Values /\ OnFile(n[1]) = val)
    <3>1. n[2] = 0 => n = <<n[1], 0>>
      BY DEF Names
    <3> QED
      BY <2>1, <3>1 DEF Files, OnFile
  <2>4. \A o \in 1 .. MaxConn : conns[o] # None => conns[o].file # n
    BY <2>1 DEF Reading
  <2>5. Only(Main)
    BY <2>1 DEF Only
  <2> QED
    BY <2>1, <2>2, <2>3, <2>4, <2>5, Loading
<1>3. ASSUME NEW n \in Names, LoadLegacy(n) PROVE IInv'
  <2> DEFINE r == [op |-> "load", uuid |-> None, conn |-> 0, file |-> n,
                   val |-> data[dir[n]].val]
  <2>1. /\ boot = "loading" /\ n \in todo /\ dir[n] # None /\ todo' = todo \ {n}
        /\ UNCHANGED <<readonly, dir, data, boot, conns, gen, fd, answer, crashes>>
        /\ call' = [call EXCEPT ![Main] = r] /\ Goto(Main, "open")
        /\ r.val \in Values /\ n \in Keyfile \X {0}
    BY <1>3 DEF LoadLegacy, Foremost, disk, TypeOK, Shape, Names
  <2>2. r \in Calls
    BY <2>1, ConstantsTyped DEF Calls
  <2>3. pc'[Main] = "open" /\ call'[Main] = r /\ Only(Main)
    <3>1. "open" \in PCs /\ UNCHANGED fd
      BY <2>1 DEF PCs
    <3> HIDE DEF r
    <3> QED
      BY <1>0, <2>1, <2>2, <3>1, Beginning
  <2>4. Files' /\ Opened' /\ \A k \in Keyfile : OnFile(k)' = OnFile(k)
    BY <1>0, <2>1, <2>3, Undisturbed
  <2>5. \A c \in Client : pc'[c] = pc[c] /\ call'[c] = call[c] /\ pc[c] = "idle"
    BY <1>0, <2>1, <2>3 DEF Only, Writer, Shape
  <2>6. Reading'
    <3>1. n = <<n[1], 0>> /\ n[1] \in Keyfile
      BY <2>1
    <3>2. OnFile(n[1]) = r.val
      BY <2>1, <3>1 DEF OnFile
    <3>3. OnFile(n[1])' = r.val
      BY <2>1, <3>1, <3>2 DEF OnFile
    <3> QED
      BY <2>1, <2>3, <3>3 DEF Reading
  <2>7. Turns' /\ Asked'
    BY <2>5 DEF Turns, Asked
  <2>8. Connections'
    BY <2>1, <2>5 DEF Connections, Owns
  <2>9. Agree'
    BY <2>1, <2>4, <2>5 DEF Agree, Listed, CallsOn
  <2> QED
    BY <2>4, <2>6, <2>7, <2>8, <2>9
<1>4. ASSUME Loaded PROVE IInv'
  <2> DEFINE val == call[Main].val
             n   == call[Main].file
  <2>1. /\ pc[Main] \in {"saved", "failed"} /\ Append(val, n) /\ End(Main, pc[Main])
        /\ UNCHANGED <<readonly, dir, data, boot, todo, crashes>>
    BY <1>4 DEF Loaded, disk
  <2>2. /\ n \in Keyfile \X {0} /\ val \in Values /\ OnFile(n[1]) = val
        /\ Owns(val.uuid, n) /\ n \in Names
    BY <2>1, RewritesOwn, ProperTemp
  <2>3. /\ boot = "loading" /\ n \notin todo
        /\ \A o \in 1 .. MaxConn : conns[o] # None => conns[o].file # n
    BY <2>1 DEF Shape, Reading
  <2>4. Only(Main) /\ pc'[Main] = "idle" /\ answer' = answer
    BY <1>0, <2>1, Ending DEF End
  <2> QED
    BY <2>1, <2>2, <2>3, <2>4, Loading
<1> QED
  BY <1>0, <1>1, <1>2, <1>3, <1>4, WriteKeeps DEF NewSettings

LEMMA CrashKeeps ==
    ASSUME OwnFiles, TypeOK, IInv, Shape', Crash
    PROVE  IInv'
<1>1. /\ pc' = [w \in Writer |-> "idle"] /\ conns' = [o \in 1 .. MaxConn |-> None]
      /\ todo' = {} /\ boot' = "down" /\ UNCHANGED <<readonly, dir, data>>
  BY DEF Crash, disk
<1>2. Files'
  BY <1>1 DEF IInv, Files, Owns
<1>3. /\ \A w \in Writer : pc'[w] = "idle" /\ \A o \in 1 .. MaxConn : conns'[o] = None
      /\ Main \in Writer /\ Client \subseteq Writer
  BY <1>1 DEF Writer
<1>4. Turns' /\ Opened' /\ Connections' /\ Asked' /\ Agree'
  BY <1>3 DEF Turns, Opened, Connections, Asked, Agree, Listed
<1>5. Reading'
  BY <1>1, <1>3 DEF Reading
<1> QED
  BY <1>2, <1>4, <1>5 DEF IInv

LEMMA InvInit == OwnFiles /\ Init => IInv
<1> SUFFICES ASSUME OwnFiles, Init PROVE IInv
  OBVIOUS
<1>1. TypeOK /\ Shape
  BY TypeInit
<1>2. /\ Place \in [OnDisk -> Inode]
      /\ \A u, v \in OnDisk : Place[u] = Place[v] => u = v
  BY RoomForStored DEF Place
<1>3. \A w \in Writer : pc[w] = "idle" /\ \A o \in 1 .. MaxConn : conns[o] = None
  BY DEF Init
<1>4. ASSUME NEW n \in Names, dir[n] # None
      PROVE  \E u \in OnDisk : /\ n = <<FileOf[u], 0>> /\ dir[n] = Place[u]
                               /\ data[dir[n]] = Stored(u)
  <2>1. PICK u \in OnDisk : n = <<FileOf[u], 0>>
    BY <1>4 DEF Init
  <2>2. (CHOOSE v \in OnDisk : n = <<FileOf[v], 0>>) = u
    BY <2>1, ConstantsTyped DEF OwnFiles
  <2>3. dir[n] = Place[u]
    BY <2>1, <2>2 DEF Init
  <2>4. (CHOOSE v \in OnDisk : Place[v] = Place[u]) = u
    BY <1>2
  <2>5. data[Place[u]] = Stored(u)
    BY <1>2, <2>4 DEF Init
  <2> QED
    BY <2>1, <2>3, <2>5
<1>5. Files
  <2>1. ASSUME NEW u \in OnDisk
        PROVE  Stored(u).val \in Values /\ Stored(u).val.uuid = u
    <3>1. (CHOOSE r \in Rev : TRUE) \in Rev
      BY ConstantsTyped
    <3> QED
      BY <3>1, ConstantsTyped DEF Stored, Values
  <2>2. ASSUME NEW m \in Names, NEW n \in Names, dir[m] # None, dir[m] = dir[n]
        PROVE  m = n
    BY <1>2, <1>4, <2>2
  <2>3. ASSUME NEW n \in Names, dir[n] # None
        PROVE  /\ Owns(data[dir[n]].val.uuid, n)
               /\ n[2] = 0 => data[dir[n]].val \in Values
    <3>1. PICK u \in OnDisk : n = <<FileOf[u], 0>> /\ data[dir[n]] = Stored(u)
      BY <1>4, <2>3
    <3> QED
      BY <2>1, <3>1 DEF Owns
  <2> QED
    BY <2>2, <2>3 DEF Files
<1>6. /\ Main \in Writer /\ Client \subseteq Writer
  BY DEF Writer
<1>7. Turns /\ Opened /\ Connections /\ Asked /\ Agree
  BY <1>3, <1>6 DEF Turns, Opened, Connections, Asked, Agree, Listed
<1>8. Reading
  BY <1>3, <1>6 DEF Reading, Init
<1> QED
  BY <1>1, <1>5, <1>7, <1>8 DEF IInv

LEMMA InvStep == OwnFiles /\ TypeOK /\ IInv /\ [Next]_vars => IInv'
<1> SUFFICES ASSUME OwnFiles, TypeOK, IInv, [Next]_vars PROVE IInv'
  OBVIOUS
<1>0. Shape'
  BY TypeStep DEF IInv
<1>1. CASE UNCHANGED vars
  <2>1. UNCHANGED <<readonly, dir, data, boot, conns, gen, todo, pc, call, fd,
                    answer, crashes>>
    BY <1>1 DEF vars, disk, memory
  <2>2. Turns' /\ Asked'
    BY <2>1 DEF IInv, Turns, Owns, Asked, Listed
  <2>3. Files' /\ Opened'
    BY <2>1 DEF IInv, Files, Owns, Opened
  <2>4. Connections'
    BY <2>1 DEF IInv, Connections, Owns
  <2>5. Reading'
    BY <2>1 DEF IInv, Reading, OnFile
  <2>6. Agree'
    BY <2>1 DEF IInv, Agree, Listed, CallsOn, OnFile
  <2> QED
    BY <1>0, <2>2, <2>3, <2>4, <2>5, <2>6 DEF IInv
<1>2. ASSUME NEW c \in Client, Request(c) PROVE IInv'
  BY <1>0, <1>2, AddKeeps, DeleteKeeps, UpdateKeeps DEF Request
<1>3. ASSUME NEW c \in Client, Step(c) PROVE IInv'
  BY <1>0, <1>3, WriteKeeps, AddedKeeps, UpdatedKeeps, UnlinkKeeps, UnexportKeeps
  DEF Step, Writer
<1> QED
  BY <1>0, <1>1, <1>2, <1>3, NewSettingsKeeps, CrashKeeps DEF Next

LEMMA InvHolds == OwnFiles /\ Spec => [](TypeOK /\ IInv)
<1>1. Init => TypeOK
  BY TypeInit
<1>2. TypeOK /\ IInv /\ [Next]_vars => TypeOK'
  BY TypeStep DEF IInv
<1>3. OwnFiles /\ Init => IInv
  BY InvInit
<1>4. OwnFiles /\ TypeOK /\ IInv /\ [Next]_vars => IInv'
  BY InvStep
<1>5. CASE OwnFiles
  BY <1>1, <1>2, <1>3, <1>4, <1>5, PTL DEF Spec
<1>6. CASE ~OwnFiles
  BY <1>6
<1> QED
  BY <1>5, <1>6

\* What clients see in memory is what a restart would read from the disk,
\* wherever no call is under way and the last one did not fail (Save is a no-op
\* because "every update is already written to disk", settings.go:391): for any
\* number of clients and profiles, when the calls on one profile take turns and
\* the profiles have keyfiles of their own.
THEOREM MemoryOnDisk == OwnFiles => (Spec => []SavedToDisk)
<1>1. IInv => SavedToDisk
  BY DEF IInv, Agree, SavedToDisk
<1> QED
  BY <1>1, InvHolds, PTL

-----------------------------------------------------------------------------
\* The register a keyfile is: Settings implements ProfileStore.

\* What a client's call leaves pending on its keyfile
PendingOf(c) == [val |-> call[c].val,
                 done |-> pc[c] = "saved" \/ (pc[c] = "unexport" /\ ~readonly)]

OneEach ==
    \A k \in Keyfile :
        /\ CallsOn(k) = {} => Pending(k) = None
        /\ \A c \in CallsOn(k) : CallsOn(k) = {c} /\ Pending(k) = PendingOf(c)

\* One call at a time is pending on a keyfile.
LEMMA OneCall == OwnFiles /\ TypeOK /\ IInv => OneEach
<1> SUFFICES ASSUME OwnFiles, TypeOK, IInv, NEW k \in Keyfile
             PROVE  /\ CallsOn(k) = {} => Pending(k) = None
                    /\ \A c \in CallsOn(k) : CallsOn(k) = {c} /\ Pending(k) = PendingOf(c)
  BY DEF OneEach
<1>1. ASSUME NEW c \in CallsOn(k), NEW d \in CallsOn(k) PROVE c = d
  BY <1>1, Alone, ProperTemp DEF CallsOn, IInv, Writer
<1>2. ASSUME NEW c \in CallsOn(k) PROVE CallsOn(k) = {c} /\ Pending(k) = PendingOf(c)
  <2>1. CallsOn(k) = {c}
    BY <1>1
  <2>2. (CHOOSE d \in CallsOn(k) : TRUE) = c
    BY <2>1
  <2> QED
    BY <2>1, <2>2 DEF Pending, PendingOf
<1>3. CallsOn(k) = {} => Pending(k) = None
  BY DEF Pending
<1> QED
  BY <1>2, <1>3

LEMMA OneCallNext == OwnFiles /\ TypeOK' /\ IInv' => OneEach'
<1>1. OwnFiles => OwnFiles'
  BY DEF OwnFiles
<1> QED
  BY <1>1, OneCall, PTL

\* At most one call is pending before a step and after it.
LEMMA Moving ==
    ASSUME OneEach, OneEach', NEW c \in Client,
           \A d \in Client : d # c => pc'[d] = pc[d] /\ call'[d] = call[d],
           UNCHANGED readonly, NEW k \in Keyfile
    PROVE  /\ c \notin CallsOn(k) /\ c \notin CallsOn(k)' => Pending(k)' = Pending(k)
           /\ c \in CallsOn(k) => Pending(k) = PendingOf(c)
           /\ c \in CallsOn(k)' => Pending(k)' = PendingOf(c)'
           /\ c \notin CallsOn(k) /\ c \in CallsOn(k)' => Pending(k) = None
           /\ c \in CallsOn(k) /\ c \notin CallsOn(k)' => Pending(k)' = None
<1>1. /\ CallsOn(k) = {} => Pending(k) = None
      /\ \A d \in CallsOn(k) : CallsOn(k) = {d} /\ Pending(k) = PendingOf(d)
  BY DEF OneEach
<1>2. /\ CallsOn(k)' = {} => Pending(k)' = None
      /\ \A d \in CallsOn(k)' : CallsOn(k)' = {d} /\ Pending(k)' = PendingOf(d)'
  BY DEF OneEach
<1>3. \A d \in Client : d # c => (d \in CallsOn(k)' <=> d \in CallsOn(k))
  BY DEF CallsOn
<1>4. CallsOn(k) \subseteq Client /\ CallsOn(k)' \subseteq Client
  BY DEF CallsOn
<1>5. ASSUME c \notin CallsOn(k), c \notin CallsOn(k)' PROVE Pending(k)' = Pending(k)
  <2>1. CallsOn(k)' = CallsOn(k)
    BY <1>3, <1>4, <1>5
  <2>2. CASE CallsOn(k) = {}
    BY <1>1, <1>2, <2>1, <2>2
  <2>3. ASSUME NEW d \in CallsOn(k) PROVE Pending(k)' = Pending(k)
    <3>1. d \in Client /\ d # c /\ d \in CallsOn(k)'
      BY <1>4, <1>5, <2>1
    <3>2. PendingOf(d)' = PendingOf(d)
      BY <3>1 DEF PendingOf
    <3> QED
      BY <1>1, <1>2, <3>1, <3>2
  <2> QED
    BY <2>2, <2>3
<1>6. c \notin CallsOn(k) /\ c \in CallsOn(k)' => CallsOn(k) = {}
  BY <1>2, <1>3, <1>4
<1>7. c \in CallsOn(k) /\ c \notin CallsOn(k)' => CallsOn(k)' = {}
  BY <1>1, <1>3, <1>4
<1> QED
  BY <1>1, <1>2, <1>5, <1>6, <1>7

\* A step that stores nothing and on which no call is answered
LEMMA Stutters ==
    ASSUME \A k \in Keyfile : OnFile(k)' = OnFile(k) /\ Pending(k)' = Pending(k),
           UNCHANGED <<readonly, answer>>
    PROVE  UNCHANGED Store!vars
<1>1. [k \in Keyfile |-> OnFile(k)'] = [k \in Keyfile |-> OnFile(k)]
  OBVIOUS
<1>2. [k \in Keyfile |-> Pending(k)'] = [k \in Keyfile |-> Pending(k)]
  OBVIOUS
<1> QED
  BY <1>1, <1>2 DEF Store!vars

LEMMA Begins ==
    ASSUME TypeOK, IInv, OneEach, OneEach', NEW c \in Client, pc[c] = "idle",
           \A d \in Client : d # c => pc'[d] = pc[d] /\ call'[d] = call[d],
           pc'[c] \in {"open", "failed", "unlink"},
           call'[c].val \in Values \cup {None},
           UNCHANGED <<readonly, dir, data, answer>>
    PROVE  [Store!Next]_Store!vars
<1>1. \A k \in Keyfile : OnFile(k)' = OnFile(k)
  BY DEF OnFile
<1>2. \A k \in Keyfile : c \notin CallsOn(k)
  BY DEF CallsOn
<1>3. CASE \E k \in Keyfile : call'[c].file = <<k, 0>>
  <2>1. PICK k \in Keyfile : call'[c].file = <<k, 0>>
    BY <1>3
  <2>2. c \in CallsOn(k)' /\ \A j \in Keyfile : j # k => c \notin CallsOn(j)'
    BY <2>1 DEF CallsOn
  <2>3. Pending(k) = None /\ Pending(k)' = PendingOf(c)'
    BY <1>2, <2>2, Moving
  <2>4. \A j \in Keyfile : j # k => Pending(j)' = Pending(j)
    BY <1>2, <2>2, Moving
  <2>5. PendingOf(c)' = [val |-> call'[c].val, done |-> FALSE]
    BY DEF PendingOf
  <2>6. Store!Begin(k, call'[c].val)
    BY <1>1, <2>3, <2>4, <2>5 DEF Store!Begin
  <2> QED
    BY <2>6 DEF Store!Next
<1>4. CASE ~ \E k \in Keyfile : call'[c].file = <<k, 0>>
  <2>1. \A k \in Keyfile : c \notin CallsOn(k)'
    BY <1>4 DEF CallsOn
  <2>2. \A k \in Keyfile : Pending(k)' = Pending(k)
    BY <1>2, <2>1, Moving
  <2> QED
    BY <1>1, <2>2, Stutters
<1> QED
  BY <1>3, <1>4

LEMMA Answers ==
    ASSUME TypeOK, IInv, OneEach, OneEach', NEW c \in Client,
           pc[c] \in {"saved", "failed", "unexport"},
           NEW told \in {"saved", "failed"}, End(c, told),
           pc[c] \in {"saved", "failed"} => call[c].val \in Values /\ told = pc[c],
           pc[c] = "unexport" => call[c].val = None /\ told = "saved",
           UNCHANGED <<readonly, dir, data>>
    PROVE  [Store!Next]_Store!vars
<1>0. c \in Writer /\ c # Main
  BY NamesDistinct DEF Writer
<1>1. \A k \in Keyfile : OnFile(k)' = OnFile(k)
  BY DEF OnFile
<1>2. /\ pc'[c] = "idle" /\ Only(c)
      /\ answer' \in [Keyfile -> {"none", "saved", "failed"}]
      /\ \A k \in Keyfile : answer'[k] = IF call[c].file = <<k, 0>>
                                         THEN told ELSE answer[k]
  BY <1>0, Ending
<1>3. /\ \A d \in Client : d # c => pc'[d] = pc[d] /\ call'[d] = call[d]
      /\ \A k \in Keyfile : c \notin CallsOn(k)'
  BY <1>2 DEF Only, Writer, CallsOn
<1>4. CASE \E k \in Keyfile : call[c].file = <<k, 0>>
  <2>1. PICK k \in Keyfile : call[c].file = <<k, 0>>
    BY <1>4
  <2>2. c \in CallsOn(k) /\ \A j \in Keyfile : j # k => c \notin CallsOn(j)
    BY <2>1 DEF CallsOn
  <2>3. Pending(k) = PendingOf(c) /\ Pending(k)' = None
    BY <1>3, <2>2, Moving
  <2>4. \A j \in Keyfile : j # k => Pending(j)' = Pending(j)
    BY <1>3, <2>2, Moving
  <2>5. PendingOf(c) # None
    <3>1. PendingOf(c) \in [val : Values \cup {None}, done : BOOLEAN]
      BY DEF PendingOf
    <3> QED
      BY <3>1, NoneIsNothing
  <2>6. told = IF Store!Saved(PendingOf(c)) THEN "saved" ELSE "failed"
    BY NoneIsNothing DEF PendingOf, Store!Saved
  <2>7. answer' = [answer EXCEPT ![k] = told]
    BY <1>2, <2>1 DEF TypeOK
  <2>8. Store!Answer(k)
    BY <1>1, <2>3, <2>4, <2>5, <2>6, <2>7 DEF Store!Answer
  <2> QED
    BY <2>8 DEF Store!Next
<1>5. CASE ~ \E k \in Keyfile : call[c].file = <<k, 0>>
  <2>1. \A k \in Keyfile : c \notin CallsOn(k)
    BY <1>5 DEF CallsOn
  <2>2. \A k \in Keyfile : Pending(k)' = Pending(k)
    BY <1>3, <2>1, Moving
  <2>3. answer' = answer
    BY <1>2, <1>5 DEF TypeOK
  <2> QED
    BY <1>1, <2>2, <2>3, Stutters
<1> QED
  BY <1>4, <1>5

LEMMA Commits ==
    ASSUME NEW k \in Keyfile, NEW v \in Values \cup {None}, ~readonly,
           Pending(k) = [val |-> v, done |-> FALSE],
           Pending(k)' = [val |-> v, done |-> TRUE], OnFile(k)' = v,
           \A j \in Keyfile : j # k => /\ OnFile(j)' = OnFile(j)
                                      /\ Pending(j)' = Pending(j),
           UNCHANGED <<readonly, answer>>
    PROVE  [Store!Next]_Store!vars
<1>1. Pending(k) # None
  <2>1. Pending(k) \in [val : Values \cup {None}, done : BOOLEAN]
    OBVIOUS
  <2> QED
    BY <2>1, NoneIsNothing
<1>2. [j \in Keyfile |-> OnFile(j)'] = [[j \in Keyfile |-> OnFile(j)] EXCEPT ![k] = v]
  OBVIOUS
<1>3. [j \in Keyfile |-> Pending(j)']
        = [[j \in Keyfile |-> Pending(j)] EXCEPT ![k] = [val |-> v, done |-> TRUE]]
  OBVIOUS
<1>4. Store!Commit(k)
  <2>1. /\ [j \in Keyfile |-> Pending(j)][k] = Pending(k)
        /\ Pending(k).val = v /\ Pending(k).done = FALSE
    OBVIOUS
  <2> QED
    BY <1>1, <1>2, <1>3, <2>1 DEF Store!Commit
<1> QED
  BY <1>4 DEF Store!Next

\* The rename of a client's call commits it; the rewrite of an old keyfile is
\* not seen.
LEMMA WriteCommits ==
    ASSUME OwnFiles, TypeOK, IInv, OneEach, OneEach', NEW w \in Writer,
           Opened', WriteKeyfile(w)
    PROVE  [Store!Next]_Store!vars
<1> USE DEF IInv
<1>1. /\ pc[w] \in {"open", "write", "rename"}
      /\ pc'[w] \in {"write", "rename", "saved", "failed"}
      /\ \A v \in Writer : v # w => pc'[v] = pc[v]
      /\ UNCHANGED <<readonly, boot, conns, gen, todo, call, answer, crashes>>
  BY WriteMoves
<1>2. \A k \in Keyfile :
            IF pc'[w] = "saved" /\ call[w].file = <<k, 0>>
            THEN OnFile(k)' = call[w].val ELSE OnFile(k)' = OnFile(k)
  BY WriteDisk
<1>3. CASE w = Main
  <2>1. \A d \in Client : pc[d] = "idle" /\ pc'[d] = "idle"
    BY <1>1, <1>3, NamesDistinct DEF Writer, Shape
  <2>2. \A k \in Keyfile : CallsOn(k) = {} /\ CallsOn(k)' = {}
    BY <2>1 DEF CallsOn
  <2>3. \A k \in Keyfile : Pending(k)' = Pending(k)
    BY <2>2 DEF Pending
  <2>4. OnFile(call[w].file[1]) = call[w].val
    BY <1>1, <1>3, RewritesOwn
  <2>5. \A k \in Keyfile : OnFile(k)' = OnFile(k)
    BY <1>2, <2>4
  <2> QED
    BY <1>1, <2>3, <2>5, Stutters
<1>4. CASE w \in Client
  <2>1. /\ \A d \in Client : d # w => pc'[d] = pc[d] /\ call'[d] = call[d]
        /\ \A k \in Keyfile : /\ w \in CallsOn(k)' <=> w \in CallsOn(k)
                              /\ w \in CallsOn(k) <=> call[w].file = <<k, 0>>
    BY <1>1, <1>4 DEF Writer, CallsOn
  <2>2. CASE \E k \in Keyfile : pc'[w] = "saved" /\ call[w].file = <<k, 0>>
    <3>1. PICK k \in Keyfile : pc'[w] = "saved" /\ call[w].file = <<k, 0>>
      BY <2>2
    <3>2. /\ w \in CallsOn(k) /\ w \in CallsOn(k)'
          /\ \A j \in Keyfile : j # k => w \notin CallsOn(j) /\ w \notin CallsOn(j)'
      BY <2>1, <3>1
    <3>3. Pending(k) = PendingOf(w) /\ Pending(k)' = PendingOf(w)'
      BY <1>1, <1>4, <2>1, <3>2, Moving
    <3>4. \A j \in Keyfile : j # k => Pending(j)' = Pending(j)
      BY <1>1, <1>4, <2>1, <3>2, Moving
    <3>5. /\ PendingOf(w) = [val |-> call[w].val, done |-> FALSE]
          /\ PendingOf(w)' = [val |-> call[w].val, done |-> TRUE]
      BY <1>1, <3>1 DEF PendingOf
    <3>6. OnFile(k)' = call[w].val /\ \A j \in Keyfile : j # k => OnFile(j)' = OnFile(j)
      BY <1>2, <3>1
    <3>7. call[w].val \in Values
      BY <1>1, Carrying
    <3>8. ~readonly
      BY <1>1, <3>1 DEF Opened
    <3> QED
      BY <1>1, <3>3, <3>4, <3>5, <3>6, <3>7, <3>8, Commits
  <2>3. CASE ~ \E k \in Keyfile : pc'[w] = "saved" /\ call[w].file = <<k, 0>>
    <3>1. \A k \in Keyfile : OnFile(k)' = OnFile(k)
      BY <1>2, <2>3
    <3>2. ASSUME NEW k \in Keyfile PROVE Pending(k)' = Pending(k)
      <4>1. CASE w \in CallsOn(k)
        <5>1. pc'[w] # "saved"
          BY <2>1, <2>3, <4>1
        <5>2. PendingOf(w)' = PendingOf(w)
          BY <1>1, <5>1 DEF PendingOf
        <5> QED
          BY <1>1, <1>4, <2>1, <4>1, <5>2, Moving
      <4>2. CASE w \notin CallsOn(k)
        BY <1>1, <1>4, <2>1, <4>2, Moving
      <4> QED
        BY <4>1, <4>2
    <3> QED
      BY <1>1, <3>1, <3>2, Stutters
  <2> QED
    BY <2>2, <2>3
<1> QED
  BY <1>3, <1>4 DEF Writer

\* os.Remove commits the removal, unless the file system refuses it.
LEMMA UnlinkCommits ==
    ASSUME OwnFiles, TypeOK, IInv, OneEach, OneEach', NEW c \in Client, Unlink(c)
    PROVE  [Store!Next]_Store!vars
<1> USE DEF IInv
<1> DEFINE n == call[c].file
<1>1. /\ pc[c] = "unlink" /\ call[c] \in Calls
      /\ dir' = IF n = None \/ readonly THEN dir ELSE [dir EXCEPT ![n] = None]
      /\ UNCHANGED <<readonly, data, call, answer>>
  BY DEF Unlink, Shape, Writer, TypeOK
<1>2. /\ pc'[c] = "unexport"
      /\ \A d \in Client : d # c => pc'[d] = pc[d] /\ call'[d] = call[d]
  BY <1>1 DEF Unlink, Goto, TypeOK, Writer
<1>3. call[c].val = None
  BY <1>1 DEF Shape, Adding, Updating, Deleting, Storing
<1>4. \A k \in Keyfile : /\ <<k, 0>> \in Names /\ <<k, 0>> # None
                         /\ c \in CallsOn(k)' <=> c \in CallsOn(k)
                         /\ c \in CallsOn(k) <=> n = <<k, 0>>
  BY <1>1, <1>2, ProperTemp DEF CallsOn
<1>5. PendingOf(c) = [val |-> None, done |-> FALSE]
      /\ PendingOf(c)' = [val |-> None, done |-> ~readonly]
  BY <1>1, <1>2, <1>3 DEF PendingOf
<1>6. CASE ~readonly /\ \E k \in Keyfile : n = <<k, 0>>
  <2>1. PICK k \in Keyfile : n = <<k, 0>>
    BY <1>6
  <2>2. \A j \in Keyfile : j # k => n # <<j, 0>>
    BY <2>1
  <2>3. dir' = [dir EXCEPT ![<<k, 0>>] = None]
    BY <1>1, <1>4, <1>6, <2>1
  <2>4. OnFile(k)' = None /\ \A j \in Keyfile : j # k => OnFile(j)' = OnFile(j)
    BY <1>1, <1>4, <2>3 DEF OnFile, TypeOK
  <2>5. Pending(k) = PendingOf(c) /\ Pending(k)' = PendingOf(c)'
    BY <1>1, <1>2, <1>4, <2>1, Moving
  <2>6. \A j \in Keyfile : j # k => Pending(j)' = Pending(j)
    BY <1>1, <1>2, <1>4, <2>2, Moving
  <2>7. PendingOf(c)' = [val |-> None, done |-> TRUE]
    BY <1>5, <1>6
  <2> QED
    BY <1>1, <1>5, <1>6, <2>4, <2>5, <2>6, <2>7, Commits
<1>7. CASE readonly \/ ~ \E k \in Keyfile : n = <<k, 0>>
  <2>1. ASSUME NEW k \in Keyfile PROVE OnFile(k)' = OnFile(k)
    <3>1. dir'[<<k, 0>>] = dir[<<k, 0>>]
      BY <1>1, <1>4, <1>7 DEF TypeOK, Calls
    <3> QED
      BY <1>1, <3>1 DEF OnFile
  <2>2. ASSUME NEW k \in Keyfile PROVE Pending(k)' = Pending(k)
    <3>1. CASE c \in CallsOn(k)
      <4>1. PendingOf(c)' = PendingOf(c)
        BY <1>4, <1>5, <1>7, <3>1
      <4> QED
        BY <1>1, <1>2, <1>4, <3>1, <4>1, Moving
    <3>2. CASE c \notin CallsOn(k)
      BY <1>1, <1>2, <1>4, <3>2, Moving
    <3> QED
      BY <3>1, <3>2
  <2> QED
    BY <1>1, <2>1, <2>2, Stutters
<1> QED
  BY <1>6, <1>7

LEMMA CrashForgets ==
    ASSUME OneEach', Crash PROVE [Store!Next]_Store!vars
<1>1. /\ \A w \in Writer : pc'[w] = "idle"
      /\ UNCHANGED <<readonly, dir, data, answer>>
  BY DEF Crash, disk
<1>2. \A k \in Keyfile : OnFile(k)' = OnFile(k)
  BY <1>1 DEF OnFile
<1>3. \A k \in Keyfile : Pending(k)' = None
  BY <1>1 DEF OneEach, CallsOn, Writer
<1>4. Store!Crash
  BY <1>1, <1>2, <1>3 DEF Store!Crash
<1> QED
  BY <1>4 DEF Store!Next

LEMMA StoreStep ==
    ASSUME OwnFiles, TypeOK, IInv, TypeOK', IInv', [Next]_vars
    PROVE  [Store!Next]_Store!vars
<1>0. OneEach /\ OneEach'
  BY OneCall, OneCallNext
<1>1. ASSUME UNCHANGED <<readonly, dir, data, answer>>,
             \A d \in Client : pc'[d] = pc[d] /\ call'[d] = call[d]
      PROVE  [Store!Next]_Store!vars
  <2>1. \A k \in Keyfile : CallsOn(k)' = CallsOn(k)
    BY <1>1 DEF CallsOn
  <2>2. ASSUME NEW k \in Keyfile PROVE Pending(k)' = Pending(k)
    <3>1. CASE CallsOn(k) = {}
      BY <1>0, <2>1, <3>1 DEF OneEach
    <3>2. ASSUME NEW d \in CallsOn(k) PROVE Pending(k)' = Pending(k)
      <4>1. d \in CallsOn(k)' /\ d \in Client
        BY <2>1 DEF CallsOn
      <4>2. PendingOf(d)' = PendingOf(d)
        BY <1>1, <4>1 DEF PendingOf
      <4> QED
        BY <1>0, <4>1, <4>2 DEF OneEach
    <3> QED
      BY <3>1, <3>2
  <2>3. \A k \in Keyfile : OnFile(k)' = OnFile(k)
    BY <1>1 DEF OnFile
  <2> QED
    BY <1>1, <2>2, <2>3, Stutters
<1>2. CASE UNCHANGED vars
  BY <1>1, <1>2 DEF vars, disk
<1>3. ASSUME NEW c \in Client, Request(c) PROVE [Store!Next]_Store!vars
  <2>1. ASSUME NEW u \in Profile, NEW rev \in Rev, NEW psk \in {"none", "omitted", "set"},
               Add(c, u, rev, psk)
        PROVE  [Store!Next]_Store!vars
    <3>1. /\ pc[c] = "idle" /\ pc'[c] = "open"
          /\ call'[c].val \in Values
          /\ \A d \in Client : d # c => pc'[d] = pc[d] /\ call'[d] = call[d]
          /\ UNCHANGED <<readonly, dir, data, answer>>
      BY <2>1 DEF Add, MayCall, Goto, TypeOK, Writer, Values, disk
    <3> QED
      BY <1>0, <3>1, Begins
  <2>2. ASSUME NEW u \in Profile, MayCall(c, u), NEW o \in Callable(u), Delete(c, o)
        PROVE  [Store!Next]_Store!vars
    <3>1. /\ pc[c] = "idle" /\ pc'[c] = "unlink"
          /\ call'[c].val = None
          /\ \A d \in Client : d # c => pc'[d] = pc[d] /\ call'[d] = call[d]
          /\ UNCHANGED <<readonly, dir, data, answer>>
      BY <2>2 DEF Delete, MayCall, Goto, TypeOK, Writer, disk
    <3> QED
      BY <1>0, <3>1, Begins
  <2>3. ASSUME NEW u \in Profile, MayCall(c, u), NEW o \in Callable(u),
               NEW rev \in Rev, NEW psk \in {"none", "omitted", "set"},
               Update(c, o, rev, psk)
        PROVE  [Store!Next]_Store!vars
    <3>0. conns[o].val \in Values
      BY Called
    <3>1. /\ pc[c] = "idle" /\ pc'[c] \in {"open", "failed"}
          /\ \A d \in Client : d # c => pc'[d] = pc[d] /\ call'[d] = call[d]
          /\ UNCHANGED <<readonly, dir, data, answer>>
      BY <2>3 DEF Update, MayCall, Goto, TypeOK, Writer, disk
    <3>2. call'[c].val \in Values
      BY <2>3, <3>0 DEF Update, Written, KeepSecrets, Values, TypeOK, Writer
    <3> QED
      BY <1>0, <3>1, <3>2, Begins
  <2> QED
    BY <1>3, <2>1, <2>2, <2>3 DEF Request
<1>4. ASSUME NEW c \in Client, Step(c) PROVE [Store!Next]_Store!vars
  <2>0. Opened' /\ c \in Writer
    BY DEF IInv, Writer
  <2>1. CASE WriteKeyfile(c)
    BY <1>0, <2>0, <2>1, WriteCommits
  <2>2. CASE Added(c) \/ Updated(c)
    <3>1. /\ pc[c] \in {"saved", "failed"} /\ End(c, pc[c])
          /\ call[c].op \in {"add", "update"}
          /\ UNCHANGED <<readonly, dir, data>>
      BY <2>2 DEF Added, Updated, disk
    <3>2. call[c].val \in Values
      BY <3>1 DEF IInv, Shape, Adding, Updating, Deleting
    <3> QED
      BY <1>0, <3>1, <3>2, Answers
  <2>3. CASE Unlink(c)
    BY <1>0, <2>3, UnlinkCommits
  <2>4. CASE Unexport(c)
    <3>1. /\ pc[c] = "unexport" /\ End(c, "saved")
          /\ UNCHANGED <<readonly, dir, data>>
      BY <2>4 DEF Unexport, disk
    <3>2. call[c].val = None
      BY <3>1 DEF IInv, Shape, Adding, Updating, Deleting, Storing
    <3> QED
      BY <1>0, <3>1, <3>2, Answers
  <2> QED
    BY <1>4, <2>1, <2>2, <2>3, <2>4 DEF Step
<1>5. ASSUME NewSettings PROVE [Store!Next]_Store!vars
  <2>0. Main \notin Client /\ Main \in Writer /\ Client \subseteq Writer /\ Opened'
    BY NamesDistinct DEF Writer, IInv
  <2>1. ASSUME ReadDir \/ Export \/ \E n \in Names : LoadGone(n) \/ Load(n)
        PROVE  UNCHANGED <<readonly, dir, data, answer, pc, call>>
    BY <2>1 DEF ReadDir, Export, LoadGone, Load, disk
  <2>2. ASSUME NEW n \in Names, LoadLegacy(n)
        PROVE  /\ UNCHANGED <<readonly, dir, data, answer>>
               /\ \A d \in Client : pc'[d] = pc[d] /\ call'[d] = call[d]
    BY <2>0, <2>2 DEF LoadLegacy, Goto, TypeOK, disk
  <2>3. ASSUME Loaded
        PROVE  /\ UNCHANGED <<readonly, dir, data, answer>>
               /\ \A d \in Client : pc'[d] = pc[d] /\ call'[d] = call[d]
    BY <2>0, <2>3 DEF Loaded, End, Goto, TypeOK, disk
  <2> QED
    BY <1>0, <1>1, <1>5, <2>0, <2>1, <2>2, <2>3, WriteCommits DEF NewSettings
<1> QED
  BY <1>0, <1>2, <1>3, <1>4, <1>5, CrashForgets DEF Next

LEMMA StoreInit == OwnFiles /\ Init => Store!Init
<1> SUFFICES ASSUME OwnFiles, Init PROVE Store!Init
  OBVIOUS
<1>1. TypeOK /\ IInv
  BY TypeInit, InvInit
<1>2. ASSUME NEW k \in Keyfile PROVE OnFile(k) \in Values \cup {None}
  <2>1. <<k, 0>> \in Names /\ <<k, 0>>[2] = 0
    BY ProperTemp
  <2> QED
    BY <1>1, <2>1 DEF OnFile, IInv, Files
<1>3. ASSUME NEW k \in Keyfile PROVE Pending(k) = None
  <2>1. CallsOn(k) = {}
    BY DEF CallsOn, Init, Writer
  <2> QED
    BY <2>1 DEF Pending
<1> QED
  BY <1>2, <1>3 DEF Store!Init, Init

\* Every keyfile is a register that survives the daemon: a call replaces or
\* removes what it holds once, in one step, a crash or a step of writeKeyfile
\* that fails leaves the old settings or the new ones, and the answer says
\* which (writeKeyfile, settings.go:619).  Every step of Settings is a
\* step of ProfileStore or leaves its state alone.
THEOREM ImplementsStore == OwnFiles => (Spec => Durable)
<1>1. OwnFiles /\ Init => Store!Init
  BY StoreInit
<1>2. OwnFiles /\ TypeOK /\ IInv /\ TypeOK' /\ IInv' /\ [Next]_vars
        => [Store!Next]_Store!vars
  BY StoreStep
<1>3. CASE OwnFiles
  BY <1>1, <1>2, <1>3, InvHolds, PTL DEF Spec, Durable, Store!Spec
<1>4. CASE ~OwnFiles
  BY <1>4
<1> QED
  BY <1>3, <1>4
=============================================================================
