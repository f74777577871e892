---------------------------- MODULE StateProofs ----------------------------
(***************************************************************************)
(* Proofs about what the program keeps on disk.                            *)
(*                                                                         *)
(* FileIO: for any files, contents, writers and readers.  The invariant    *)
(* follows a temporary file: it belongs to at most one request, it holds   *)
(* what that request read, and it is whole before the rename.              *)
(*                                                                         *)
(* TokenStore: for any number of tokens.  The invariant says what every    *)
(* step of a save may rely on: the key it holds is the one in the keyring, *)
(* the encrypted file exists before the plaintext is removed, and what is  *)
(* being saved is still accepted by the provider.                          *)
(***************************************************************************)
EXTENDS FileIO, TokenStore, TLAPS

----------------------------------------------------------------------------
(* FileIO *)

File == [value : FileValues \cup {NoContent}, whole : BOOLEAN]
Temp == [owner : FileWriters \cup {NoContent}, path : Targets, old : BOOLEAN,
         file : File]
Request ==
  [pc : {"resolve", "walk", "content", "temp", "fill", "rename", "cleanup"},
   req : WriteRequests, data : FileValues \cup {NoContent}]

FileTypes ==
  /\ target \in [Targets -> File]
  /\ temps \subseteq Temp
  /\ source \in [Sources -> FileValues \cup {NoContent}]
  /\ writer \in [FileWriters -> {NotServing} \cup Request]
  /\ reader \in [FileReaders -> {NotServing} \cup [pc : {"open"}, path : Targets]
                                 \cup [pc : {"got"}, file : File]]

(* The temporary file of writer w, and the source it reads: DropSource     *)
(* leaves the source of a request alone, but another request may already   *)
(* have removed it.                                                        *)
Owns(w) ==
  LET me == writer[w] IN
  /\ me.pc \notin {"fill", "rename"} => TempOf(w) = {}
  /\ \A f, g \in TempOf(w) : f = g
  /\ \A f \in TempOf(w) :
       f.file.value = me.data /\ (me.pc = "rename" => f.file.whole)
  /\ (me.pc \in {"temp", "fill", "rename"} /\ me.req.source # NoContent) =>
       source[me.req.source] \in {me.data, NoContent}
  /\ me.pc = "cleanup" =>
       /\ me.req.source \in Sources
       /\ source[me.req.source] \in delivered \cup {NoContent}

FileInv == FileTypes /\ WholeFiles /\ \A w \in FileWriters : Owns(w)

LEMMA InitFile == FileInit => FileInv
<1> SUFFICES ASSUME FileInit PROVE FileInv OBVIOUS
<1>1. FileTypes BY DEF FileInit, FileTypes, Missing, Whole, File, NotServing
<1>2. WholeFiles BY DEF FileInit, WholeFiles, Missing, Whole, NotServing
<1>3. \A w \in FileWriters : Owns(w) BY DEF FileInit, Owns, TempOf, NotServing
<1> QED BY <1>1, <1>2, <1>3 DEF FileInv

(* What a step of somebody else must leave alone. *)
LEMMA OthersFile ==
  ASSUME NEW v \in FileWriters, Owns(v), FileTypes,
         writer'[v] = writer[v], delivered \subseteq delivered',
         TempOf(v)' = TempOf(v),
         writer[v] # NotServing /\ writer[v].req.source # NoContent =>
           source'[writer[v].req.source] \in {source[writer[v].req.source], NoContent}
  PROVE  Owns(v)'
<1>1. writer[v] = NotServing \/ writer[v] \in Request BY DEF FileTypes
<1>2. CASE writer[v] = NotServing
  BY <1>2 DEF Owns, NotServing
<1>3. CASE writer[v] \in Request
  <2>1. writer[v] # NotServing BY <1>3 DEF Request, NotServing
  <2>2. writer[v].pc = "cleanup" => writer[v].req.source # NoContent
    BY FileAssumption DEF Owns
  <2> QED BY <2>1, <2>2 DEF Owns
<1> QED BY <1>1, <1>2, <1>3

(* A request that only moves on: no file and no source is touched. *)
LEMMA MoveOn ==
  ASSUME FileInv, NEW w \in FileWriters, TempOf(w) = {},
         NEW me, me = NotServing \/
                   (me \in Request /\ me.pc \in {"resolve", "walk", "content"}),
         writer' = [writer EXCEPT ![w] = me],
         UNCHANGED <<target, temps, source, reader, delivered>>
  PROVE  FileInv'
<1>1. FileTypes' BY DEF FileInv, FileTypes
<1>2. WholeFiles' BY DEF FileInv, WholeFiles
<1>3. ASSUME NEW v \in FileWriters PROVE Owns(v)'
  <2>1. CASE v = w BY <2>1 DEF FileInv, FileTypes, Owns, TempOf, NotServing
  <2>2. CASE v # w
    BY <2>2, OthersFile DEF FileInv, FileTypes, TempOf
  <2> QED BY <2>1, <2>2
<1> QED BY <1>1, <1>2, <1>3 DEF FileInv

LEMMA WriteFileKeeps ==
  ASSUME FileInv, NEW w \in FileWriters, WriteFile(w)
  PROVE  FileInv'
<1>1. PICK q \in WriteRequests :
        writer' = [writer EXCEPT ![w] = [pc |-> "resolve", req |-> q, data |-> NoContent]]
  BY DEF WriteFile
<1>2. TempOf(w) = {} BY DEF FileInv, Owns, WriteFile, NotServing
<1> QED BY <1>1, <1>2, MoveOn DEF WriteFile, Request

LEMMA EarlySteps ==
  ASSUME FileInv, NEW w \in FileWriters, ResolvePath(w) \/ WalkParent(w)
  PROVE  FileInv'
<1> DEFINE me(pc) == [writer[w] EXCEPT !.pc = pc]
<1>1. writer[w] \in Request /\ TempOf(w) = {}
      /\ UNCHANGED <<target, temps, source, reader, delivered>>
  BY DEF FileInv, FileTypes, Owns, ResolvePath, WalkParent, WriterAt, NotServing
<1>2. \/ writer' = [writer EXCEPT ![w] = me("walk")]
      \/ writer' = [writer EXCEPT ![w] = me("content")]
      \/ writer' = [writer EXCEPT ![w] = NotServing]
  BY DEF FileInv, FileTypes, ResolvePath, WalkParent, GoTo, Fail
<1>3. \A pc \in {"walk", "content"} : me(pc) \in Request /\ me(pc).pc = pc
  BY <1>1 DEF Request
<1> HIDE DEF me
<1> QED BY <1>1, <1>2, <1>3, MoveOn

LEMMA ReadContentKeeps ==
  ASSUME FileInv, NEW w \in FileWriters, ReadContent(w)
  PROVE  FileInv'
<1> DEFINE q == writer[w].req
           me == [writer[w] EXCEPT !.pc = "temp", !.data = Content(q)]
<1>1. writer[w] \in Request /\ TempOf(w) = {}
      /\ UNCHANGED <<target, temps, source, reader, delivered>>
  BY DEF FileInv, FileTypes, Owns, ReadContent, WriterAt, NotServing
<1>2. CASE Content(q) \in FileValues \ Oversized
  <2>1. me \in Request /\ me.pc = "temp" /\ me.req = q /\ me.data = Content(q)
    BY <1>1, <1>2 DEF Request
  <2>2. writer' = [writer EXCEPT ![w] = me]
    BY <1>2 DEF ReadContent, FileInv, FileTypes
  <2> HIDE DEF me
  <2>3. FileTypes' BY <1>1, <2>1, <2>2 DEF FileInv, FileTypes
  <2>4. WholeFiles' BY <1>1 DEF FileInv, WholeFiles
  <2>5. writer'[w] = me BY <2>2 DEF FileInv, FileTypes
  <2>6. Owns(w)'
    BY <1>1, <2>1, <2>5 DEF Owns, TempOf, Content
  <2>7. ASSUME NEW v \in FileWriters, v # w PROVE Owns(v)'
    BY <1>1, <2>2, <2>7, OthersFile DEF FileInv, FileTypes, TempOf
  <2> QED BY <2>3, <2>4, <2>6, <2>7 DEF FileInv
<1>3. CASE Content(q) \notin FileValues \ Oversized
  BY <1>1, <1>3, MoveOn DEF ReadContent, Fail
<1> QED BY <1>2, <1>3

LEMMA CreateTempKeeps ==
  ASSUME FileInv, NEW w \in FileWriters, CreateTemp(w)
  PROVE  FileInv'
<1> DEFINE q == writer[w].req
           new == [owner |-> w, path |-> q.path, old |-> FALSE,
                   file |-> Partial(writer[w].data)]
           me == [writer[w] EXCEPT !.pc = "fill"]
<1>1. writer[w] \in Request /\ TempOf(w) = {} /\ q \in FileRequest
      /\ UNCHANGED <<target, source, reader, delivered>>
  BY FileAssumption
     DEF FileInv, FileTypes, Owns, CreateTemp, WriterAt, NotServing, Request
<1>2. CASE GoTo(w, "fill") /\ temps' = temps \cup {new}
  <2>1. me \in Request /\ me.pc = "fill" /\ me.req = q
        /\ me.data = writer[w].data
    BY <1>1 DEF Request
  <2>2. new \in Temp /\ new.owner = w /\ new.file.value = writer[w].data
    BY <1>1 DEF Temp, File, Partial, Request, FileRequest
  <2>3. writer' = [writer EXCEPT ![w] = me]
    BY <1>2 DEF GoTo, FileInv, FileTypes
  <2> HIDE DEF me, new
  <2>4. FileTypes' BY <1>1, <1>2, <2>1, <2>2, <2>3 DEF FileInv, FileTypes
  <2>5. WholeFiles' BY <1>1 DEF FileInv, WholeFiles
  <2>6. writer'[w] = me BY <2>3 DEF FileInv, FileTypes
  <2>7. TempOf(w)' = {new} BY <1>1, <1>2, <2>2 DEF TempOf
  <2>8. Owns(w)'
    <3>1. q.source # NoContent => source[q.source] \in {writer[w].data, NoContent}
      BY DEF FileInv, Owns, CreateTemp, WriterAt
    <3> QED BY <1>1, <2>1, <2>2, <2>6, <2>7, <3>1 DEF Owns
  <2>9. ASSUME NEW v \in FileWriters, v # w PROVE Owns(v)'
    <3>1. TempOf(v)' = TempOf(v) BY <1>2, <2>2, <2>9 DEF TempOf
    <3> QED BY <1>1, <2>3, <2>9, <3>1, OthersFile DEF FileInv, FileTypes
  <2> QED BY <2>4, <2>5, <2>8, <2>9 DEF FileInv
<1>3. CASE Fail(w) /\ UNCHANGED temps
  BY <1>1, <1>3, MoveOn DEF Fail
<1> QED BY <1>2, <1>3 DEF CreateTemp

(* A write that failed: its temporary file is removed, or nobody's. *)
LEMMA CleanedKeeps ==
  ASSUME FileInv, NEW w \in FileWriters, Fail(w), temps' = Cleaned(w),
         UNCHANGED <<target, source, reader, delivered>>
  PROVE  FileInv'
<1> DEFINE orphans == {[f EXCEPT !.owner = NoContent] :
                         f \in {g \in TempOf(w) : ~Reachable(g.path)}}
<1>1. \A f \in orphans : f \in Temp /\ f.owner = NoContent
  BY DEF FileInv, FileTypes, TempOf, Temp
<1>2. temps' = (temps \ TempOf(w)) \cup orphans BY DEF Cleaned
<1> HIDE DEF orphans
<1>3. FileTypes' BY <1>1, <1>2 DEF FileInv, FileTypes, Fail
<1>4. WholeFiles' BY DEF FileInv, WholeFiles
<1>5. TempOf(w)' = {} BY <1>1, <1>2, FileAssumption DEF TempOf
<1>6. Owns(w)'
  BY <1>5 DEF Owns, Fail, FileInv, FileTypes, NotServing
<1>7. ASSUME NEW v \in FileWriters, v # w PROVE Owns(v)'
  <2>1. TempOf(v)' = TempOf(v) BY <1>1, <1>2, <1>7, FileAssumption DEF TempOf
  <2> QED BY <1>7, <2>1, OthersFile DEF FileInv, FileTypes, Fail
<1> QED BY <1>3, <1>4, <1>6, <1>7 DEF FileInv

LEMMA FillTempKeeps ==
  ASSUME FileInv, NEW w \in FileWriters, FillTemp(w)
  PROVE  FileInv'
<1> DEFINE q == writer[w].req
           me == [writer[w] EXCEPT !.pc = "rename"]
           filled(f) == [f EXCEPT !.file.whole = TRUE]
<1>1. writer[w] \in Request /\ writer[w].pc = "fill"
      /\ UNCHANGED <<target, source, reader, delivered>>
  BY DEF FileInv, FileTypes, FillTemp, WriterAt, NotServing
<1>2. CASE /\ GoTo(w, "rename")
           /\ temps' = {IF f \in TempOf(w) THEN filled(f) ELSE f : f \in temps}
  <2>1. me \in Request /\ me.pc = "rename" /\ me.req = q
        /\ me.data = writer[w].data
    BY <1>1 DEF Request
  <2>2. \A f \in temps : /\ filled(f) \in Temp /\ filled(f).owner = f.owner
                         /\ filled(f).file.whole
                         /\ filled(f).file.value = f.file.value
    BY DEF FileInv, FileTypes, Temp, File
  <2>3. writer' = [writer EXCEPT ![w] = me]
    BY <1>2 DEF GoTo, FileInv, FileTypes
  <2> HIDE DEF me, filled
  <2>4. FileTypes' BY <1>1, <1>2, <2>1, <2>2, <2>3 DEF FileInv, FileTypes
  <2>5. WholeFiles' BY <1>1 DEF FileInv, WholeFiles
  <2>6. writer'[w] = me BY <2>3 DEF FileInv, FileTypes
  <2>7. \A g \in TempOf(w)' : \E f \in TempOf(w) : g = filled(f)
    BY <1>2, <2>2 DEF TempOf
  <2>8. Owns(w)'
    <3>1. /\ q.source # NoContent =>
               source[q.source] \in {writer[w].data, NoContent}
          /\ \A f, g \in TempOf(w) : f = g
          /\ \A f \in TempOf(w) : f.file.value = writer[w].data /\ f \in temps
      BY <1>1 DEF FileInv, Owns, TempOf
    <3> QED BY <1>1, <2>1, <2>2, <2>6, <2>7, <3>1 DEF Owns
  <2>9. ASSUME NEW v \in FileWriters, v # w PROVE Owns(v)'
    <3>1. TempOf(v)' = TempOf(v) BY <1>2, <2>2, <2>9 DEF TempOf
    <3> QED BY <1>1, <2>3, <2>9, <3>1, OthersFile DEF FileInv, FileTypes
  <2> QED BY <2>4, <2>5, <2>8, <2>9 DEF FileInv
<1>3. CASE Fail(w) /\ temps' = Cleaned(w)
  BY <1>1, <1>3, CleanedKeeps
<1> QED BY <1>2, <1>3 DEF FillTemp

LEMMA RenameTempKeeps ==
  ASSUME FileInv, NEW w \in FileWriters, RenameTemp(w)
  PROVE  FileInv'
<1> DEFINE q == writer[w].req
           me == [writer[w] EXCEPT !.pc = "cleanup"]
<1>1. writer[w] \in Request /\ writer[w].pc = "rename" /\ q \in FileRequest
      /\ UNCHANGED <<source, reader>>
  BY FileAssumption
     DEF FileInv, FileTypes, RenameTemp, WriterAt, NotServing, Request
<1>2. ASSUME NEW f \in TempOf(w),
             target' = [target EXCEPT ![q.path] = f.file],
             delivered' = delivered \cup {f.file.value},
             temps' = temps \ {f},
             IF q.source = NoContent THEN Fail(w) ELSE GoTo(w, "cleanup")
      PROVE  FileInv'
  <2>1. me \in Request /\ me.pc = "cleanup" /\ me.req = q
    BY <1>1 DEF Request
  <2>2. f \in Temp /\ f.file \in File /\ f.file.whole
        /\ f.file.value = writer[w].data /\ f.owner = w /\ q.path \in Targets
    BY <1>1 DEF FileInv, FileTypes, Owns, TempOf, Temp, FileRequest
  <2>3. \/ q.source = NoContent /\ writer' = [writer EXCEPT ![w] = NotServing]
        \/ q.source # NoContent /\ writer' = [writer EXCEPT ![w] = me]
    BY <1>2 DEF Fail, GoTo, FileInv, FileTypes
  <2> HIDE DEF me
  <2>4. FileTypes'
    BY <1>1, <1>2, <2>1, <2>2, <2>3 DEF FileInv, FileTypes
  <2>5. WholeFiles'
    BY <1>1, <1>2, <2>2 DEF FileInv, FileTypes, WholeFiles
  <2>6. TempOf(w)' = {} BY <1>2 DEF TempOf, FileInv, Owns
  <2>7. Owns(w)'
    <3>1. CASE writer' = [writer EXCEPT ![w] = NotServing]
      <4>1. writer'[w] = NotServing BY <3>1 DEF FileInv, FileTypes
      <4> QED BY <2>6, <4>1 DEF Owns, NotServing
    <3>2. CASE q.source # NoContent /\ writer' = [writer EXCEPT ![w] = me]
      <4>1. writer'[w] = me BY <3>2 DEF FileInv, FileTypes
      <4>2. source[q.source] \in {writer[w].data, NoContent}
        BY <1>1, <3>2 DEF FileInv, Owns
      <4>3. q.source \in Sources BY <1>1, <3>2 DEF FileRequest
      <4> QED BY <1>1, <1>2, <2>1, <2>2, <2>6, <4>1, <4>2, <4>3 DEF Owns
    <3> QED BY <2>3, <3>1, <3>2
  <2>8. ASSUME NEW v \in FileWriters, v # w PROVE Owns(v)'
    <3>1. TempOf(v)' = TempOf(v) BY <1>2, <2>2, <2>8 DEF TempOf
    <3>2. writer'[v] = writer[v] BY <2>3, <2>8 DEF FileInv, FileTypes
    <3> QED BY <1>1, <1>2, <3>1, <3>2, OthersFile DEF FileInv
  <2> QED BY <2>4, <2>5, <2>7, <2>8 DEF FileInv
<1>3. CASE Fail(w) /\ temps' = Cleaned(w) /\ UNCHANGED <<target, delivered>>
  BY <1>1, <1>3, CleanedKeeps
<1> QED BY <1>2, <1>3 DEF RenameTemp

LEMMA RemoveSourceKeeps ==
  ASSUME FileInv, NEW w \in FileWriters, RemoveSource(w)
  PROVE  FileInv'
<1> DEFINE s == writer[w].req.source
<1>1. s \in Sources /\ source' = [source EXCEPT ![s] = NoContent]
      /\ writer' = [writer EXCEPT ![w] = NotServing] /\ TempOf(w) = {}
      /\ UNCHANGED <<target, temps, reader, delivered>>
  BY DEF FileInv, Owns, RemoveSource, WriterAt, Fail
<1> HIDE DEF s
<1>2. FileTypes' BY <1>1 DEF FileInv, FileTypes
<1>3. WholeFiles' BY <1>1 DEF FileInv, WholeFiles
<1>4. Owns(w)'
  BY <1>1 DEF FileInv, FileTypes, Owns, TempOf, NotServing
<1>5. ASSUME NEW v \in FileWriters, v # w PROVE Owns(v)'
  <2>1. TempOf(v)' = TempOf(v) /\ writer'[v] = writer[v]
    BY <1>1, <1>5 DEF TempOf, FileInv, FileTypes
  <2>2. ASSUME writer[v] # NotServing, writer[v].req.source # NoContent
        PROVE  source'[writer[v].req.source] \in
                 {source[writer[v].req.source], NoContent}
    <3>1. writer[v].req.source \in Sources
      BY <1>5, <2>2, FileAssumption DEF FileInv, FileTypes, Request, FileRequest
    <3> QED BY <1>1, <3>1 DEF FileInv, FileTypes
  <2> QED BY <1>1, <2>1, <2>2, OthersFile DEF FileInv
<1> QED BY <1>2, <1>3, <1>4, <1>5 DEF FileInv

(* A reader moves on, and a file it got is whole. *)
Reading == {NotServing} \cup [pc : {"open"}, path : Targets]
                        \cup [pc : {"got"}, file : File]

LEMMA ReaderMoves ==
  ASSUME FileInv, NEW r \in FileReaders, NEW m \in Reading,
         m.pc = "got" => m.file.whole,
         reader' = [reader EXCEPT ![r] = m],
         UNCHANGED <<target, temps, source, writer, delivered>>
  PROVE  FileInv'
<1>1. FileTypes' BY DEF FileInv, FileTypes, Reading
<1>2. WholeFiles' BY DEF FileInv, FileTypes, WholeFiles
<1>3. \A v \in FileWriters : Owns(v)' BY DEF FileInv, Owns, TempOf
<1> QED BY <1>1, <1>2, <1>3 DEF FileInv

LEMMA ReaderKeeps ==
  ASSUME FileInv, NEW r \in FileReaders,
         ResolveReadPath(r) \/ OpenRead(r) \/ Reply(r)
  PROVE  FileInv'
<1>1. UNCHANGED <<target, temps, source, writer, delivered>>
  BY DEF ResolveReadPath, OpenRead, Reply
<1>2. NotServing \in Reading /\ NotServing.pc # "got"
  BY DEF Reading, NotServing
<1>3. CASE ResolveReadPath(r)
  <2>1. PICK t \in Targets :
          reader' = [reader EXCEPT ![r] = [pc |-> "open", path |-> t]]
    BY <1>3 DEF ResolveReadPath
  <2>2. [pc |-> "open", path |-> t] \in Reading BY DEF Reading
  <2> QED BY <1>1, <2>1, <2>2, ReaderMoves
<1>4. CASE OpenRead(r)
  <2> DEFINE f == target[reader[r].path]
             m == [pc |-> "got", file |-> f]
  <2>1. reader[r] \in [pc : {"open"}, path : Targets]
    BY <1>4 DEF OpenRead, FileInv, FileTypes, NotServing
  <2>2. f \in File /\ f.whole BY <2>1 DEF FileInv, FileTypes, WholeFiles
  <2>3. m \in Reading /\ m.file.whole BY <2>2 DEF Reading
  <2>4. \/ reader' = [reader EXCEPT ![r] = m]
        \/ reader' = [reader EXCEPT ![r] = NotServing]
    BY <1>4 DEF OpenRead
  <2> HIDE DEF m
  <2> QED BY <1>1, <1>2, <2>3, <2>4, ReaderMoves
<1>5. CASE Reply(r) BY <1>1, <1>2, <1>5, ReaderMoves DEF Reply
<1> QED BY <1>3, <1>4, <1>5

LEMMA CleanupKeeps == ASSUME FileInv, CleanupStaleTempFiles PROVE FileInv'
<1>1. FileTypes' BY DEF FileInv, FileTypes, CleanupStaleTempFiles
<1>2. WholeFiles' BY DEF FileInv, WholeFiles, CleanupStaleTempFiles
<1>3. ASSUME NEW v \in FileWriters PROVE Owns(v)'
  <2>1. TempOf(v)' \subseteq TempOf(v) BY DEF TempOf, CleanupStaleTempFiles
  <2> QED BY <2>1 DEF FileInv, Owns, CleanupStaleTempFiles
<1> QED BY <1>1, <1>2, <1>3 DEF FileInv

LEMMA CrashKeeps == ASSUME FileInv, CrashFileIO PROVE FileInv'
<1>1. \A f \in temps' : f \in Temp /\ f.owner = NoContent
  BY DEF FileInv, FileTypes, CrashFileIO, Temp
<1>2. FileTypes' BY <1>1 DEF FileInv, FileTypes, CrashFileIO
<1>3. WholeFiles' BY DEF FileInv, WholeFiles, CrashFileIO, NotServing
<1>4. ASSUME NEW v \in FileWriters PROVE Owns(v)'
  <2>1. TempOf(v)' = {} BY <1>1, FileAssumption DEF TempOf
  <2> QED BY <2>1 DEF Owns, CrashFileIO, NotServing
<1> QED BY <1>2, <1>3, <1>4 DEF FileInv

LEMMA HourKeeps == ASSUME FileInv, HourPasses PROVE FileInv'
<1> DEFINE aged(f) == [f EXCEPT !.old = TRUE]
<1>1. temps' = {aged(f) : f \in temps}
      /\ UNCHANGED <<target, source, writer, reader, delivered>>
  BY DEF HourPasses
<1>2. \A f \in temps : /\ aged(f) \in Temp /\ aged(f).owner = f.owner
                       /\ aged(f).file = f.file
  BY DEF FileInv, FileTypes, Temp
<1> HIDE DEF aged
<1>3. FileTypes' BY <1>1, <1>2 DEF FileInv, FileTypes
<1>4. WholeFiles' BY <1>1 DEF FileInv, WholeFiles
<1>5. ASSUME NEW v \in FileWriters PROVE Owns(v)'
  <2>1. \A g \in TempOf(v)' : \E f \in TempOf(v) : g = aged(f)
    BY <1>1, <1>2 DEF TempOf
  <2>2. \A f \in TempOf(v) : f \in temps BY DEF TempOf
  <2>3. TempOf(v) = {} => TempOf(v)' = {} BY <2>1
  <2> QED BY <1>1, <1>2, <2>1, <2>2, <2>3 DEF FileInv, Owns
<1> QED BY <1>3, <1>4, <1>5 DEF FileInv

LEMMA DropSourceKeeps == ASSUME FileInv, DropSource PROVE FileInv'
<1>1. PICK s \in Sources, x \in FileValues :
        /\ \A w \in FileWriters : writer[w] # NotServing => writer[w].req.source # s
        /\ source' = [source EXCEPT ![s] = x]
  BY DEF DropSource
<1>2. UNCHANGED <<target, temps, writer, reader, delivered>> BY DEF DropSource
<1>3. FileTypes' BY <1>1, <1>2 DEF FileInv, FileTypes
<1>4. WholeFiles' BY <1>2 DEF FileInv, WholeFiles
<1>5. ASSUME NEW v \in FileWriters PROVE Owns(v)'
  <2>1. ASSUME writer[v] # NotServing, writer[v].req.source # NoContent
        PROVE  source'[writer[v].req.source] = source[writer[v].req.source]
    <3>1. writer[v].req.source \in Sources /\ writer[v].req.source # s
      BY <1>1, <2>1, FileAssumption DEF FileInv, FileTypes, Request, FileRequest
    <3> QED BY <1>1, <3>1 DEF FileInv, FileTypes
  <2>2. TempOf(v)' = TempOf(v) BY <1>2 DEF TempOf
  <2> QED BY <1>2, <2>1, <2>2, OthersFile DEF FileInv
<1> QED BY <1>3, <1>4, <1>5 DEF FileInv

LEMMA NextFile == FileInv /\ [FileNext]_fileVars => FileInv'
<1> SUFFICES ASSUME FileInv, [FileNext]_fileVars PROVE FileInv' OBVIOUS
<1>1. ASSUME UNCHANGED <<target, temps, source, writer, reader, delivered>>
      PROVE  FileInv'
  BY <1>1 DEF FileInv, FileTypes, WholeFiles, Owns, TempOf
<1>2. CASE UNCHANGED fileVars BY <1>1, <1>2 DEF fileVars
<1>3. CASE ReplaceSub BY <1>1, <1>3 DEF ReplaceSub
<1>4. CASE \E w \in FileWriters :
             \/ WriteFile(w) \/ ResolvePath(w) \/ WalkParent(w) \/ ReadContent(w)
             \/ CreateTemp(w) \/ FillTemp(w) \/ RenameTemp(w) \/ RemoveSource(w)
  BY <1>4, WriteFileKeeps, EarlySteps, ReadContentKeeps, CreateTempKeeps,
     FillTempKeeps, RenameTempKeeps, RemoveSourceKeeps
<1>5. CASE \E r \in FileReaders : ResolveReadPath(r) \/ OpenRead(r) \/ Reply(r)
  BY <1>5, ReaderKeeps
<1>6. CASE CleanupStaleTempFiles \/ CrashFileIO \/ HourPasses \/ DropSource
  BY <1>6, CleanupKeeps, CrashKeeps, HourKeeps, DropSourceKeeps
<1> QED BY <1>2, <1>3, <1>4, <1>5, <1>6 DEF FileNext

(* The inductive invariant of FileIO.                                      *)
THEOREM FileInvariant == FileSpec => []FileInv
<1> QED BY InitFile, NextFile, PTL DEF FileSpec

(* Nobody ever sees a half-written file (rootAtomicWrite, ReadFile).       *)
THEOREM FilesAreWhole == FileSpec => []WholeFiles
<1>1. FileInv => WholeFiles BY DEF FileInv
<1> QED BY <1>1, FileInvariant, PTL

(* A source file goes only when a target has its content (WriteFile's      *)
(* removal of source_path after the rename).                               *)
THEOREM SourcesAreKept == FileSpec => SourceKept
<1>1. FileInv /\ [FileNext]_fileVars =>
        [\A s \in Sources : (source[s] # NoContent /\ source'[s] = NoContent)
                              => source[s] \in delivered]_fileVars
  <2> SUFFICES ASSUME FileInv, [FileNext]_fileVars, NEW s \in Sources,
                      source[s] # NoContent, source'[s] = NoContent
               PROVE  source[s] \in delivered
    OBVIOUS
  <2>1. CASE \E w \in FileWriters : RemoveSource(w)
    <3>1. PICK w \in FileWriters : RemoveSource(w) BY <2>1
    <3>2. writer[w].req.source = s
      BY <3>1 DEF RemoveSource, FileInv, FileTypes
    <3> QED BY <3>1, <3>2 DEF RemoveSource, WriterAt, FileInv, Owns
  <2>2. CASE DropSource
    <3>1. PICK t \in Sources, x \in FileValues : source' = [source EXCEPT ![t] = x]
      BY <2>2 DEF DropSource
    <3> QED BY <3>1, FileAssumption DEF FileInv, FileTypes
  <2>3. source' = source \/ DropSource \/ \E w \in FileWriters : RemoveSource(w)
    BY DEF FileNext, fileVars, WriteFile, ResolvePath, WalkParent, ReadContent,
           CreateTemp, FillTemp, RenameTemp, ResolveReadPath, OpenRead, Reply,
           CleanupStaleTempFiles, CrashFileIO, HourPasses, ReplaceSub
  <2> QED BY <2>1, <2>2, <2>3
<1> QED BY <1>1, FileInvariant, PTL DEF FileSpec, SourceKept

----------------------------------------------------------------------------
(* TokenStore *)

Encrypting == {"getKey", "setKey", "file", "access", "verify", "remove"}

Process == [pc : PCs, ret : {"none", "load", "reload", "migrate", "refresh", "auth"},
            tok : Token, cur : Token, key : 0..2]

(* Where a process may be: by the kind of provider; what it saves is still *)
(* accepted; as long as no key was replaced, it holds the keyring's, and   *)
(* the encrypted file is there before the plaintext is removed.            *)
Fits(f) ==
  /\ f \in Process
  /\ mode = "encrypted" => f.pc # "save"
  /\ mode # "encrypted" => /\ f.pc \in {"down", "fallback", "up", "save"}
                           /\ f.ret = "refresh" => f.pc = "save"
  /\ f.pc \in Encrypting => f.ret \in {"migrate", "refresh", "auth"}
  /\ f.pc \in Encrypting \cup {"save"} => f.cur.r \in valid
  /\ mode = "encrypted" /\ ~keyRace =>
       /\ f.pc = "file" => encKey # 0 /\ f.key = encKey
       /\ f.pc \in {"access", "verify", "remove"} => encFile # NoFile

(* What an encrypting provider has stored. *)
Accepted ==
  /\ plain # NoToken => plain.r \in valid
  /\ encFile # NoFile => encFile.r \in valid
Sealed ==
  /\ encFile # NoFile => encKey # 0 /\ encFile.key = encKey
  /\ issued > 0 => plain # NoToken \/ encFile # NoFile

(* What any other has stored, unless a rotated token is on its way. *)
Stored ==
  issued > 0 /\ ~dropped
    /\ (\A p \in Procs : ps[p].ret # "refresh" \/ mode \notin Rotates)
    => Recoverable \in valid

TokenInv ==
  /\ TypeOKTokens /\ valid \subseteq 1..issued
  /\ \A p \in Procs : Fits(ps[p])
  /\ mode # "encrypted" => At("ctl", "down")
  /\ mode = "encrypted" => Accepted /\ (~keyRace => Sealed)
  /\ mode \in {"plain", "rotating"} => Stored

LEMMA TokenBasics ==
  /\ MaxIssued \in Nat /\ 0 \in Ids /\ NoToken \in Token /\ NoToken.r = 0
  /\ Idle \in Process /\ Idle.pc = "down" /\ Idle.ret = "none"
  /\ TypeOKTokens <=>
       /\ mode \in Modes /\ issued \in Ids /\ valid \subseteq Ids /\ fresh \subseteq Ids
       /\ answers \in BOOLEAN /\ keyRace \in BOOLEAN /\ dropped \in BOOLEAN
       /\ encKey \in 0..2 /\ access \in Ids /\ encFile \in EncFiles
       /\ plain \in Token /\ ps \in [Procs -> Process]
<1>1. MaxIssued \in Nat /\ 0 \in Ids BY MaxIssuedAssumption DEF Ids
<1>2. NoToken \in Token /\ NoToken.r = 0 BY <1>1 DEF NoToken, Token
<1>3. Idle \in Process /\ Idle.pc = "down" /\ Idle.ret = "none"
  BY <1>2 DEF Idle, Process, PCs
<1> QED BY <1>1, <1>2, <1>3 DEF TypeOKTokens, Process

LEMMA InitToken == TokenInit => TokenInv
<1> SUFFICES ASSUME TokenInit PROVE TokenInv OBVIOUS
<1>1. issued \in 0..1 /\ issued \in Ids /\ 1 \in Ids
      /\ (issued = 0 \/ issued = 1)
  BY MaxIssuedAssumption DEF TokenInit, Ids
<1>2. valid \subseteq Ids /\ valid \subseteq 1..issued
  BY <1>1 DEF TokenInit
<1>3. plain \in Token /\ (plain # NoToken => plain.r \in valid)
  BY <1>1, TokenBasics DEF TokenInit, Token
<1>4. encFile \in EncFiles BY TokenBasics DEF TokenInit, NoFile, EncFiles
<1>5. TypeOKTokens
  <2>1. ps \in [Procs -> Process] BY TokenBasics DEF TokenInit
  <2>2. mode \in Modes /\ fresh \subseteq Ids /\ encKey \in 0..2 /\ access \in Ids
    BY TokenBasics DEF TokenInit
  <2>3. answers \in BOOLEAN /\ keyRace \in BOOLEAN /\ dropped \in BOOLEAN
    BY DEF TokenInit
  <2> QED BY <1>1, <1>2, <1>3, <1>4, <2>1, <2>2, <2>3, TokenBasics, Zenon
<1>6. ASSUME NEW p \in Procs PROVE Fits(ps[p])
  <2>1. ps[p] = Idle BY DEF TokenInit
  <2> QED BY <2>1, TokenBasics DEF Fits, Encrypting
<1>7. mode = "encrypted" => Accepted /\ (~keyRace => Sealed)
  <2>1. issued > 0 /\ mode = "encrypted" => plain # NoToken
    BY <1>1 DEF TokenInit, NoToken
  <2> QED BY <1>3, <2>1 DEF TokenInit, Accepted, Sealed
<1>8. mode \in {"plain", "rotating"} => Stored
  BY <1>1, <1>3 DEF Stored, Recoverable, TokenInit, Decrypts
<1>9. At("ctl", "down") BY TokenBasics DEF TokenInit, At, Procs
<1> QED BY <1>2, <1>5, <1>6, <1>7, <1>8, <1>9 DEF TokenInv

(* A process that does not move keeps its place. *)
LEMMA OthersToken ==
  ASSUME NEW q \in Procs, Fits(ps[q]), ps'[q] = ps[q], mode' = mode,
         ps[q].pc \in Encrypting \cup {"save"} => ps[q].cur.r \in valid',
         keyRace => keyRace', ~keyRace' /\ encKey # 0 => encKey' = encKey,
         encFile # NoFile => encFile' # NoFile
  PROVE  Fits(ps[q])'
BY DEF Fits

(* A process moves, and nothing that decides about the token changes. *)
LEMMA TokenMove ==
  ASSUME TokenInv, NEW p \in Procs, NEW f, Fits(f), ps' = [ps EXCEPT ![p] = f],
         UNCHANGED <<mode, issued, valid, encKey, encFile, plain, keyRace>>,
         access' \in Ids, fresh' \subseteq Ids, answers' \in BOOLEAN,
         dropped' \in BOOLEAN, dropped => dropped',
         mode # "encrypted" /\ p = "ctl" => f.pc = "down",
         mode # "encrypted" /\ ps[p].ret = "refresh" /\ mode \in Rotates => dropped'
  PROVE  TokenInv'
<1>1. ps \in [Procs -> Process] /\ f \in Process /\ ps' \in [Procs -> Process]
  BY TokenBasics DEF TokenInv, Fits
<1>2. TypeOKTokens' /\ (valid \subseteq 1..issued)'
  BY <1>1 DEF TokenInv, TypeOKTokens, Process
<1>3. ASSUME NEW q \in Procs PROVE Fits(ps[q])'
  <2>1. CASE q = p
    <3>1. ps'[q] = f BY <1>1, <2>1
    <3> QED BY <3>1 DEF Fits
  <2>2. CASE q # p
    <3>1. ps'[q] = ps[q] /\ Fits(ps[q]) BY <1>1, <2>2 DEF TokenInv
    <3> QED BY <3>1, OthersToken DEF Fits
  <2> QED BY <2>1, <2>2
<1>4. mode' = "encrypted" => Accepted' /\ (~keyRace' => Sealed')
  BY DEF TokenInv, Accepted, Sealed
<1>5. ASSUME mode \in {"plain", "rotating"} PROVE Stored'
  <2>1. Recoverable' = Recoverable BY DEF Recoverable, Decrypts
  <2>2. \A q \in Procs \ {p} : ps'[q] = ps[q] BY <1>1
  <2>3. Stored BY <1>5 DEF TokenInv
  <2> QED BY <1>5, <2>1, <2>2, <2>3 DEF Stored
<1>6. mode' # "encrypted" => At("ctl", "down")'
  BY <1>1 DEF TokenInv, At, Procs
<1> QED BY <1>2, <1>3, <1>4, <1>5, <1>6 DEF TokenInv

LEMMA QuietMove ==
  ASSUME TokenInv, NEW p \in Procs, NEW f, Fits(f), Move(p, f),
         UNCHANGED <<mode, provider, answers, disk, history>>,
         mode # "encrypted" => ps[p].pc # "save" /\ p = "server"
  PROVE  TokenInv'
<1>1. UNCHANGED <<mode, issued, valid, encKey, encFile, plain, keyRace, access,
                  fresh, answers, dropped>>
  BY DEF provider, disk, history
<1>2. access \in Ids /\ fresh \subseteq Ids /\ answers \in BOOLEAN /\ dropped \in BOOLEAN
  BY DEF TokenInv, TypeOKTokens
<1>3. ~(mode # "encrypted" /\ ps[p].ret = "refresh") BY DEF TokenInv, Fits
<1> QED BY <1>1, <1>2, <1>3, TokenMove DEF Move

(* The steps of a server that starts. *)
LEMMA Loading ==
  ASSUME TokenInv,
         ServerStart \/ LoadFile \/ LoadAccess \/ ReadPlaintext \/ LoadPlaintext
           \/ StartRotating
  PROVE  TokenInv'
<1> DEFINE me == ps["server"]
<1>1. "server" \in Procs /\ me \in Process /\ Fits(me) /\ TypeOKTokens
  BY TokenBasics DEF TokenInv, Procs
<1>2. access \in Ids /\ encFile \in EncFiles /\ plain \in Token
      /\ 0 \in Ids /\ 1 \in Ids
  BY <1>1, TokenBasics, MaxIssuedAssumption DEF Ids
<1>3. CASE ServerStart
  <2> DEFINE f == [me EXCEPT !.pc = IF mode = "encrypted" THEN "load" ELSE "fallback"]
  <2>1. Fits(f) BY <1>1, <1>3 DEF Fits, Process, PCs, ServerStart, At, Encrypting
  <2>2. Move("server", f) BY <1>3 DEF ServerStart, Goto
  <2> HIDE DEF f
  <2> QED BY <1>1, <1>3, <2>1, <2>2, QuietMove DEF ServerStart, At
<1>4. CASE LoadFile
  <2>1. mode = "encrypted" BY <1>1, <1>4 DEF LoadFile, At, Fits
  <2> DEFINE f == [me EXCEPT !.pc = "loadAccess", !.cur = Loaded(encFile, 1),
                             !.ret = me.pc]
             g(pc) == [me EXCEPT !.pc = pc]
  <2>2. Loaded(encFile, 1) \in Token BY <1>2 DEF Loaded, Token, EncFiles
  <2>3. me.pc \in {"load", "reload"} BY <1>4 DEF LoadFile, At
  <2>4. Fits(f) BY <1>1, <2>1, <2>2, <2>3 DEF Fits, Process, PCs, Encrypting
  <2>5. \A pc \in {"readPlain", "fallback"} : Fits(g(pc))
    BY <1>1, <2>1, <2>3 DEF Fits, Process, PCs, Encrypting
  <2>6. Move("server", f) \/ Move("server", g("readPlain"))
        \/ Move("server", g("fallback"))
    BY <1>4 DEF LoadFile, Goto, At
  <2> HIDE DEF f, g
  <2> QED BY <1>1, <1>4, <2>1, <2>4, <2>5, <2>6, QuietMove DEF LoadFile
<1>5. CASE LoadAccess
  <2>1. mode = "encrypted" BY <1>1, <1>5 DEF LoadAccess, At, Fits
  <2> DEFINE t == [me.cur EXCEPT !.a = access, !.e = IF access = 0 THEN 0 ELSE @]
             f == [Idle EXCEPT !.pc = "up", !.tok = t]
             g(pc) == [Idle EXCEPT !.pc = pc]
  <2>2. t \in Token BY <1>1, <1>2 DEF Process, Token
  <2> HIDE DEF t
  <2>3. Fits(f) BY <2>1, <2>2, TokenBasics DEF Fits, Process, PCs, Encrypting
  <2>4. \A pc \in {"readPlain", "fallback"} : Fits(g(pc))
    BY <2>1, TokenBasics DEF Fits, Process, PCs, Encrypting
  <2>5. Move("server", f) \/ Move("server", g("readPlain"))
        \/ Move("server", g("fallback"))
    BY <1>5 DEF LoadAccess, t
  <2> HIDE DEF f, g
  <2> QED BY <1>1, <1>5, <2>1, <2>3, <2>4, <2>5, QuietMove DEF LoadAccess
<1>6. CASE ReadPlaintext
  <2>1. mode = "encrypted" BY <1>1, <1>6 DEF ReadPlaintext, At, Fits
  <2> DEFINE f == [Idle EXCEPT !.pc = "reload"]
             g == [Idle EXCEPT !.pc = "getKey", !.ret = "migrate", !.cur = plain]
  <2>2. Fits(f) BY <2>1, TokenBasics DEF Fits, Process, PCs, Encrypting
  <2>3. plain # NoToken => Fits(g)
    <3>1. plain # NoToken => plain.r \in valid BY <2>1 DEF TokenInv, Accepted
    <3> QED BY <1>2, <2>1, <3>1, TokenBasics DEF Fits, Process, PCs, Encrypting
  <2>4. Move("server", f) \/ (plain # NoToken /\ Move("server", g))
    BY <1>6 DEF ReadPlaintext
  <2> HIDE DEF f, g
  <2> QED BY <1>1, <1>6, <2>1, <2>2, <2>3, <2>4, QuietMove DEF ReadPlaintext
<1>7. CASE LoadPlaintext
  <2> DEFINE f == [Idle EXCEPT !.pc = "up", !.tok = plain]
  <2>1. Fits(f) BY <1>2, TokenBasics DEF Fits, Process, PCs, Encrypting
  <2>2. Move("server", f) BY <1>7 DEF LoadPlaintext
  <2> HIDE DEF f
  <2> QED BY <1>1, <1>7, <2>1, <2>2, QuietMove DEF LoadPlaintext, At
<1>8. CASE StartRotating
  <2> DEFINE r == IF plain # NoToken THEN plain.r ELSE IF issued > 0 THEN 1 ELSE 0
             t == [NoToken EXCEPT !.r = r]
             f == [Idle EXCEPT !.pc = "up", !.tok = t]
  <2>1. r \in Ids BY <1>2 DEF Token
  <2> HIDE DEF r
  <2>2. t \in Token BY <2>1, TokenBasics DEF Token
  <2>3. Move("server", f) BY <1>8 DEF StartRotating, r
  <2> HIDE DEF t
  <2>4. Fits(f) BY <2>2, TokenBasics DEF Fits, Process, PCs, Encrypting
  <2> HIDE DEF f
  <2> QED BY <1>1, <1>8, <2>3, <2>4, QuietMove DEF StartRotating, At
<1> QED BY <1>3, <1>4, <1>5, <1>6, <1>7, <1>8

(* The steps of SaveToken that write no file. *)
LEMMA GetKeyKeeps ==
  ASSUME TokenInv, NEW p \in Procs, GetKey(p) \/ VerifyToken(p)
  PROVE  TokenInv'
<1> DEFINE me == ps[p]
<1>1. me \in Process /\ Fits(me) /\ encKey \in 0..2
  BY TokenBasics DEF TokenInv
<1>2. mode = "encrypted" BY <1>1 DEF GetKey, VerifyToken, At, Fits
<1>3. CASE GetKey(p)
  <2> DEFINE f == [me EXCEPT !.pc = IF encKey = 0 THEN "setKey" ELSE "file",
                             !.key = encKey]
  <2>1. Fits(f) BY <1>1, <1>2, <1>3 DEF Fits, Process, PCs, Encrypting, GetKey, At
  <2>2. Move(p, f) BY <1>3 DEF GetKey
  <2> HIDE DEF f
  <2> QED BY <1>2, <1>3, <2>1, <2>2, QuietMove DEF GetKey
<1>4. CASE VerifyToken(p)
  <2> DEFINE f == [me EXCEPT !.pc = "remove"]
             g == [Idle EXCEPT !.pc = "reload"]
  <2>1. Fits(f) BY <1>1, <1>2, <1>4 DEF Fits, Process, PCs, Encrypting, VerifyToken, At
  <2>2. Fits(g) /\ Fits(Idle) BY <1>2, TokenBasics DEF Fits, Process, PCs, Encrypting
  <2>3. Move(p, f) \/ Move(p, g) \/ Move(p, Idle) BY <1>4 DEF VerifyToken
  <2> HIDE DEF f, g
  <2> QED BY <1>2, <1>4, <2>1, <2>2, <2>3, QuietMove DEF VerifyToken
<1> QED BY <1>3, <1>4

LEMMA StoreAccessKeeps ==
  ASSUME TokenInv, NEW p \in Procs, StoreAccess(p)
  PROVE  TokenInv'
<1> DEFINE me == ps[p]
           f == [Idle EXCEPT !.pc = "up", !.tok = me.tok]
           g == [me EXCEPT !.pc = "verify"]
<1>1. me \in Process /\ Fits(me) BY TokenBasics DEF TokenInv
<1>2. mode = "encrypted" /\ me.pc = "access" BY <1>1 DEF StoreAccess, At, Fits
<1>3. Fits(f) BY <1>1, <1>2, TokenBasics DEF Fits, Process, PCs, Encrypting
<1>4. Fits(g) BY <1>1, <1>2 DEF Fits, Process, PCs, Encrypting
<1>5. access' \in Ids BY <1>1 DEF StoreAccess, Process, Token
<1>6. ps' = [ps EXCEPT ![p] = f] \/ ps' = [ps EXCEPT ![p] = g]
  BY DEF StoreAccess, Move
<1>7. UNCHANGED <<mode, issued, valid, encKey, encFile, plain, keyRace, fresh,
                  answers, dropped>>
  BY DEF StoreAccess, provider, history
<1>8. fresh \subseteq Ids /\ answers \in BOOLEAN /\ dropped \in BOOLEAN
  BY DEF TokenInv, TypeOKTokens
<1> HIDE DEF f, g
<1> QED BY <1>2, <1>3, <1>4, <1>5, <1>6, <1>7, <1>8, TokenMove

(* A save that fails and a process that dies: a rotated token is lost.     *)
LEMMA LosesKeep ==
  ASSUME TokenInv, NEW p \in Procs, SaveError(p) \/ Dies(p)
  PROVE  TokenInv'
<1> DEFINE me == ps[p]
           lost == dropped \/ (me.ret = "refresh" /\ mode \in Rotates)
<1>1. me \in Process /\ Fits(me) BY TokenBasics DEF TokenInv
<1>2. /\ dropped' = lost
      /\ UNCHANGED <<mode, issued, valid, encKey, encFile, plain, keyRace, access,
                     fresh, answers>>
  BY DEF SaveError, SaveFails, Dies, provider, disk
<1>3. access \in Ids /\ fresh \subseteq Ids /\ answers \in BOOLEAN
  BY DEF TokenInv, TypeOKTokens
<1>4. lost \in BOOLEAN /\ (dropped => lost)
      /\ (me.ret = "refresh" /\ mode \in Rotates => lost)
  BY DEF TokenInv, TypeOKTokens
<1>5. PICK f : Fits(f) /\ ps' = [ps EXCEPT ![p] = f]
  <2>1. CASE SaveError(p)
    <3> DEFINE g == [Idle EXCEPT !.pc = "fallback"]
               h == [Idle EXCEPT !.pc = "up", !.tok = me.tok]
    <3>1. me.pc \in Encrypting /\ mode = "encrypted"
      BY <1>1, <2>1 DEF SaveError, At, Encrypting, Fits
    <3>2. Fits(g) /\ Fits(h) /\ Fits(Idle)
      BY <1>1, TokenBasics DEF Fits, Process, PCs, Encrypting
    <3>3. me.ret \in {"migrate", "refresh", "auth"} BY <1>1, <3>1 DEF Fits
    <3>4. AfterFailure(p) \in {g, h, Idle} BY <3>3 DEF AfterFailure
    <3>5. ps' = [ps EXCEPT ![p] = AfterFailure(p)]
      BY <2>1 DEF SaveError, SaveFails, Move
    <3> HIDE DEF g, h
    <3> QED BY <3>2, <3>4, <3>5
  <2>2. CASE Dies(p)
    <3>1. Fits(Idle) BY TokenBasics DEF Fits, Encrypting
    <3> QED BY <2>2, <3>1 DEF Dies, Move
  <2> QED BY <2>1, <2>2
<1>6. mode # "encrypted" => p = "server"
  BY <1>1 DEF SaveError, Dies, At, TokenInv, Fits, Procs
<1> HIDE DEF lost
<1> QED BY <1>2, <1>3, <1>4, <1>5, <1>6, TokenMove, Zenon

(* The surroundings. *)
LEMMA SurroundingsKeep ==
  ASSUME TokenInv, KeyringFlips \/ \E g \in Ids : AccessExpires(g)
  PROVE  TokenInv'
<1>1. "ctl" \in Procs /\ Fits(ps["ctl"]) /\ ps \in [Procs -> Process]
  BY TokenBasics DEF TokenInv, Procs
<1>2. UNCHANGED <<mode, issued, valid, encKey, encFile, plain, keyRace, access,
                  ps, dropped>>
      /\ fresh' \subseteq fresh
  BY DEF KeyringFlips, AccessExpires, provider, disk, history
<1>3. access \in Ids /\ fresh \subseteq Ids /\ dropped \in BOOLEAN
  BY DEF TokenInv, TypeOKTokens
<1>4. answers' \in BOOLEAN BY DEF KeyringFlips, AccessExpires, TokenInv, TypeOKTokens
<1>5. TypeOKTokens'
  BY <1>2, <1>4 DEF TokenInv, TypeOKTokens
<1>6. \A p \in Procs : Fits(ps[p])' BY <1>2 DEF TokenInv, Fits
<1>7. mode' = "encrypted" => Accepted' /\ (~keyRace' => Sealed')
  BY <1>2 DEF TokenInv, Accepted, Sealed
<1>8. mode' \in {"plain", "rotating"} => Stored'
  BY <1>2 DEF TokenInv, Stored, Recoverable, Decrypts
<1>9. mode' # "encrypted" => At("ctl", "down")' BY <1>2 DEF TokenInv, At
<1> QED BY <1>2, <1>5, <1>6, <1>7, <1>8, <1>9 DEF TokenInv

(* A process moves, and what decides about the token changes with it. *)
LEMMA TokenStep ==
  ASSUME TokenInv, NEW p \in Procs, NEW f, Fits(f)', ps' = [ps EXCEPT ![p] = f],
         mode' = mode, issued' \in Ids, valid' \subseteq 1..issued',
         fresh' \subseteq Ids, answers' \in BOOLEAN, keyRace' \in BOOLEAN,
         dropped' \in BOOLEAN, encKey' \in 0..2, access' \in Ids,
         encFile' \in EncFiles, plain' \in Token,
         mode # "encrypted" => p = "server",
         mode = "encrypted" => valid \subseteq valid',
         keyRace => keyRace', ~keyRace' /\ encKey # 0 => encKey' = encKey,
         encFile # NoFile => encFile' # NoFile,
         mode = "encrypted" => Accepted' /\ (~keyRace' => Sealed'),
         mode \in {"plain", "rotating"} => Stored'
  PROVE  TokenInv'
<1>1. ps \in [Procs -> Process] /\ f \in Process /\ ps' \in [Procs -> Process]
  BY TokenBasics DEF TokenInv, Fits
<1>2. valid' \subseteq Ids BY MaxIssuedAssumption DEF Ids
<1>3. TypeOKTokens' BY <1>1, <1>2 DEF TokenInv, TypeOKTokens, Process
<1>4. ASSUME NEW q \in Procs PROVE Fits(ps[q])'
  <2>1. CASE q = p
    <3>1. ps'[q] = f BY <1>1, <2>1
    <3> QED BY <3>1 DEF Fits
  <2>2. CASE q # p
    <3>1. ps'[q] = ps[q] /\ Fits(ps[q]) BY <1>1, <2>2 DEF TokenInv
    <3>2. ps[q].pc \in Encrypting \cup {"save"} => ps[q].cur.r \in valid'
      <4>1. CASE mode = "encrypted" BY <3>1, <4>1 DEF Fits
      <4>2. CASE mode # "encrypted" /\ q = "ctl"
        BY <4>2 DEF TokenInv, At, Encrypting
      <4> QED BY <2>2, <4>1, <4>2 DEF Procs
    <3> QED BY <3>1, <3>2, OthersToken DEF Fits
  <2> QED BY <2>1, <2>2
<1>5. mode' # "encrypted" => At("ctl", "down")'
  BY <1>1 DEF TokenInv, At, Procs
<1> QED BY <1>3, <1>4, <1>5 DEF TokenInv

LEMMA CreateKeyKeeps ==
  ASSUME TokenInv, NEW p \in Procs, CreateKey(p)
  PROVE  TokenInv'
<1> DEFINE me == ps[p]
<1>1. me \in Process /\ Fits(me) /\ TypeOKTokens BY TokenBasics DEF TokenInv
<1>2. mode = "encrypted" /\ me.pc = "setKey" /\ KeyOf(p) \in {1, 2}
  BY <1>1 DEF CreateKey, At, Fits, KeyOf
<1>3. PICK f : f = [me EXCEPT !.pc = "file", !.key = KeyOf(p)] OBVIOUS
<1>4. /\ encKey' = KeyOf(p) /\ ps' = [ps EXCEPT ![p] = f]
      /\ keyRace' = (keyRace \/ encKey # 0)
      /\ UNCHANGED <<mode, issued, valid, fresh, answers, access, encFile, plain, dropped>>
  BY <1>3 DEF CreateKey, Move, provider
<1>5. f \in Process /\ f.pc = "file" /\ f.key = KeyOf(p) /\ f.ret = me.ret
      /\ f.cur = me.cur
  <2>1. KeyOf(p) \in 0..2 /\ "file" \in PCs BY <1>2 DEF PCs
  <2> QED BY <1>1, <1>3, <2>1 DEF Process
<1>6. Fits(f)' BY <1>1, <1>2, <1>4, <1>5 DEF Fits, Encrypting
<1>7. keyRace' \in BOOLEAN BY <1>4
<1>8. encKey' \in 0..2 BY <1>2, <1>4
<1>9. Accepted' BY <1>2, <1>4 DEF TokenInv, Accepted
<1>10. ASSUME ~keyRace' PROVE Sealed'
  BY <1>2, <1>4, <1>10 DEF TokenInv, Sealed
<1>11. /\ issued \in Ids /\ valid \subseteq 1..issued /\ fresh \subseteq Ids
       /\ answers \in BOOLEAN /\ dropped \in BOOLEAN /\ access \in Ids
       /\ encFile \in EncFiles /\ plain \in Token
  BY DEF TokenInv, TypeOKTokens
<1> QED BY <1>2, <1>4, <1>6, <1>7, <1>8, <1>9, <1>10, <1>11, TokenStep

LEMMA WriteEncryptedKeeps ==
  ASSUME TokenInv, NEW p \in Procs, WriteEncrypted(p)
  PROVE  TokenInv'
<1> DEFINE me == ps[p]
<1>1. me \in Process /\ Fits(me) BY TokenBasics DEF TokenInv
<1>2. mode = "encrypted" /\ me.pc = "file" BY <1>1 DEF WriteEncrypted, At, Fits
<1>3. PICK f : f = [me EXCEPT !.pc = "access"] OBVIOUS
<1>4. /\ encFile' = [key |-> me.key, r |-> me.cur.r, e |-> me.cur.e]
      /\ ps' = [ps EXCEPT ![p] = f]
      /\ UNCHANGED <<mode, issued, valid, fresh, answers, encKey, access, plain,
                     keyRace, dropped>>
  BY <1>3 DEF WriteEncrypted, Goto, Move, provider, history
<1>5. f \in Process /\ f.pc = "access" /\ f.ret = me.ret /\ f.cur = me.cur
  BY <1>1, <1>2, <1>3 DEF Process, PCs
<1>6. me.cur.r \in valid /\ me.cur.r # 0
  BY <1>1, <1>2 DEF Fits, Encrypting, TokenInv
<1>7. encFile' # NoFile /\ encFile' \in EncFiles
  BY <1>1, <1>4, <1>6 DEF NoFile, EncFiles, Process, Token
<1>8. Fits(f)' BY <1>1, <1>2, <1>4, <1>5, <1>7 DEF Fits, Encrypting
<1>9. Accepted' BY <1>2, <1>4, <1>6 DEF TokenInv, Accepted
<1>10. ASSUME ~keyRace PROVE Sealed'
  BY <1>1, <1>2, <1>4, <1>7, <1>10 DEF TokenInv, Sealed, Fits
<1>11. /\ issued \in Ids /\ valid \subseteq 1..issued /\ fresh \subseteq Ids
       /\ answers \in BOOLEAN /\ dropped \in BOOLEAN /\ access \in Ids
       /\ encKey \in 0..2 /\ plain \in Token /\ keyRace \in BOOLEAN
  BY DEF TokenInv, TypeOKTokens
<1> QED BY <1>2, <1>4, <1>7, <1>8, <1>9, <1>10, <1>11, TokenStep

LEMMA RemovePlaintextKeeps ==
  ASSUME TokenInv, NEW p \in Procs, NEW ok \in BOOLEAN, RemovePlaintext(p, ok)
  PROVE  TokenInv'
<1> DEFINE me == ps[p]
<1>1. me \in Process /\ Fits(me) BY TokenBasics DEF TokenInv
<1>2. mode = "encrypted" /\ me.pc = "remove" BY <1>1 DEF RemovePlaintext, At, Fits
<1>3. PICK f : f = IF p = "ctl" THEN Idle
                   ELSE [Idle EXCEPT !.pc = IF ok THEN "reload" ELSE "fallback"]
  OBVIOUS
<1>4. /\ plain' \in {plain, NoToken} /\ ps' = [ps EXCEPT ![p] = f]
      /\ UNCHANGED <<mode, issued, valid, fresh, answers, encKey, access, encFile,
                     keyRace, dropped>>
  BY <1>3 DEF RemovePlaintext, Move, provider, history
<1>5. f \in Process /\ f.pc \in {"down", "reload", "fallback"} /\ f.ret = "none"
  BY <1>3, TokenBasics DEF Process, PCs
<1>6. Fits(f)' BY <1>2, <1>4, <1>5 DEF Fits, Encrypting
<1>7. plain' \in Token BY <1>4, TokenBasics DEF TokenInv
<1>8. Accepted' BY <1>2, <1>4 DEF TokenInv, Accepted
<1>9. ASSUME ~keyRace PROVE Sealed'
  <2>1. encFile # NoFile BY <1>1, <1>2, <1>9 DEF Fits
  <2> QED BY <1>2, <1>4, <1>9, <2>1 DEF TokenInv, Sealed
<1>10. /\ issued \in Ids /\ valid \subseteq 1..issued /\ fresh \subseteq Ids
       /\ answers \in BOOLEAN /\ dropped \in BOOLEAN /\ access \in Ids
       /\ encKey \in 0..2 /\ encFile \in EncFiles /\ keyRace \in BOOLEAN
  BY DEF TokenInv, TypeOKTokens
<1> QED BY <1>2, <1>4, <1>6, <1>7, <1>8, <1>9, <1>10, TokenStep

LEMMA SavePlaintextKeeps ==
  ASSUME TokenInv, NEW ok \in BOOLEAN, SavePlaintext(ok)
  PROVE  TokenInv'
<1> DEFINE me == ps["server"]
<1>1. "server" \in Procs /\ me \in Process /\ Fits(me) BY TokenBasics DEF TokenInv, Procs
<1>2. mode # "encrypted" /\ me.pc = "save" BY <1>1 DEF SavePlaintext, At, Fits
<1>3. PICK f : f = [Idle EXCEPT !.pc = "up", !.tok = me.tok] OBVIOUS
<1>4. /\ plain' = (IF ok THEN me.cur ELSE plain) /\ ps' = [ps EXCEPT !["server"] = f]
      /\ dropped' = (dropped \/ (~ok /\ mode \in Rotates))
      /\ UNCHANGED <<mode, issued, valid, fresh, answers, encKey, access, encFile,
                     keyRace>>
  BY <1>3 DEF SavePlaintext, Move, provider
<1>5. f \in Process /\ f.pc = "up" /\ f.ret = "none"
  BY <1>1, <1>3, TokenBasics DEF Process, PCs
<1>6. Fits(f)' BY <1>2, <1>4, <1>5 DEF Fits, Encrypting
<1>7. me.cur \in Token /\ me.cur.r \in valid /\ me.cur # NoToken
  BY <1>1, <1>2, TokenBasics DEF Fits, Process, TokenInv
<1>8. plain' \in Token BY <1>4, <1>7, TokenBasics DEF TokenInv
<1>9. dropped' \in BOOLEAN BY <1>4
<1>10. ASSUME mode \in {"plain", "rotating"} PROVE Stored'
  <2>1. CASE ok
    <3>1. plain' = me.cur BY <1>4, <2>1
    <3>2. Recoverable' = me.cur.r BY <1>2, <1>4, <1>7, <3>1 DEF Recoverable
    <3> QED BY <1>4, <1>7, <3>2 DEF Stored
  <2>2. CASE ~ok
    <3>1. Recoverable' = Recoverable BY <1>4, <2>2 DEF Recoverable, Decrypts
    <3>2. mode \in Rotates => dropped' BY <1>4, <2>2
    <3> QED BY <1>4, <1>10, <3>1, <3>2 DEF TokenInv, Stored
  <2> QED BY <2>1, <2>2
<1>11. /\ issued \in Ids /\ valid \subseteq 1..issued /\ fresh \subseteq Ids
       /\ answers \in BOOLEAN /\ access \in Ids
       /\ encKey \in 0..2 /\ encFile \in EncFiles /\ keyRace \in BOOLEAN
  BY DEF TokenInv, TypeOKTokens
<1> QED BY <1>1, <1>2, <1>4, <1>6, <1>8, <1>9, <1>10, <1>11, TokenStep

(* What the provider's answer to a refresh of t leaves accepted. *)
LEMMA IssueFacts ==
  ASSUME TokenInv, NEW t \in Token, NEW rotate \in BOOLEAN, Issues(t, rotate)
  PROVE  /\ issued > 0 /\ issued' \in Ids /\ valid' \subseteq 1..issued'
         /\ fresh' \subseteq Ids /\ Issue(t, rotate) \in Token
         /\ Issue(t, rotate).r \in valid'
         /\ ~rotate => valid' = valid
         /\ rotate => mode \in Rotates
<1>1. issued \in Nat /\ issued + 1 \in Ids /\ issued' = issued + 1
      /\ issued \in 0..MaxIssued
  BY MaxIssuedAssumption DEF TokenInv, TypeOKTokens, Issues, Ids
<1>2. issued' \in Ids /\ fresh' \subseteq Ids
  BY <1>1 DEF TokenInv, TypeOKTokens, Issues
<1>3. valid \subseteq 1..issued /\ t.r \in valid BY DEF TokenInv, Issues
<1>4. valid' \subseteq valid \cup {issued + 1} BY DEF Issues
<1>5. valid' \subseteq 1..issued'
  <2>1. valid \subseteq 1..(issued + 1) /\ issued + 1 \in 1..(issued + 1) BY <1>1, <1>3
  <2> QED BY <1>1, <1>4, <2>1
<1>6. issued > 0
  <2>1. t.r \in 1..issued BY <1>3
  <2> QED BY <1>1, <2>1
<1>7. Issue(t, rotate) \in Token BY <1>1 DEF Issue, Token
<1>8. Issue(t, rotate).r \in valid' BY <1>3 DEF Issue, Issues
<1> QED BY <1>2, <1>5, <1>6, <1>7, <1>8 DEF Issues

LEMMA RefreshLockedKeeps ==
  ASSUME TokenInv, "encrypted" \notin Rotates, NEW rotate \in BOOLEAN,
         RefreshLocked(rotate)
  PROVE  TokenInv'
<1> DEFINE me == ps["server"]
           t == me.tok
<1>1. "server" \in Procs /\ me \in Process /\ t \in Token
  BY TokenBasics DEF TokenInv, Procs, Process
<1>2. mode \in {"encrypted", "plain"} /\ me.pc = "up" BY DEF RefreshLocked, At
<1>3. Issues(t, rotate) BY DEF RefreshLocked
<1> DEFINE new == Issue(t, rotate)
<1>4. /\ issued > 0 /\ issued' \in Ids /\ valid' \subseteq 1..issued'
      /\ fresh' \subseteq Ids /\ new \in Token /\ new.r \in valid'
      /\ ~rotate => valid' = valid
      /\ rotate => mode \in Rotates
  BY <1>1, <1>3, IssueFacts
<1> HIDE DEF new
<1>5. PICK f : f = [Idle EXCEPT !.tok = new, !.cur = new, !.ret = "refresh",
                      !.pc = IF mode = "encrypted" THEN "getKey" ELSE "save"]
  OBVIOUS
<1>6. /\ ps' = [ps EXCEPT !["server"] = f]
      /\ UNCHANGED <<mode, answers, encKey, access, encFile, plain, keyRace, dropped>>
  BY <1>5 DEF RefreshLocked, Move, disk, history, new
<1>7. f \in Process /\ f.ret = "refresh" /\ f.cur = new
      /\ f.pc = IF mode = "encrypted" THEN "getKey" ELSE "save"
  BY <1>4, <1>5, TokenBasics DEF Process, PCs
<1>8. Fits(f)' BY <1>2, <1>4, <1>6, <1>7 DEF Fits, Encrypting
<1>9. mode = "encrypted" => valid' = valid BY <1>4
<1>10. mode = "encrypted" => Accepted' /\ (~keyRace' => Sealed')
  BY <1>4, <1>6, <1>9 DEF TokenInv, Accepted, Sealed
<1>11. ASSUME mode \in {"plain", "rotating"} PROVE Stored'
  <2>1. Recoverable' = Recoverable BY <1>6 DEF Recoverable, Decrypts
  <2>2. CASE mode \in Rotates
    <3>1. ps'["server"].ret = "refresh" BY <1>1, <1>6, <1>7 DEF TokenInv, TypeOKTokens
    <3> QED BY <1>1, <1>6, <2>2, <3>1 DEF Stored
  <2>3. CASE mode \notin Rotates
    BY <1>4, <1>6, <1>11, <2>1, <2>3 DEF TokenInv, Stored
  <2> QED BY <2>2, <2>3
<1>12. /\ answers \in BOOLEAN /\ dropped \in BOOLEAN /\ access \in Ids
       /\ encKey \in 0..2 /\ encFile \in EncFiles /\ keyRace \in BOOLEAN
       /\ plain \in Token
  BY DEF TokenInv, TypeOKTokens
<1> QED BY <1>1, <1>2, <1>4, <1>6, <1>8, <1>9, <1>10, <1>11, <1>12, TokenStep

LEMMA RefreshRotatingKeeps ==
  ASSUME TokenInv, NEW rotate \in BOOLEAN, RefreshRotating(rotate)
  PROVE  TokenInv'
<1> DEFINE me == ps["server"]
           t == me.tok
<1>1. "server" \in Procs /\ me \in Process /\ t \in Token /\ Fits(me)
  BY TokenBasics DEF TokenInv, Procs, Process
<1>2. mode = "rotating" /\ me.pc = "up" BY DEF RefreshRotating, At
<1>3. Issues(t, rotate) BY DEF RefreshRotating
<1> DEFINE new == Issue(t, rotate)
<1>4. /\ issued > 0 /\ issued' \in Ids /\ valid' \subseteq 1..issued'
      /\ fresh' \subseteq Ids /\ new \in Token /\ new.r \in valid'
      /\ ~rotate => valid' = valid
      /\ rotate => mode \in Rotates
  BY <1>1, <1>3, IssueFacts
<1> HIDE DEF new
<1>5. PICK f : f = [Idle EXCEPT !.tok = new, !.cur = new,
                      !.ret = IF rotate THEN "refresh" ELSE "none",
                      !.pc = IF rotate THEN "save" ELSE "up"]
  OBVIOUS
<1>6. /\ ps' = [ps EXCEPT !["server"] = f]
      /\ UNCHANGED <<mode, answers, encKey, access, encFile, plain, keyRace, dropped>>
  BY <1>5 DEF RefreshRotating, Move, disk, history, new
<1>7. f \in Process /\ f.cur = new
      /\ f.ret = (IF rotate THEN "refresh" ELSE "none")
      /\ f.pc = (IF rotate THEN "save" ELSE "up")
  BY <1>4, <1>5, TokenBasics DEF Process, PCs
<1>8. Fits(f)' BY <1>2, <1>4, <1>6, <1>7 DEF Fits, Encrypting
<1>9. Stored'
  <2>1. Recoverable' = Recoverable BY <1>6 DEF Recoverable, Decrypts
  <2>2. CASE rotate
    <3>1. ps'["server"].ret = "refresh" BY <1>1, <1>6, <1>7, <2>2 DEF TokenInv, TypeOKTokens
    <3> QED BY <1>1, <1>4, <1>6, <2>2, <3>1 DEF Stored
  <2>3. CASE ~rotate
    <3>1. \A p \in Procs : ps[p].ret # "refresh"
      BY <1>1, <1>2 DEF TokenInv, Fits, At, Procs
    <3> QED BY <1>2, <1>4, <1>6, <2>1, <2>3, <3>1 DEF TokenInv, Stored
  <2> QED BY <2>2, <2>3
<1>10. /\ answers \in BOOLEAN /\ dropped \in BOOLEAN /\ access \in Ids
       /\ encKey \in 0..2 /\ encFile \in EncFiles /\ keyRace \in BOOLEAN
       /\ plain \in Token
  BY DEF TokenInv, TypeOKTokens
<1> QED BY <1>1, <1>2, <1>4, <1>6, <1>8, <1>9, <1>10, TokenStep

LEMMA RefreshAppKeeps ==
  ASSUME TokenInv, RefreshApp
  PROVE  TokenInv'
<1>1. "server" \in Procs BY DEF Procs
<1>2. issued \in Nat /\ issued + 1 \in Ids /\ 0 \in Ids
  BY MaxIssuedAssumption DEF RefreshApp, TokenInv, TypeOKTokens, Ids
<1> DEFINE new == [r |-> 0, a |-> issued + 1, e |-> issued + 1]
<1>3. new \in Token BY <1>2 DEF Token
<1>4. PICK f : f = [Idle EXCEPT !.pc = "up", !.tok = new] OBVIOUS
<1>5. /\ mode = "app" /\ ps' = [ps EXCEPT !["server"] = f]
      /\ issued' = issued + 1 /\ fresh' = fresh \cup {issued + 1}
      /\ UNCHANGED <<mode, valid, answers, encKey, access, encFile, plain, keyRace,
                     dropped>>
  BY <1>4 DEF RefreshApp, Move, disk, history
<1> HIDE DEF new
<1>6. f \in Process /\ f.pc = "up" /\ f.ret = "none"
  BY <1>3, <1>4, TokenBasics DEF Process, PCs
<1>7. Fits(f)' BY <1>5, <1>6 DEF Fits, Encrypting
<1>8. valid' \subseteq 1..issued' BY <1>2, <1>5 DEF TokenInv
<1>9. fresh' \subseteq Ids /\ issued' \in Ids
  BY <1>2, <1>5 DEF TokenInv, TypeOKTokens
<1>10. /\ answers \in BOOLEAN /\ dropped \in BOOLEAN /\ access \in Ids
       /\ encKey \in 0..2 /\ encFile \in EncFiles /\ keyRace \in BOOLEAN
       /\ plain \in Token
  BY DEF TokenInv, TypeOKTokens
<1> QED BY <1>1, <1>5, <1>7, <1>8, <1>9, <1>10, TokenStep

LEMMA OAuthAuthKeeps ==
  ASSUME TokenInv, OAuthAuth
  PROVE  TokenInv'
<1>1. "ctl" \in Procs /\ "server" \in Procs /\ Fits(ps["server"])
      /\ ps \in [Procs -> Process]
  BY TokenBasics DEF TokenInv, Procs
<1>2. issued \in Nat /\ issued + 1 \in Ids
  BY MaxIssuedAssumption DEF OAuthAuth, TokenInv, TypeOKTokens, Ids
<1>3. PICK n : n = issued + 1 OBVIOUS
<1>4. PICK t : t = [r |-> n, a |-> n, e |-> n] OBVIOUS
<1>5. t \in Token /\ t.r = n /\ n # 0 /\ t # NoToken
  BY <1>2, <1>3, <1>4 DEF Token, NoToken
<1>6. /\ issued' = n /\ valid' = valid \cup {n} /\ fresh' = fresh \cup {n}
      /\ plain' = t /\ mode \in {"encrypted", "plain"}
      /\ UNCHANGED <<mode, answers, encKey, access, encFile, keyRace, dropped>>
  BY <1>3, <1>4 DEF OAuthAuth, history
<1>7. issued' \in Ids /\ fresh' \subseteq Ids
  BY <1>2, <1>3, <1>6 DEF TokenInv, TypeOKTokens
<1>8. valid' \subseteq 1..issued'
  <2>1. valid \subseteq 1..(issued + 1) /\ issued + 1 \in 1..(issued + 1)
    BY <1>2 DEF TokenInv
  <2> QED BY <1>3, <1>6, <2>1
<1>9. /\ answers \in BOOLEAN /\ dropped \in BOOLEAN /\ access \in Ids
      /\ encKey \in 0..2 /\ encFile \in EncFiles /\ keyRace \in BOOLEAN
  BY DEF TokenInv, TypeOKTokens
<1>10. CASE mode = "encrypted"
  <2>1. PICK f : f = [Idle EXCEPT !.pc = "getKey", !.ret = "auth", !.cur = t] OBVIOUS
  <2>2. ps' = [ps EXCEPT !["ctl"] = f]
    BY <1>3, <1>4, <1>10, <2>1 DEF OAuthAuth, Move
  <2>3. f \in Process /\ f.pc = "getKey" /\ f.ret = "auth" /\ f.cur = t
    BY <1>5, <2>1, TokenBasics DEF Process, PCs
  <2>4. Fits(f)' BY <1>5, <1>6, <1>10, <2>3 DEF Fits, Encrypting
  <2>5. Accepted' BY <1>5, <1>6, <1>10 DEF TokenInv, Accepted
  <2>6. ~keyRace => Sealed'
    BY <1>5, <1>6, <1>10 DEF TokenInv, Sealed
  <2> QED BY <1>1, <1>5, <1>6, <1>7, <1>8, <1>9, <1>10, <2>2, <2>4, <2>5, <2>6, TokenStep
<1>11. CASE mode = "plain"
  <2>1. PICK f : f = ps["server"] OBVIOUS
  <2>2. ps' = [ps EXCEPT !["server"] = f] BY <1>1, <1>11, <2>1 DEF OAuthAuth
  <2>3. Fits(f)' BY <1>1, <1>6, <1>11, <2>1 DEF Fits
  <2>4. Recoverable' = n BY <1>5, <1>6, <1>11 DEF Recoverable
  <2>5. Stored' BY <1>6, <2>4 DEF Stored
  <2> QED BY <1>1, <1>5, <1>6, <1>7, <1>8, <1>9, <1>11, <2>2, <2>3, <2>5, TokenStep
<1> QED BY <1>6, <1>10, <1>11

LEMMA NextTokenKeeps ==
  ASSUME "encrypted" \notin Rotates, TokenInv, [TokenNext]_tokenVars
  PROVE  TokenInv'
<1>1. CASE UNCHANGED tokenVars
  <2>1. UNCHANGED <<mode, issued, valid, fresh, answers, encKey, access, encFile,
                    plain, ps, keyRace, dropped>>
    BY <1>1 DEF tokenVars
  <2> QED BY <2>1 DEF TokenInv, TypeOKTokens, Fits, Accepted, Sealed, Stored,
                      Recoverable, Decrypts, At
<1>2. CASE ServerStart \/ LoadFile \/ LoadAccess \/ ReadPlaintext \/ LoadPlaintext
             \/ StartRotating
  BY <1>2, Loading
<1>3. CASE RefreshApp \/ OAuthAuth BY <1>3, RefreshAppKeeps, OAuthAuthKeeps
<1>4. CASE KeyringFlips \/ \E g \in Ids : AccessExpires(g)
  BY <1>4, SurroundingsKeep
<1>5. CASE \E p \in Procs : \/ GetKey(p) \/ CreateKey(p) \/ WriteEncrypted(p)
                            \/ StoreAccess(p) \/ SaveError(p) \/ VerifyToken(p)
                            \/ Dies(p)
  BY <1>5, GetKeyKeeps, CreateKeyKeeps, WriteEncryptedKeeps, StoreAccessKeeps, LosesKeep
<1>6. CASE \E ok \in BOOLEAN : RefreshLocked(ok) \/ RefreshRotating(ok) \/ SavePlaintext(ok)
  BY <1>6, RefreshLockedKeeps, RefreshRotatingKeeps, SavePlaintextKeeps
<1>7. CASE \E ok \in BOOLEAN : \E p \in Procs : RemovePlaintext(p, ok)
  BY <1>7, RemovePlaintextKeeps
<1> QED BY <1>1, <1>2, <1>3, <1>4, <1>5, <1>6, <1>7 DEF TokenNext

(* The inductive invariant of TokenStore, for a provider that does not     *)
(* rotate the refresh tokens that are kept encrypted (all of them are      *)
(* Google's, whose refresh tokens stay).                                   *)
THEOREM TokenInvariant ==
  ASSUME "encrypted" \notin Rotates
  PROVE  TokenSpec => []TokenInv
<1>1. TokenInv /\ [TokenNext]_tokenVars => TokenInv' BY NextTokenKeeps
<1> QED BY <1>1, InitToken, PTL DEF TokenSpec

(* A refresh token that was stored is not lost (SaveToken,                 *)
(* MigrateUnencryptedToken, encryptAndRemovePlaintext, refreshLocked),     *)
(* under the same condition.                                               *)
THEOREM TokensAreKept ==
  ASSUME "encrypted" \notin Rotates
  PROVE  TokenSpec => []RefreshTokenKept
<1>1. ASSUME TokenInv PROVE RefreshTokenKept
  <2>1. mode \in {"encrypted", "plain", "rotating", "app"}
    BY <1>1, ModesAssumption DEF TokenInv, TypeOKTokens
  <2>2. CASE mode = "encrypted"
    <3> SUFFICES ASSUME issued > 0, ~keyRace PROVE Recoverable \in valid
      BY DEF RefreshTokenKept
    <3>1. Accepted /\ Sealed BY <1>1, <2>2 DEF TokenInv
    <3>2. CASE encFile # NoFile
      BY <2>2, <3>1, <3>2 DEF Recoverable, Decrypts, Sealed, Accepted
    <3>3. CASE encFile = NoFile
      BY <2>2, <3>1, <3>3 DEF Recoverable, Decrypts, Sealed, Accepted
    <3> QED BY <3>2, <3>3
  <2>3. CASE mode \in {"plain", "rotating"}
    BY <1>1, <2>3 DEF TokenInv, Stored, RefreshTokenKept
  <2>4. CASE mode = "app" BY <2>4 DEF RefreshTokenKept
  <2> QED BY <2>1, <2>2, <2>3, <2>4
<1> QED BY <1>1, TokenInvariant, PTL

=============================================================================
