----------------------------- MODULE FileProofs ------------------------------
(***************************************************************************)
(* Proofs about the files the program leaves behind.                       *)
(*                                                                         *)
(* ModelFile, for any number of savers, loaders and versions, any sizes,   *)
(* number of workers and chunk size: the file at the destination is        *)
(* complete whenever it is there, and saving and loading implement         *)
(* AtomicFile.                                                             *)
(*                                                                         *)
(* PredictOutput, for any calls and number of batches: a call that reports *)
(* success has left a whole file, one that does not has left none, and     *)
(* none touches the file of another.                                       *)
(***************************************************************************)
EXTENDS ModelFile, PredictOutput, FiniteSetTheorems, TLAPS

----------------------------------------------------------------------------
(***************************************************************************)
(* The ranges of the workers                                               *)
(***************************************************************************)

LEMMA LeastOfTwo ==
  ASSUME NEW a \in Int, NEW b \in Int
  PROVE  Least({a, b}) = IF a <= b THEN a ELSE b
BY DEF Least

\* What rounding up does.
LEMMA DivCeilBounds ==
  ASSUME NEW a \in Nat \ {0}, NEW b \in Nat \ {0}
  PROVE  /\ DivCeil(a, b) \in Nat \ {0}
         /\ DivCeil(a, b) * b >= a
         /\ (DivCeil(a, b) - 1) * b < a
<1> DEFINE q == (a + b - 1) \div b
<1>1. q \in Int /\ q * b <= a + b - 1 /\ a + b - 1 < q * b + b
  <2>1. ASSUME NEW p \in Int, p = (a + b - 1) \div b
        PROVE  p * b <= a + b - 1 /\ a + b - 1 < p * b + b
    BY <2>1
  <2> QED
    BY <2>1
<1> HIDE DEF q
<1>2. q >= 1
  <2>1. q * b \in Int /\ q * b >= a /\ a >= 1
    BY <1>1
  <2>2. q <= 0 => q * b <= 0
    BY <1>1
  <2> QED
    BY <1>1, <2>1, <2>2
<1>3. (q - 1) * b = q * b - b
  BY <1>1
<1> QED
  BY <1>1, <1>2, <1>3 DEF DivCeil, q

LEMMA ChunkIsPositive ==
  ASSUME FileParams, NEW size \in Nat \ {0}
  PROVE  ChunkSize(size) \in Nat \ {0}
<1>1. DivCeil(size, IoChunk) \in Nat \ {0} /\ Requested \in Nat \ {0}
  BY DivCeilBounds DEF FileParams
<1>2. Workers(size) \in Nat \ {0}
  BY <1>1, LeastOfTwo DEF Workers
<1> QED
  BY <1>2, DivCeilBounds DEF ChunkSize

\* The ranges lie in the file and cover it.
LEMMA RangesCover ==
  ASSUME FileParams, NEW size \in Nat \ {0}
  PROVE  /\ \A w \in Ranges(size) : /\ Base(size, w) \in Nat /\ Limit(size, w) \in 0..size
                                    /\ Base(size, w) <= Limit(size, w)
         /\ \A b \in 0..(size - 1) : \E w \in Ranges(size) :
              b \in Base(size, w)..(Limit(size, w) - 1)
<1> DEFINE c == ChunkSize(size)
           n == DivCeil(size, c)
<1>1. /\ c \in Nat \ {0} /\ n \in Nat \ {0}
      /\ n * c >= size /\ (n - 1) * c < size
  BY ChunkIsPositive, DivCeilBounds
<1>2. Ranges(size) = 1..n
  BY DEF Ranges
<1>3. \A w \in 1..n : /\ Base(size, w) = (w - 1) * c
                      /\ Limit(size, w) = IF size <= w * c THEN size ELSE w * c
  BY <1>1, LeastOfTwo DEF Base, Limit
<1> HIDE DEF c, n
<1>4. ASSUME NEW w \in 1..n
      PROVE  /\ (w - 1) * c \in Nat /\ w * c \in Nat /\ (w - 1) * c < size
             /\ w * c = (w - 1) * c + c
  <2>1. (w - 1) * c \in Nat /\ w * c \in Nat /\ w * c = (w - 1) * c + c
    BY <1>1
  <2>2. (w - 1) * c <= (n - 1) * c
    BY <1>1
  <2> QED
    BY <1>1, <2>1, <2>2
<1>5. ASSUME NEW b \in 0..(size - 1)
      PROVE  \E w \in 1..n : (w - 1) * c <= b /\ b < w * c
  <2> DEFINE q == b \div c
  <2>1. q \in Int /\ q * c <= b /\ b < q * c + c
    <3>1. ASSUME NEW p \in Int, p = b \div c PROVE p * c <= b /\ b < p * c + c
      BY <1>1, <3>1
    <3> QED
      BY <1>1, <3>1
  <2> HIDE DEF q
  <2>2. q >= 0
    <3>1. q < 0 => q * c <= -c
      BY <1>1, <2>1
    <3> QED
      BY <1>1, <2>1, <3>1
  <2>3. q + 1 <= n
    <3>1. q >= n => q * c >= n * c
      BY <1>1, <2>1
    <3> QED
      BY <1>1, <2>1, <3>1
  <2>4. (q + 1) * c = q * c + c
    BY <1>1, <2>1
  <2>5. q + 1 \in 1..n /\ ((q + 1) - 1) * c = q * c
    BY <1>1, <2>1, <2>2, <2>3
  <2> QED
    BY <2>1, <2>4, <2>5
<1>6. \A w \in 1..n : /\ Base(size, w) \in Nat /\ Limit(size, w) \in 0..size
                      /\ Base(size, w) <= Limit(size, w)
  BY <1>1, <1>3, <1>4
<1>7. ASSUME NEW b \in 0..(size - 1)
      PROVE  \E w \in 1..n : b \in Base(size, w)..(Limit(size, w) - 1)
  <2>1. PICK w \in 1..n : (w - 1) * c <= b /\ b < w * c
    BY <1>5
  <2>2. Base(size, w) <= b /\ b < Limit(size, w)
    BY <1>3, <1>4, <2>1
  <2> QED
    BY <1>6, <2>2
<1> QED
  BY <1>2, <1>6, <1>7

\* A step of a worker goes forward and stays in its range.
LEMMA PartEndInRange ==
  ASSUME FileParams, NEW size \in Nat \ {0}, NEW w \in Ranges(size),
         NEW at \in Base(size, w)..Limit(size, w), NEW end \in (at + 1)..PartEnd(size, w, at)
  PROVE  end \in Base(size, w)..Limit(size, w) /\ at >= 0 /\ end <= size
<1>1. Base(size, w) \in Nat /\ Limit(size, w) \in 0..size
  BY RangesCover
<1>2. Base(size, w) + IoChunk * ((at - Base(size, w)) \div IoChunk + 1) \in Int
  BY <1>1 DEF FileParams
<1>3. PartEnd(size, w, at) <= Limit(size, w) /\ PartEnd(size, w, at) \in Int
  BY <1>1, <1>2, LeastOfTwo DEF PartEnd
<1> QED
  BY <1>1, <1>3

----------------------------------------------------------------------------
(***************************************************************************)
(* The invariant                                                           *)
(***************************************************************************)

Places == {"idle", "write", "rename", "drop"}

Shape ==
  /\ model \in Version \cup {Nothing} /\ saves \in Nat
  /\ temps \in [Name -> Version \cup {Nothing}]
  /\ bytes \in [Version -> SUBSET Nat]
  /\ serial \in [Saver -> Nat]
  /\ saver \in [Saver -> [at : Places, file : Version \cup {Nothing}, name : Name \cup {Nothing}]]
  /\ loader \in [Loader -> [at : {"idle", "read"}, file : Version \cup {Nothing}]]
  /\ pos = [p \in Saver \cup Loader |-> pos[p]]
  /\ got = [l \in Loader |-> got[l]] /\ loaded = [l \in Loader |-> loaded[l]]

Live(s) == saver[s].at \in {"write", "rename"}

\* Where the workers of a save or a load of `size` bytes can be.
Progress(size, at) ==
  /\ at = [w \in Ranges(size) |-> at[w]]
  /\ \A w \in Ranges(size) : at[w] \in Base(size, w)..Limit(size, w)

\* The part of the file that worker w is done with.
Done(size, at, w) == Base(size, w)..(at[w] - 1)

All(v) == 0..(Size[v] - 1)

\* A live save has a temporary file of its own, under a name of its own; what its
\* workers are done with is there, and all of it once they have been joined.
SaverInv(s) ==
  /\ saver[s].at # "idle" => saver[s].name \in Name /\ saver[s].name[1] = s
  /\ Live(s) =>
       /\ saver[s].file \in Version /\ saver[s].file <= saves
       /\ temps[saver[s].name] = saver[s].file
       /\ saver[s].file # model
       /\ \A t \in Saver : t # s /\ Live(t) => saver[t].file # saver[s].file
  /\ saver[s].at = "write" =>
       /\ Progress(Size[saver[s].file], pos[s])
       /\ \A w \in Ranges(Size[saver[s].file]) :
            Done(Size[saver[s].file], pos[s], w) \subseteq bytes[saver[s].file]
  /\ saver[s].at = "rename" => bytes[saver[s].file] = All(saver[s].file)

BytesInv ==
  /\ \A v \in Version : bytes[v] \subseteq All(v)
  /\ model # Nothing => model <= saves /\ bytes[model] = All(model)

\* A load has one file open, and every byte its workers have read is that file's.
LoaderInv(l) ==
  /\ loader[l].at = "idle" => loader[l].file = Nothing
  /\ loader[l].at = "read" =>
       /\ loader[l].file \in Version
       /\ got[l] = [b \in All(loader[l].file) |-> got[l][b]]
       /\ Progress(Size[loader[l].file], pos[l])
       /\ \A w \in Ranges(Size[loader[l].file]) :
            \A b \in Done(Size[loader[l].file], pos[l], w) : got[l][b] = loader[l].file

IInv == Shape /\ BytesInv /\ (\A s \in Saver : SaverInv(s)) /\ (\A l \in Loader : LoaderInv(l))

LEMMA Sizes ==
  ASSUME FileParams, NEW v \in Version
  PROVE  Size[v] \in Nat \ {0} /\ v \in Nat \ {0}
BY DEF FileParams, Version

LEMMA AllOfFile ==
  ASSUME FileParams, NEW v \in Version
  PROVE  Cardinality(All(v)) = Size[v] /\ 0 \in All(v)
<1>1. 0 \in Int /\ Size[v] - 1 \in Int /\ ~(0 > Size[v] - 1) /\ (Size[v] - 1) - 0 + 1 = Size[v]
  BY Sizes
<1>2. Cardinality(0..(Size[v] - 1)) = (Size[v] - 1) - 0 + 1
  BY <1>1, FS_Interval
<1> QED
  BY <1>1, <1>2 DEF All

\* Workers that are all at the end of their ranges are done with every byte.
LEMMA CompleteIsAll ==
  ASSUME FileParams, NEW v \in Version, NEW at, Complete(Size[v], at), NEW b \in All(v)
  PROVE  \E w \in Ranges(Size[v]) : b \in Done(Size[v], at, w)
<1>1. PICK w \in Ranges(Size[v]) : b \in Base(Size[v], w)..(Limit(Size[v], w) - 1)
  BY Sizes, RangesCover DEF All
<1> QED
  BY <1>1 DEF Complete, Done

\* Workers begin at the start of their ranges, done with nothing.
LEMMA StartIsProgress ==
  ASSUME FileParams, NEW v \in Version
  PROVE  /\ Progress(Size[v], Start(Size[v]))
         /\ \A w \in Ranges(Size[v]) : Done(Size[v], Start(Size[v]), w) = {}
<1>1. \A w \in Ranges(Size[v]) :
        /\ Base(Size[v], w) \in Nat /\ Limit(Size[v], w) \in Nat
        /\ Base(Size[v], w) <= Limit(Size[v], w)
  BY Sizes, RangesCover
<1>2. Start(Size[v]) = [w \in Ranges(Size[v]) |-> Base(Size[v], w)]
  BY DEF Start
<1> QED
  BY <1>1, <1>2 DEF Progress, Done

\* One worker goes on to `end`: the others stay where they are.
LEMMA WorkerStep ==
  ASSUME FileParams, NEW v \in Version, NEW at, Progress(Size[v], at),
         NEW w \in Ranges(Size[v]), at[w] < Limit(Size[v], w),
         NEW end \in (at[w] + 1)..PartEnd(Size[v], w, at[w])
  PROVE  /\ Progress(Size[v], [at EXCEPT ![w] = end])
         /\ \A u \in Ranges(Size[v]) :
              Done(Size[v], [at EXCEPT ![w] = end], u) \subseteq
                Done(Size[v], at, u) \cup at[w]..(end - 1)
         /\ at[w]..(end - 1) \subseteq All(v)
<1>1. /\ end \in Base(Size[v], w)..Limit(Size[v], w) /\ at[w] >= 0 /\ end <= Size[v]
      /\ at[w] \in Int /\ end \in Int /\ Size[v] \in Nat
  BY Sizes, RangesCover, PartEndInRange DEF Progress
<1>2. \A u \in Ranges(Size[v]) :
        [at EXCEPT ![w] = end][u] = IF u = w THEN end ELSE at[u]
  BY DEF Progress
<1>3. Progress(Size[v], [at EXCEPT ![w] = end])
  <2>1. [at EXCEPT ![w] = end] = [u \in Ranges(Size[v]) |-> [at EXCEPT ![w] = end][u]]
    BY DEF Progress
  <2> QED
    BY <1>1, <1>2, <2>1 DEF Progress
<1>4. ASSUME NEW u \in Ranges(Size[v])
      PROVE  Done(Size[v], [at EXCEPT ![w] = end], u) \subseteq
                Done(Size[v], at, u) \cup at[w]..(end - 1)
  <2>1. Base(Size[v], w) \in Nat
    BY Sizes, RangesCover
  <2> QED
    BY <1>1, <1>2, <2>1 DEF Done
<1>5. at[w]..(end - 1) \subseteq All(v)
  BY <1>1 DEF All
<1> QED
  BY <1>3, <1>4, <1>5

LEMMA InitInv == ASSUME FileParams, Init PROVE IInv
BY DEF FileParams, Init, IInv, Shape, Places, Idle, BytesInv, SaverInv, Live, LoaderInv, All, Name

\* A step of one saver leaves another one's part of the invariant alone if it leaves alone
\* its record, its place and its file.
LEMMA OtherSaver ==
  ASSUME FileParams, Shape, Shape', NEW s \in Saver, SaverInv(s),
         saver'[s] = saver[s], pos'[s] = pos[s], saves' >= saves,
         Live(s) => /\ temps'[saver[s].name] = temps[saver[s].name]
                    /\ bytes'[saver[s].file] = bytes[saver[s].file]
                    /\ saver[s].file # model'
                    /\ \A t \in Saver : t # s /\ Live(t)' => saver'[t].file # saver[s].file
  PROVE  SaverInv(s)'
<1>1. SaverInv(s)!1'
  BY DEF SaverInv
<1>2. SaverInv(s)!2'
  <2>1. Live(s)' <=> Live(s)
    BY DEF Live
  <2>2. Live(s) => saver[s].file \in Nat
    BY Sizes DEF SaverInv
  <2>3. saves \in Nat /\ saves' \in Nat
    BY DEF Shape
  <2>4. Live(s) => saver[s].file <= saves'
    BY <2>2, <2>3 DEF SaverInv
  <2> QED
    BY <2>1, <2>4 DEF SaverInv
<1>3. SaverInv(s)!3'
  BY DEF SaverInv, Live
<1>4. SaverInv(s)!4'
  BY DEF SaverInv, Live
<1> QED
  BY <1>1, <1>2, <1>3, <1>4 DEF SaverInv

\* The same of a loader: it only looks at its own record, places and bytes.
LEMMA SameLoader ==
  ASSUME NEW l \in Loader, LoaderInv(l), loader'[l] = loader[l], pos'[l] = pos[l],
         got'[l] = got[l]
  PROVE  LoaderInv(l)'
BY DEF LoaderInv

\* create_new either passes over a name or makes a new file.
LEMMA CreateStep ==
  ASSUME FileParams, IInv, NEW s \in Saver, Create(s) PROVE IInv'
<1> DEFINE name == << s, serial[s] >>
<1> USE DEF disk
<1>1. Shape /\ saver[s].at = "idle" /\ name \in Name /\ saves \in Nat
  BY DEF Create, IInv, Shape, Name
<1>2. CASE temps[name] # Nothing
  <2>1. /\ UNCHANGED << saves, temps, saver, pos, model, bytes, loader, got, loaded >>
        /\ serial' = [serial EXCEPT ![s] = @ + 1]
    BY <1>2 DEF Create
  <2>2. Shape'
    BY <1>1, <2>1 DEF Shape
  <2>3. \A t \in Saver : SaverInv(t)'
    BY <2>1 DEF IInv, SaverInv, Live
  <2>4. \A l \in Loader : LoaderInv(l)'
    BY <2>1 DEF IInv, LoaderInv
  <2> QED
    BY <2>1, <2>2, <2>3, <2>4 DEF IInv, BytesInv
<1>3. CASE temps[name] = Nothing
  <2> DEFINE v == saves + 1
  <2>1. /\ v \in Version /\ saves' = v
        /\ temps' = [temps EXCEPT ![name] = v]
        /\ saver' = [saver EXCEPT ![s] = [at |-> "write", file |-> v, name |-> name]]
        /\ pos' = [pos EXCEPT ![s] = Start(Size[v])]
        /\ serial' = [serial EXCEPT ![s] = @ + 1]
        /\ UNCHANGED << model, bytes, loader, got, loaded >>
    BY <1>3 DEF Create
  <2> HIDE DEF v
  <2>2. Shape'
    <3>1. saves' \in Nat /\ temps' \in [Name -> Version \cup {Nothing}]
      BY <1>1, <2>1, Sizes DEF Shape
    <3>2. serial' \in [Saver -> Nat]
      BY <1>1, <2>1 DEF Shape
    <3>3. saver' \in [Saver -> [at : Places, file : Version \cup {Nothing},
                               name : Name \cup {Nothing}]]
      <4>1. [at |-> "write", file |-> v, name |-> name] \in
              [at : Places, file : Version \cup {Nothing}, name : Name \cup {Nothing}]
        BY <1>1, <2>1 DEF Places
      <4> QED
        BY <1>1, <2>1, <4>1 DEF Shape
    <3>4. pos' = [p \in Saver \cup Loader |-> pos'[p]]
      BY <1>1, <2>1 DEF Shape
    <3> QED
      BY <1>1, <2>1, <3>1, <3>2, <3>3, <3>4 DEF Shape
  <2>3. v = saves + 1 /\ v \in Nat
    BY <1>1 DEF v
  <2>4. saver'[s] = [at |-> "write", file |-> v, name |-> name]
        /\ pos'[s] = Start(Size[v]) /\ temps'[name] = v
    BY <1>1, <2>1 DEF Shape
  <2>5. ASSUME NEW t \in Saver, t # s
        PROVE  /\ saver'[t] = saver[t] /\ pos'[t] = pos[t]
               /\ Live(t)' = Live(t)
               /\ Live(t) => temps'[saver[t].name] = temps[saver[t].name] /\ saver[t].file < v
    <3>1. saver'[t] = saver[t] /\ pos'[t] = pos[t]
      BY <2>1, <2>5 DEF IInv, Shape
    <3>2. Live(t) => saver[t].name # name /\ saver[t].name \in Name
      BY <2>5 DEF IInv, SaverInv, Live
    <3>3. Live(t) => saver[t].file < v
      BY <1>1, <2>3, Sizes DEF IInv, SaverInv
    <3> QED
      BY <1>1, <2>1, <3>1, <3>2, <3>3 DEF Shape, Live
  <2>6. model # v
    <3>1. model # Nothing => model \in Nat /\ model <= saves
      BY <1>1, Sizes DEF IInv, BytesInv, Shape
    <3>2. v # Nothing
      BY <2>1 DEF FileParams
    <3> QED
      BY <1>1, <2>3, <3>1, <3>2
  <2>7. BytesInv'
    BY <1>1, <2>1, <2>3, Sizes DEF IInv, BytesInv, Shape, All
  <2>8. SaverInv(s)'
    <3>1. SaverInv(s)!1'
      BY <1>1, <2>4
    <3>2. SaverInv(s)!2'
      BY <1>1, <2>1, <2>3, <2>4, <2>5, <2>6 DEF Live
    <3>3. SaverInv(s)!3'
      BY <2>1, <2>4, StartIsProgress
    <3>4. SaverInv(s)!4'
      BY <2>4
    <3> QED
      BY <3>1, <3>2, <3>3, <3>4 DEF SaverInv
  <2>9. ASSUME NEW t \in Saver, t # s PROVE SaverInv(t)'
    <3>1. Live(t) => /\ saver[t].file # model
                     /\ \A u \in Saver : u # t /\ Live(u)' => saver'[u].file # saver[t].file
      <4>1. SaverInv(t)
        BY DEF IInv
      <4>2. Live(t) => saver[t].file # saver'[s].file
        BY <2>3, <2>4, <2>5, <2>9, <4>1, Sizes DEF SaverInv
      <4> QED
        BY <2>5, <4>1, <4>2 DEF SaverInv
    <3>2. saves' >= saves
      BY <2>1, <2>3, <1>1
    <3> QED
      BY <1>1, <2>1, <2>2, <2>5, <2>9, <3>1, <3>2, OtherSaver DEF IInv
  <2>10. ASSUME NEW l \in Loader PROVE LoaderInv(l)'
    <3>1. l # s
      BY DEF FileParams
    <3>2. pos'[l] = pos[l]
      BY <1>1, <2>1, <3>1 DEF Shape
    <3> QED
      BY <2>1, <3>2, SameLoader DEF IInv
  <2> QED
    BY <2>2, <2>7, <2>8, <2>9, <2>10 DEF IInv
<1> QED
  BY <1>2, <1>3

\* A write adds to a file that is nobody else's and is not yet at the destination.
LEMMA WriteStep ==
  ASSUME FileParams, IInv, NEW s \in Saver, NEW w, Write(s, w) PROVE IInv'
<1> DEFINE v == saver[s].file
           at == pos[s]
<1>1. /\ saver[s].at = "write" /\ v \in Version /\ w \in Ranges(Size[v])
      /\ Progress(Size[v], at) /\ at[w] < Limit(Size[v], w)
      /\ UNCHANGED << model, temps, serial, saver, loader, got, loaded, saves >>
  BY DEF Write, IInv, SaverInv, Live
<1>2. PICK end \in (at[w] + 1)..PartEnd(Size[v], w, at[w]) :
        /\ bytes' = [bytes EXCEPT ![v] = @ \cup at[w]..(end - 1)]
        /\ pos' = [pos EXCEPT ![s][w] = end]
  BY DEF Write
<1> DEFINE new == [at EXCEPT ![w] = end]
<1>3. /\ Progress(Size[v], new) /\ at[w]..(end - 1) \subseteq All(v)
      /\ \A u \in Ranges(Size[v]) :
           Done(Size[v], new, u) \subseteq Done(Size[v], at, u) \cup at[w]..(end - 1)
  BY <1>1, <1>2, WorkerStep
<1>4. /\ pos'[s] = new /\ \A p \in Saver \cup Loader : p # s => pos'[p] = pos[p]
      /\ pos' = [p \in Saver \cup Loader |-> pos'[p]]
  <2>1. pos' = [pos EXCEPT ![s] = new]
    BY <1>2
  <2> HIDE DEF new
  <2> QED
    BY <2>1 DEF IInv, Shape
<1>5. /\ bytes'[v] = bytes[v] \cup at[w]..(end - 1)
      /\ \A x \in Version : x # v => bytes'[x] = bytes[x]
  BY <1>1, <1>2 DEF IInv, Shape
<1>6. Shape'
  <2>1. at[w]..(end - 1) \subseteq Nat
    BY <1>3 DEF All
  <2>2. bytes' \in [Version -> SUBSET Nat]
    BY <1>1, <1>2, <2>1 DEF IInv, Shape
  <2> QED
    BY <1>1, <1>4, <2>2 DEF IInv, Shape
<1> HIDE DEF new
<1>7. v # model /\ \A t \in Saver : t # s /\ Live(t) => saver[t].file # v
  BY <1>1 DEF IInv, SaverInv, Live
<1>8. BytesInv'
  BY <1>1, <1>3, <1>5, <1>7 DEF IInv, BytesInv, Shape
<1>9. SaverInv(s)'
  <2>1. \A u \in Ranges(Size[v]) : Done(Size[v], new, u) \subseteq bytes'[v]
    BY <1>1, <1>3, <1>5 DEF IInv, SaverInv
  <2> QED
    BY <1>1, <1>3, <1>4, <2>1 DEF IInv, SaverInv, Live
<1>10. ASSUME NEW t \in Saver, t # s PROVE SaverInv(t)'
  <2>1. Live(t) => /\ saver[t].file # model /\ bytes'[saver[t].file] = bytes[saver[t].file]
                   /\ \A u \in Saver : u # t /\ Live(u) => saver[u].file # saver[t].file
    BY <1>5, <1>7, <1>10 DEF IInv, SaverInv
  <2>2. saves' >= saves /\ \A u \in Saver : Live(u)' = Live(u)
    BY <1>1 DEF IInv, Shape, Live
  <2> QED
    BY <1>1, <1>4, <1>6, <1>10, <2>1, <2>2, OtherSaver DEF IInv
<1>11. ASSUME NEW l \in Loader PROVE LoaderInv(l)'
  BY <1>1, <1>4, SameLoader DEF IInv, FileParams
<1> QED
  BY <1>6, <1>8, <1>9, <1>10, <1>11 DEF IInv

\* Once all workers are joined the file holds every byte.
LEMMA JoinStep ==
  ASSUME FileParams, IInv, NEW s \in Saver, Join(s) PROVE IInv'
<1> USE DEF disk
<1> DEFINE v == saver[s].file
<1>1. /\ saver[s].at = "write" /\ v \in Version /\ Complete(Size[v], pos[s])
      /\ saver' = [saver EXCEPT ![s].at = "rename"]
      /\ UNCHANGED << model, temps, bytes, serial, pos, loader, got, loaded, saves >>
  BY DEF Join, IInv, SaverInv, Live
<1>2. /\ saver'[s] = [saver[s] EXCEPT !.at = "rename"]
      /\ \A t \in Saver : t # s => saver'[t] = saver[t]
      /\ Shape'
  BY <1>1 DEF IInv, Shape, Places
<1>3. bytes[v] = All(v)
  <2>1. \A b \in All(v) : b \in bytes[v]
    BY <1>1, CompleteIsAll DEF IInv, SaverInv
  <2> QED
    BY <1>1, <2>1 DEF IInv, BytesInv
<1>4. \A t \in Saver : Live(t)' = Live(t) /\ saver'[t].file = saver[t].file
                       /\ saver'[t].name = saver[t].name
  BY <1>1, <1>2 DEF IInv, Shape, Live
<1>5. SaverInv(s)'
  BY <1>1, <1>2, <1>3, <1>4, SMTT(30) DEF IInv, SaverInv, Live
<1>6. ASSUME NEW t \in Saver, t # s PROVE SaverInv(t)'
  <2>1. saves' >= saves
    BY <1>1 DEF IInv, Shape
  <2>2. Live(t) => /\ saver[t].file # model
                   /\ \A u \in Saver : u # t /\ Live(u)' => saver'[u].file # saver[t].file
    BY <1>4 DEF IInv, SaverInv
  <2> QED
    BY <1>1, <1>2, <1>6, <2>1, <2>2, OtherSaver DEF IInv
<1> QED
  BY <1>1, <1>2, <1>5, <1>6 DEF IInv, BytesInv, LoaderInv

\* A save that ends in any way gives up its file; the destination is none of its business.
LEMMA GiveUpStep ==
  ASSUME FileParams, IInv, NEW s \in Saver, Drop(s) \/ FailSave(s) \/ Kill(s) PROVE IInv'
<1> USE DEF disk
<1> DEFINE Records == [at : Places, file : Version \cup {Nothing}, name : Name \cup {Nothing}]
<1>1. /\ saver[s].at # "idle"
      /\ UNCHANGED << model, bytes, loader, got, loaded, saves >>
      /\ temps' = temps \/ temps' = [temps EXCEPT ![saver[s].name] = Nothing]
      /\ serial' = serial \/ serial' = [serial EXCEPT ![s] = 0]
      /\ pos' = pos \/ pos' = [pos EXCEPT ![s] = << >>]
  BY DEF Drop, FailSave, Kill
<1>2. /\ saver[s].name \in Name /\ saver[s].name[1] = s
  BY <1>1 DEF IInv, SaverInv
<1>3. PICK x \in Records : /\ saver' = [saver EXCEPT ![s] = x] /\ x.at \in {"idle", "drop"}
                           /\ x.at = "drop" => x.name = saver[s].name
  <2>1. CASE saver' = [saver EXCEPT ![s] = Idle]
    <3>1. Idle \in Records /\ Idle.at = "idle"
      BY DEF Idle, Places
    <3> QED
      BY <2>1, <3>1
  <2>2. CASE saver' = [saver EXCEPT ![s].at = "drop"]
    <3> DEFINE y == [saver[s] EXCEPT !.at = "drop"]
    <3>1. saver' = [saver EXCEPT ![s] = y]
      BY <2>2
    <3>2. saver[s] \in Records
      BY DEF IInv, Shape
    <3>3. y \in Records /\ y.at = "drop" /\ y.name = saver[s].name
      BY <3>2 DEF Places
    <3> HIDE DEF y
    <3> QED
      BY <3>1, <3>3
  <2> QED
    BY <2>1, <2>2 DEF Drop, FailSave, Kill
<1> HIDE DEF Records
<1>4. /\ saver'[s] = x /\ ~Live(s)'
      /\ \A t \in Saver : t # s => saver'[t] = saver[t]
      /\ \A p \in Saver \cup Loader : p # s => pos'[p] = pos[p]
  BY <1>1, <1>3 DEF IInv, Shape, Live
<1>5. Shape'
  <2>1. saver' \in [Saver -> Records]
    BY <1>3 DEF IInv, Shape, Records
  <2>2. temps' \in [Name -> Version \cup {Nothing}]
    BY <1>1 DEF IInv, Shape
  <2>3. serial' \in [Saver -> Nat]
    BY <1>1 DEF IInv, Shape
  <2>4. pos' = [p \in Saver \cup Loader |-> pos'[p]]
    BY <1>1 DEF IInv, Shape
  <2> QED
    BY <1>1, <2>1, <2>2, <2>3, <2>4 DEF IInv, Shape, Records
<1>6. SaverInv(s)'
  BY <1>2, <1>3, <1>4 DEF SaverInv, Live
<1>7. ASSUME NEW t \in Saver, t # s PROVE SaverInv(t)'
  <2>1. Live(t) => temps'[saver[t].name] = temps[saver[t].name]
    <3>1. Live(t) => saver[t].name \in Name /\ saver[t].name # saver[s].name
      BY <1>2, <1>7 DEF IInv, SaverInv, Live
    <3> QED
      BY <1>1, <3>1 DEF IInv, Shape
  <2>2. Live(t) => /\ saver[t].file # model
                   /\ \A u \in Saver : u # t /\ Live(u)' => saver'[u].file # saver[t].file
    BY <1>4 DEF IInv, SaverInv, Live
  <2>3. saves' >= saves
    BY <1>1 DEF IInv, Shape
  <2> QED
    BY <1>1, <1>4, <1>5, <1>7, <2>1, <2>2, <2>3, OtherSaver DEF IInv
<1>8. ASSUME NEW l \in Loader PROVE LoaderInv(l)'
  BY <1>1, <1>4, SameLoader DEF IInv, FileParams
<1> QED
  BY <1>1, <1>5, <1>6, <1>7, <1>8 DEF IInv, BytesInv

\* The rename puts a complete file at the destination, and nobody else has it.
LEMMA RenameStep ==
  ASSUME FileParams, IInv, NEW s \in Saver, Rename(s)
  PROVE  IInv' /\ model' = saver[s].file /\ model' \in Version
<1> DEFINE v == saver[s].file
<1>1. /\ saver[s].at = "rename" /\ v \in Version /\ v <= saves /\ bytes[v] = All(v)
      /\ saver[s].name \in Name /\ saver[s].name[1] = s
      /\ \A t \in Saver : t # s /\ Live(t) => saver[t].file # v
      /\ temps' = [temps EXCEPT ![saver[s].name] = Nothing]
      /\ saver' = [saver EXCEPT ![s].at = "drop"]
      /\ UNCHANGED << bytes, serial, pos, loader, got, loaded, saves >>
  BY DEF Rename, IInv, SaverInv, Live
<1>2. model' = v
  BY <1>1 DEF Rename, IInv, SaverInv, Live
<1>3. /\ saver'[s] = [saver[s] EXCEPT !.at = "drop"]
      /\ \A t \in Saver : t # s => saver'[t] = saver[t]
      /\ Shape'
  BY <1>1, <1>2 DEF IInv, Shape, Places
<1>4. ~Live(s)' /\ SaverInv(s)'
  BY <1>1, <1>3 DEF IInv, Shape, SaverInv, Live
<1>5. ASSUME NEW t \in Saver, t # s PROVE SaverInv(t)'
  <2>1. Live(t) => temps'[saver[t].name] = temps[saver[t].name]
    <3>1. Live(t) => saver[t].name \in Name /\ saver[t].name # saver[s].name
      BY <1>1, <1>5 DEF IInv, SaverInv, Live
    <3> QED
      BY <1>1, <3>1 DEF IInv, Shape
  <2>2. Live(t) => /\ saver[t].file # model'
                   /\ \A u \in Saver : u # t /\ Live(u)' => saver'[u].file # saver[t].file
    <3>1. \A u \in Saver : Live(u)' => Live(u) /\ saver'[u].file = saver[u].file
      BY <1>3, <1>4 DEF Live
    <3> QED
      BY <1>1, <1>2, <1>5, <3>1 DEF IInv, SaverInv
  <2>3. saves' >= saves
    BY <1>1 DEF IInv, Shape
  <2>4. /\ Shape /\ Shape' /\ SaverInv(t)
        /\ saver'[t] = saver[t] /\ pos'[t] = pos[t]
        /\ bytes'[saver[t].file] = bytes[saver[t].file]
    BY <1>1, <1>3, <1>5 DEF IInv
  <2> QED
    BY <2>1, <2>2, <2>3, <2>4, OtherSaver
<1> QED
  BY <1>1, <1>2, <1>3, <1>4, <1>5 DEF IInv, BytesInv, LoaderInv

\* What a step of a loader leaves alone.
LEMMA LoaderFrame ==
  ASSUME FileParams, IInv, Shape', NEW l \in Loader,
         UNCHANGED << disk, serial, saver, saves >>,
         \A p \in Saver \cup Loader : p # l => pos'[p] = pos[p],
         \A k \in Loader : k # l => loader'[k] = loader[k] /\ got'[k] = got[k],
         LoaderInv(l)'
  PROVE  IInv'
<1> USE DEF disk
<1>1. ASSUME NEW s \in Saver PROVE SaverInv(s)'
  <2>1. s # l /\ saves' >= saves
    BY DEF FileParams, IInv, Shape
  <2>2. Live(s) => /\ saver[s].file # model
                   /\ \A u \in Saver : u # s /\ Live(u)' => saver'[u].file # saver[s].file
    BY DEF IInv, SaverInv, Live
  <2> QED
    BY <2>1, <2>2, OtherSaver DEF IInv
<1>2. ASSUME NEW k \in Loader, k # l PROVE LoaderInv(k)'
  BY <1>2, SameLoader DEF IInv
<1> QED
  BY <1>1, <1>2 DEF IInv, BytesInv

\* Opening takes the file that is there, whole.
LEMMA OpenStep ==
  ASSUME FileParams, IInv, NEW l \in Loader, Open(l) PROVE IInv'
<1> DEFINE nothing == [b \in All(model) |-> Nothing]
<1>1. /\ model \in Version
      /\ loader' = [loader EXCEPT ![l] = [at |-> "read", file |-> model]]
      /\ got' = [got EXCEPT ![l] = nothing]
      /\ pos' = [pos EXCEPT ![l] = Start(Size[model])]
      /\ loaded' = [loaded EXCEPT ![l] = {}]
      /\ UNCHANGED << disk, serial, saver, saves >>
  BY DEF Open, IInv, Shape, All
<1> HIDE DEF nothing
<1>2. /\ Shape' /\ got'[l] = nothing /\ pos'[l] = Start(Size[model])
      /\ loader'[l] = [at |-> "read", file |-> model]
      /\ \A p \in Saver \cup Loader : p # l => pos'[p] = pos[p]
      /\ \A k \in Loader : k # l => loader'[k] = loader[k] /\ got'[k] = got[k]
  BY <1>1 DEF IInv, Shape, disk
<1>3. LoaderInv(l)'
  BY <1>1, <1>2, StartIsProgress, SMTT(30) DEF LoaderInv, nothing
<1> QED
  BY <1>1, <1>2, <1>3, LoaderFrame

\* Every read takes its bytes from the file that was opened.
LEMMA ReadStep ==
  ASSUME FileParams, IInv, NEW l \in Loader, NEW w, Read(l, w) PROVE IInv'
<1> DEFINE v == loader[l].file
           at == pos[l]
<1>1. /\ loader[l].at = "read" /\ v \in Version /\ Progress(Size[v], at)
      /\ got[l] = [b \in All(v) |-> got[l][b]]
  BY DEF Read, IInv, LoaderInv
<1>2. Cardinality(DOMAIN got[l]) = Size[v]
  <2>1. DOMAIN got[l] = All(v)
    BY <1>1
  <2> QED
    BY <1>1, <2>1, AllOfFile
<1>3. w \in Ranges(Size[v]) /\ at[w] < Limit(Size[v], w)
  BY <1>2 DEF Read
<1>4. PICK end \in (at[w] + 1)..PartEnd(Size[v], w, at[w]) :
        /\ got' = [got EXCEPT ![l] =
                     [b \in DOMAIN @ |-> IF b \in at[w]..(end - 1) THEN v ELSE @[b]]]
        /\ pos' = [pos EXCEPT ![l][w] = end]
        /\ UNCHANGED << disk, serial, saver, loader, loaded, saves >>
  BY <1>2 DEF Read, Source
<1> DEFINE new == [at EXCEPT ![w] = end]
           bs == [b \in All(v) |-> IF b \in at[w]..(end - 1) THEN v ELSE got[l][b]]
<1>5. /\ Progress(Size[v], new) /\ at[w]..(end - 1) \subseteq All(v)
      /\ \A u \in Ranges(Size[v]) :
           Done(Size[v], new, u) \subseteq Done(Size[v], at, u) \cup at[w]..(end - 1)
  BY <1>1, <1>3, <1>4, WorkerStep
<1>6. /\ pos'[l] = new /\ \A p \in Saver \cup Loader : p # l => pos'[p] = pos[p]
      /\ pos' = [p \in Saver \cup Loader |-> pos'[p]]
  <2>1. pos' = [pos EXCEPT ![l] = new]
    BY <1>4
  <2> HIDE DEF new
  <2> QED
    BY <2>1 DEF IInv, Shape
<1>7. /\ got'[l] = bs /\ \A k \in Loader : k # l => got'[k] = got[k]
      /\ got' = [k \in Loader |-> got'[k]]
  <2>1. got' = [got EXCEPT ![l] = bs]
    BY <1>1, <1>4
  <2> HIDE DEF bs
  <2> QED
    BY <2>1 DEF IInv, Shape
<1>8. Shape'
  BY <1>4, <1>6, <1>7 DEF IInv, Shape, disk
<1>9. LoaderInv(l)'
  <2>1. bs = [b \in All(v) |-> bs[b]]
    OBVIOUS
  <2>2. ASSUME NEW u \in Ranges(Size[v]), NEW b \in Done(Size[v], new, u) PROVE bs[b] = v
    <3>1. b \in All(v)
      <4>1. /\ new[u] \in Base(Size[v], u)..Limit(Size[v], u)
            /\ Base(Size[v], u) \in Nat /\ Limit(Size[v], u) \in 0..Size[v]
        BY <1>1, <1>5, Sizes, RangesCover DEF Progress
      <4> HIDE DEF new
      <4> QED
        BY <1>1, <2>2, <4>1, Sizes DEF Done, All
    <3>2. b \in at[w]..(end - 1) \/ got[l][b] = v
      BY <1>1, <1>5, <2>2 DEF IInv, LoaderInv
    <3> QED
      BY <3>1, <3>2
  <2> HIDE DEF bs, new
  <2>3. loader'[l] = loader[l]
    BY <1>4
  <2> QED
    BY <1>1, <1>5, <1>6, <1>7, <2>1, <2>2, <2>3 DEF LoaderInv
<1> QED
  BY <1>4, <1>6, <1>7, <1>8, <1>9, LoaderFrame

\* A load that returns its bytes returns those of one file.
LEMMA EndLoadStep ==
  ASSUME FileParams, IInv, NEW l \in Loader, EndLoad(l)
  PROVE  /\ IInv'
         /\ loaded' = loaded \/ loaded' = [loaded EXCEPT ![l] = {loader[l].file}]
<1>1. /\ loader[l].at = "read"
      /\ loader' = [loader EXCEPT ![l] = [at |-> "idle", file |-> Nothing]]
      /\ got' = [got EXCEPT ![l] = << >>] /\ pos' = [pos EXCEPT ![l] = << >>]
      /\ UNCHANGED << disk, serial, saver, saves >>
  BY DEF EndLoad
<1>2. loaded' = loaded \/ loaded' = [loaded EXCEPT ![l] = {loader[l].file}]
  <2> DEFINE v == loader[l].file
             size == Cardinality(DOMAIN got[l])
  <2> SUFFICES ASSUME Complete(size, pos[l]),
                      loaded' = [loaded EXCEPT ![l] = {got[l][b] : b \in DOMAIN got[l]}]
               PROVE  loaded' = [loaded EXCEPT ![l] = {v}]
    BY DEF EndLoad
  <2>1. /\ v \in Version /\ DOMAIN got[l] = All(v)
    BY <1>1 DEF IInv, LoaderInv
  <2>2. size = Size[v] /\ 0 \in All(v)
    BY <2>1, AllOfFile
  <2>3. ASSUME NEW b \in All(v) PROVE got[l][b] = v
    <3>1. Complete(Size[v], pos[l])
      BY <2>2
    <3>2. PICK w \in Ranges(Size[v]) : b \in Done(Size[v], pos[l], w)
      BY <2>1, <3>1, CompleteIsAll
    <3> QED
      BY <1>1, <3>2 DEF IInv, LoaderInv
  <2>4. {got[l][b] : b \in DOMAIN got[l]} = {v}
    BY <2>1, <2>2, <2>3
  <2> QED
    BY <2>4
<1>3. /\ Shape' /\ loader'[l] = [at |-> "idle", file |-> Nothing]
      /\ \A p \in Saver \cup Loader : p # l => pos'[p] = pos[p]
      /\ \A k \in Loader : k # l => loader'[k] = loader[k] /\ got'[k] = got[k]
  BY <1>1, <1>2 DEF IInv, Shape, disk
<1>4. LoaderInv(l)'
  BY <1>3 DEF LoaderInv
<1> QED
  BY <1>1, <1>2, <1>3, <1>4, LoaderFrame

LEMMA StepInv == ASSUME FileParams, IInv, [Next]_vars PROVE IInv'
<1>1. CASE UNCHANGED vars
  <2> USE <1>1 DEF vars, disk
  <2>1. Shape' /\ BytesInv'
    BY DEF IInv, Shape, BytesInv
  <2>2. \A s \in Saver : SaverInv(s)'
    BY DEF IInv, SaverInv, Live
  <2>3. \A l \in Loader : LoaderInv(l)'
    BY DEF IInv, LoaderInv
  <2> QED
    BY <2>1, <2>2, <2>3 DEF IInv
<1>2. ASSUME NEW s \in Saver,
             \/ Create(s) \/ Join(s) \/ Rename(s) \/ Drop(s) \/ FailSave(s) \/ Kill(s)
             \/ \E w \in DOMAIN pos[s] : Write(s, w)
      PROVE  IInv'
  BY <1>2, CreateStep, WriteStep, JoinStep, GiveUpStep, RenameStep
<1>3. ASSUME NEW l \in Loader,
             Open(l) \/ EndLoad(l) \/ \E w \in DOMAIN pos[l] : Read(l, w)
      PROVE  IInv'
  BY <1>3, OpenStep, ReadStep, EndLoadStep
<1> QED
  BY <1>1, <1>2, <1>3 DEF Next

LEMMA Invariance == ASSUME FileParams PROVE Spec => []IInv
BY InitInv, StepInv, PTL DEF Spec

----------------------------------------------------------------------------
(***************************************************************************)
(* The theorems                                                            *)
(***************************************************************************)

\* The file at the destination is complete from the moment it is there, and nobody
\* writes to it any more (atomic_write: workers joined, then renamed).
THEOREM DestinationIsComplete == ASSUME FileParams PROVE Spec => []DestinationComplete
<1>1. IInv => DestinationComplete
  BY DEF IInv, BytesInv, SaverInv, Live, All, DestinationComplete
<1> QED
  BY Invariance, <1>1, PTL

\* Only a killed process, or a removal that fails, leaves a temporary file behind
\* (PendingFile's drop).
THEOREM SavesLeaveNoLitter == ASSUME FileParams PROVE Spec => NoLitter
<1>1. IInv /\ [Next]_vars =>
        [\A n \in Name :
           temps[n] # Nothing /\ temps'[n] # Nothing /\ saver[n[1]].at # "idle"
             /\ saver'[n[1]].at = "idle" /\ saver[n[1]].name = n
             => serial'[n[1]] = 0 \/ n \in unremoved']_vars
  <2> SUFFICES ASSUME IInv, Next, NEW n \in Name,
                      temps'[n] # Nothing, saver[n[1]].at # "idle", saver'[n[1]].at = "idle",
                      saver[n[1]].name = n
               PROVE  serial'[n[1]] = 0 \/ n \in unremoved'
    OBVIOUS
  <2> DEFINE s == n[1]
  <2>1. s \in Saver
    BY DEF Name
  <2>2. Drop(s) => n \in unremoved'
    BY <2>1 DEF Drop, IInv, Shape
  <2>3. Kill(s) => serial'[s] = 0
    BY <2>1 DEF Kill, IInv, Shape
  <2>4. \A t \in Saver : Drop(t) \/ Kill(t) => t = s
    BY <2>1 DEF Drop, Kill, IInv, Shape
  <2>5. \A t \in Saver : ~Create(t) /\ ~Join(t) /\ ~Rename(t) /\ ~FailSave(t)
    <3>1. ASSUME NEW t \in Saver, saver'[t].at # "idle",
                 \A u \in Saver : u # t => saver'[u] = saver[u]
          PROVE  FALSE
      BY <2>1, <3>1
    <3>2. ASSUME NEW t \in Saver, Create(t) \/ Join(t) \/ Rename(t) \/ FailSave(t) PROVE FALSE
      <4>1. saver' # saver
        BY <2>1
      <4>2. \E x : saver' = [saver EXCEPT ![t] = x] /\ x.at # "idle"
        BY <3>2, <4>1 DEF Create, Join, Rename, FailSave, IInv, Shape
      <4> QED
        BY <3>1, <4>2 DEF IInv, Shape
    <3> QED
      BY <3>2
  <2>6. \A t, w : ~Write(t, w) /\ ~Open(t) /\ ~Read(t, w) /\ ~EndLoad(t)
    BY DEF Write, Open, Read, EndLoad
  <2> QED
    BY <2>2, <2>3, <2>4, <2>5, <2>6 DEF Next
<1> QED
  BY Invariance, <1>1, PTL DEF Spec, NoLitter

\* What a loader's result is to AtomicFile.
Result(files) ==
  IF files = {} THEN Nothing
  ELSE IF Cardinality(files) = 1 THEN CHOOSE v \in files : TRUE
  ELSE 0

LEMMA ResultOfOne == ASSUME NEW v PROVE Result({v}) = v
<1>1. Cardinality({v}) = 1 /\ {v} # {}
  BY FS_Singleton
<1> QED
  BY <1>1 DEF Result

\* Saving and loading implement the atomic file: a rename replaces it, an open decides
\* what a load will return, and nothing else is seen from outside.
THEOREM FileImplementsAtomicFile == ASSUME FileParams PROVE Spec => ImplementsAtomicFile
<1> DEFINE loading == [l \in Loader |-> loader[l].file]
           results == [l \in Loader |-> Result(loaded[l])]
<1>1. Init => Abstract!Init
  BY DEF Init, Abstract!Init
<1>2. IInv /\ [Next]_vars => [Abstract!Next]_<< model, loading, results >>
  <2> SUFFICES ASSUME IInv, [Next]_vars
               PROVE  [Abstract!Next]_<< model, loading, results >>
    OBVIOUS
  <2>1. CASE \/ UNCHANGED << model, loader, loaded >>
    BY <2>1
  <2>2. ASSUME NEW s \in Saver, Rename(s) PROVE Abstract!Replace
    <3>1. model' \in Version /\ UNCHANGED << loader, loaded >>
      BY <2>2, RenameStep DEF Rename
    <3> QED
      BY <3>1 DEF Abstract!Replace
  <2>3. ASSUME NEW l \in Loader, Open(l) PROVE Abstract!Snapshot(l)
    <3>1. /\ loader[l].file = Nothing /\ model # Nothing /\ model' = model
          /\ loader' = [loader EXCEPT ![l] = [at |-> "read", file |-> model]]
          /\ loaded' = [loaded EXCEPT ![l] = {}]
      BY <2>3 DEF Open, disk, IInv, LoaderInv
    <3>2. loading' = [loading EXCEPT ![l] = model]
      BY <3>1 DEF IInv, Shape
    <3>3. results' = [results EXCEPT ![l] = Nothing]
      <4>1. \A k \in Loader : Result(loaded'[k]) = IF k = l THEN Nothing ELSE Result(loaded[k])
        <5>1. Result({}) = Nothing
          BY DEF Result
        <5> QED
          BY <3>1, <5>1 DEF IInv, Shape
      <4> QED
        BY <4>1
    <3> QED
      BY <3>1, <3>2, <3>3 DEF Abstract!Snapshot, Result
  <2>4. ASSUME NEW l \in Loader, EndLoad(l) PROVE Abstract!Finish(l)
    <3>1. /\ loader[l].file # Nothing /\ model' = model
          /\ loader' = [loader EXCEPT ![l] = [at |-> "idle", file |-> Nothing]]
      BY <2>4 DEF EndLoad, disk, IInv, LoaderInv, FileParams
    <3>2. loading' = [loading EXCEPT ![l] = Nothing]
      BY <3>1 DEF IInv, Shape
    <3>3. loaded' = loaded \/ loaded' = [loaded EXCEPT ![l] = {loader[l].file}]
      BY <2>4, EndLoadStep
    <3>4. results' = results \/ results' = [results EXCEPT ![l] = loader[l].file]
      <4>1. CASE loaded' = loaded
        BY <4>1
      <4>2. CASE loaded' = [loaded EXCEPT ![l] = {loader[l].file}]
        <5>1. \A k \in Loader :
                Result(loaded'[k]) = IF k = l THEN loader[l].file ELSE Result(loaded[k])
          BY <4>2, ResultOfOne DEF IInv, Shape
        <5> QED
          BY <5>1
      <4> QED
        BY <3>3, <4>1, <4>2
    <3> QED
      BY <3>1, <3>2, <3>4 DEF Abstract!Finish, Result
  <2>5. CASE \E s \in Saver : \/ Create(s) \/ Join(s) \/ Drop(s) \/ FailSave(s) \/ Kill(s)
                              \/ \E w \in DOMAIN pos[s] : Write(s, w)
    BY <2>1, <2>5 DEF Create, Join, Drop, FailSave, Kill, Write, disk
  <2>6. CASE \E l \in Loader : \E w \in DOMAIN pos[l] : Read(l, w)
    BY <2>1, <2>6 DEF Read, disk
  <2> QED
    BY <2>1, <2>2, <2>3, <2>4, <2>5, <2>6 DEF Next, Abstract!Next, vars, disk
<1> QED
  BY Invariance, <1>1, <1>2, PTL DEF Spec, ImplementsAtomicFile, Abstract!Spec, Result

\* The destination is complete whenever it is there, only a kill or a failed removal
\* leaves litter, and saving and loading in pieces implement a file that is replaced
\* and read at once.
THEOREM SavingIsAtomic == ASSUME FileParams PROVE Spec => SavesAreAtomic
BY DestinationIsComplete, SavesLeaveNoLitter, FileImplementsAtomicFile DEF SavesAreAtomic

----------------------------------------------------------------------------
(***************************************************************************)
(* Proofs of the safety properties, for any calls and number of batches.   *)
(* The inductive invariant says of every call which messages are on their  *)
(* way to its writer, and which call owns the file at the path.            *)
(***************************************************************************)

Upto(n) == [k \in 1..n |-> k]
InOrder(s) == s = Upto(Len(s))

OutputShape ==
  /\ path \in Call \cup {None, User}
  /\ contents \in [Call -> [rows : Seq(Nat), footer : BOOLEAN]]
  /\ caller \in [Call -> {"create", "spawn", "score", "send", "finish", "cancelled", "join",
                          "returned"}]
  /\ read \in [Call -> 0..NBatches]
  /\ channel \in [Call -> Seq(Nat)]
  /\ sender \in [Call -> BOOLEAN]
  /\ writer \in [Call -> {"none", "receive", "footer", "failing", "ok", "error", "panic"}]
  /\ cause \in [Call -> {"", "input", "writer"}]
  /\ result \in [Call -> {"", "exists", "spawn", "ok", "input", "writer", "panic", "rows"}]

Failed == {"error", "panic"}

\* Where a call and its writer can be together.
PlaceInv(c) ==
  /\ caller[c] \in {"create", "spawn"} =>
       writer[c] = "none" /\ read[c] = 0 /\ channel[c] = << >> /\ contents[c].rows = << >>
  /\ caller[c] \in {"score", "send", "finish", "cancelled", "join"} => writer[c] # "none"
  /\ caller[c] # "returned" => result[c] = ""
  /\ writer[c] \in {"footer", "ok"} => caller[c] \in {"join", "returned"}
  /\ caller[c] = "send" => read[c] > 0
  /\ caller[c] \in {"finish", "join"} => read[c] = NBatches
  /\ caller[c] = "cancelled" => cause[c] \in {"input", "writer"}
  /\ caller[c] = "returned" =>
       \/ result[c] \in {"exists", "spawn"} /\ writer[c] = "none"
       \/ result[c] = "ok" /\ writer[c] = "ok"
       \/ /\ result[c] \in {"input", "writer", "panic"} /\ writer[c] \in Failed
          /\ result[c] = "input" => cause[c] = "input"

\* How many batches are in the file.
Rows(c) == Len(contents[c].rows)

\* The messages s are those that follow the first w batches.
Follows(s, w) ==
  \A k \in 1..Len(s) : s[k] = IF w + k <= NBatches THEN w + k ELSE Finish

\* What the writer has written and what is in the channel are, together, what has been
\* sent: the batches in order, and Finish after the last.
FlowInv(c) ==
  writer[c] = "receive" =>
    /\ InOrder(contents[c].rows)
    /\ Rows(c) + Len(channel[c]) =
         IF caller[c] = "join" THEN NBatches + 1
         ELSE IF caller[c] = "send" THEN read[c] - 1 ELSE read[c]
    /\ Follows(channel[c], Rows(c))

WholeInv(c) ==
  /\ writer[c] \in {"footer", "ok"} => contents[c].rows = Upto(NBatches)
  /\ writer[c] = "ok" => contents[c].footer

CallInv(c) == PlaceInv(c) /\ FlowInv(c) /\ WholeInv(c)

\* A call owns the path from the creation of its file until its writer has cleaned up.
Owns(c) == caller[c] = "spawn" \/ writer[c] \in {"receive", "footer", "failing", "ok"}

PathInv == \A c \in Call : path = c <=> Owns(c)

OutputInv == OutputShape /\ PathInv /\ \A c \in Call : CallInv(c)

LEMMA UptoAppend ==
  ASSUME NEW n \in Nat
  PROVE  Upto(n) \in Seq(Nat) /\ Len(Upto(n)) = n /\ Append(Upto(n), n + 1) = Upto(n + 1)
BY DEF Upto

LEMMA OutputInitInv == ASSUME OutputParams, OutputInit PROVE OutputInv
<1>1. OutputShape
  <2>1. /\ << >> \in Seq(Nat)
        /\ [rows |-> << >>, footer |-> FALSE] \in [rows : Seq(Nat), footer : BOOLEAN]
    OBVIOUS
  <2>2. 0 \in 0..NBatches
    BY DEF OutputParams
  <2> QED
    BY <2>1, <2>2 DEF OutputInit, OutputShape
<1>2. PathInv
  BY DEF OutputParams, OutputInit, PathInv, Owns
<1>3. \A c \in Call : CallInv(c)
  BY DEF OutputInit, CallInv, PlaceInv, FlowInv, WholeInv
<1> QED
  BY <1>1, <1>2, <1>3 DEF OutputInv

LEMMA FollowsAppend ==
  ASSUME OutputParams, NEW s \in Seq(Nat), NEW w \in Nat, NEW b, Follows(s, w),
         b = IF w + Len(s) + 1 <= NBatches THEN w + Len(s) + 1 ELSE Finish
  PROVE  Follows(Append(s, b), w) /\ Len(Append(s, b)) = Len(s) + 1
<1> DEFINE t == Append(s, b)
<1>1. /\ Len(t) = Len(s) + 1 /\ t[Len(s) + 1] = b /\ Len(s) \in Nat
      /\ \A k \in 1..Len(s) : t[k] = s[k]
  BY DEF OutputParams, Finish
<1>2. \A k \in 1..Len(t) : k = Len(s) + 1 \/ k \in 1..Len(s)
  BY <1>1
<1> HIDE DEF t
<1>3. ASSUME NEW k \in 1..Len(t)
      PROVE  t[k] = IF w + k <= NBatches THEN w + k ELSE Finish
  <2>1. CASE k = Len(s) + 1
    <3>1. w + k = w + Len(s) + 1
      BY <1>1, <2>1
    <3> QED
      BY <1>1, <2>1, <3>1
  <2>2. CASE k \in 1..Len(s)
    BY <1>1, <2>2 DEF Follows
  <2> QED
    BY <1>2, <2>1, <2>2
<1> QED
  BY <1>1, <1>3 DEF Follows, t

LEMMA FollowsTail ==
  ASSUME OutputParams, NEW s \in Seq(Nat), NEW w \in Nat, Follows(s, w), s # << >>
  PROVE  /\ Follows(Tail(s), w + 1) /\ Len(Tail(s)) = Len(s) - 1 /\ Len(s) \in Nat
         /\ Head(s) = IF w + 1 <= NBatches THEN w + 1 ELSE Finish
<1> DEFINE t == Tail(s)
<1>1. /\ Len(t) = Len(s) - 1 /\ Len(s) \in Nat \ {0} /\ Head(s) = s[1]
      /\ \A k \in 1..Len(t) : t[k] = s[k + 1]
  OBVIOUS
<1> HIDE DEF t
<1>2. ASSUME NEW k \in 1..Len(t)
      PROVE  t[k] = IF (w + 1) + k <= NBatches THEN (w + 1) + k ELSE Finish
  <2>1. k + 1 \in 1..Len(s) /\ w + (k + 1) = (w + 1) + k
    BY <1>1
  <2> QED
    BY <1>1, <2>1 DEF Follows
<1>3. 1 \in 1..Len(s)
  BY <1>1
<1> QED
  BY <1>1, <1>2, <1>3 DEF Follows, t

\* A step of one call leaves the others as they are.
Untouched(d) ==
  UNCHANGED << contents[d], caller[d], read[d], channel[d], sender[d], writer[d], cause[d],
               result[d] >>

LEMMA OthersStay ==
  ASSUME OutputShape, NEW c \in Call, Caller(c) \/ Writer(c), NEW d \in Call, d # c
  PROVE  Untouched(d)
BY DEF OutputShape, Caller, Writer, CreateOutput, Spawn, Score, Send, SendFinish, Cancel,
   JoinWriter, Receive, Footer, Cleanup, Go, Return, Fail, Untouched

LEMMA UntouchedInv ==
  ASSUME NEW d \in Call, CallInv(d), Untouched(d)
  PROVE  CallInv(d)'
<1>1. PlaceInv(d)'
  BY DEF CallInv, PlaceInv, Untouched
<1>2. FlowInv(d)'
  BY DEF CallInv, FlowInv, Untouched, Rows
<1>3. WholeInv(d)'
  BY DEF CallInv, WholeInv, Untouched
<1> QED
  BY <1>1, <1>2, <1>3 DEF CallInv

\* What can be done to a channel and to a file.
LEMMA ChannelStays ==
  ASSUME OutputParams, OutputShape, NEW c \in Call
  PROVE  /\ [channel EXCEPT ![c] = Append(channel[c], 0)] \in [Call -> Seq(Nat)]
         /\ [channel EXCEPT ![c] = Append(channel[c], read[c])] \in [Call -> Seq(Nat)]
         /\ channel[c] # << >> => [channel EXCEPT ![c] = Tail(channel[c])] \in [Call -> Seq(Nat)]
         /\ [channel EXCEPT ![c] = << >>] \in [Call -> Seq(Nat)]
<1>1. channel \in [Call -> Seq(Nat)] /\ channel[c] \in Seq(Nat) /\ read[c] \in Nat
  <2>1. read[c] \in 0..NBatches
    BY DEF OutputShape
  <2>2. NBatches \in Nat
    BY DEF OutputParams
  <2>3. read[c] \in Nat
    BY <2>1, <2>2
  <2> QED
    BY <2>3 DEF OutputShape
<1>2. \A b \in Nat : Append(channel[c], b) \in Seq(Nat)
  BY <1>1
<1>3. channel[c] # << >> => Tail(channel[c]) \in Seq(Nat)
  BY <1>1
<1>4. << >> \in Seq(Nat)
  OBVIOUS
<1> QED
  BY <1>1, <1>2, <1>3, <1>4

Written(c) == [contents[c] EXCEPT !.rows = Append(contents[c].rows, Head(channel[c]))]

LEMMA ContentsStay ==
  ASSUME OutputShape, NEW c \in Call
  PROVE  /\ channel[c] # << >> => Written(c) \in [rows : Seq(Nat), footer : BOOLEAN]
         /\ [contents[c] EXCEPT !.footer = TRUE] \in [rows : Seq(Nat), footer : BOOLEAN]
<1>1. /\ contents \in [Call -> [rows : Seq(Nat), footer : BOOLEAN]]
      /\ contents[c] \in [rows : Seq(Nat), footer : BOOLEAN] /\ channel[c] \in Seq(Nat)
  BY DEF OutputShape
<1>2. channel[c] # << >> => Append(contents[c].rows, Head(channel[c])) \in Seq(Nat)
  BY <1>1
<1>3. channel[c] # << >> => Written(c) \in [rows : Seq(Nat), footer : BOOLEAN]
  BY <1>1, <1>2 DEF Written
<1>4. [contents[c] EXCEPT !.footer = TRUE] \in [rows : Seq(Nat), footer : BOOLEAN]
  BY <1>1
<1> QED
  BY <1>3, <1>4

\* The types, action by action.
LEMMA ShapeStep ==
  ASSUME OutputParams, OutputInv, NEW c \in Call, Caller(c) \/ Writer(c)
  PROVE  OutputShape'
<1> USE DEF OutputInv, OutputParams
<1>0. /\ OutputShape /\ channel \in [Call -> Seq(Nat)] /\ read \in [Call -> 0..NBatches]
      /\ contents \in [Call -> [rows : Seq(Nat), footer : BOOLEAN]] /\ NBatches \in Nat
  BY DEF OutputShape
<1>1. CASE CreateOutput(c)
  BY <1>1 DEF CreateOutput, Go, Return, OutputShape
<1>2. CASE Spawn(c)
  BY <1>2 DEF Spawn, Go, Return, OutputShape
<1>3. CASE Score(c)
  <2>1. read' \in [Call -> 0..NBatches]
    <3>1. read[c] \in 0..NBatches
      BY DEF OutputShape
    <3>2. \/ read[c] < NBatches /\ read' = [read EXCEPT ![c] = read[c] + 1]
          \/ read' = read
      BY <1>3 DEF Score
    <3>3. read[c] < NBatches => read[c] + 1 \in 0..NBatches
      BY <1>0, <3>1
    <3> QED
      BY <1>0, <3>2, <3>3
  <2>2. \/ caller' = [caller EXCEPT ![c] = "send"] /\ UNCHANGED << cause, sender >>
        \/ caller' = [caller EXCEPT ![c] = "finish"] /\ UNCHANGED << cause, sender >>
        \/ /\ caller' = [caller EXCEPT ![c] = "cancelled"]
           /\ cause' = [cause EXCEPT ![c] = "input"]
           /\ sender' = [sender EXCEPT ![c] = FALSE]
    BY <1>3 DEF Score, Go
  <2>3. /\ caller' \in [Call -> {"create", "spawn", "score", "send", "finish", "cancelled", "join",
                                "returned"}]
        /\ cause' \in [Call -> {"", "input", "writer"}] /\ sender' \in [Call -> BOOLEAN]
    BY <2>2 DEF OutputShape
  <2> QED
    BY <1>3, <2>1, <2>3 DEF Score, OutputShape
<1>4. CASE Send(c)
  <2>1. \/ channel' = channel
        \/ channel' = [channel EXCEPT ![c] = Append(channel[c], read[c])]
    BY <1>4 DEF Send
  <2>2. channel' \in [Call -> Seq(Nat)]
    BY <2>1, <1>0, ChannelStays, ZenonT(30)
  <2>3. \/ caller' = [caller EXCEPT ![c] = "score"] /\ UNCHANGED << cause, sender >>
        \/ /\ caller' = [caller EXCEPT ![c] = "cancelled"]
           /\ cause' = [cause EXCEPT ![c] = "writer"]
           /\ sender' = [sender EXCEPT ![c] = FALSE]
    BY <1>4 DEF Send, Go
  <2>4. /\ caller' \in [Call -> {"create", "spawn", "score", "send", "finish", "cancelled", "join",
                                "returned"}]
        /\ cause' \in [Call -> {"", "input", "writer"}] /\ sender' \in [Call -> BOOLEAN]
    BY <2>3 DEF OutputShape
  <2> QED
    BY <1>4, <2>2, <2>4 DEF Send, OutputShape
<1>5. CASE SendFinish(c)
  <2>1. \/ channel' = [channel EXCEPT ![c] = << >>]
        \/ channel' = [channel EXCEPT ![c] = Append(channel[c], 0)]
    BY <1>5 DEF SendFinish, Finish
  <2>2. channel' \in [Call -> Seq(Nat)]
    BY <2>1, <1>0, ChannelStays, ZenonT(30)
  <2>3. /\ caller' = [caller EXCEPT ![c] = "join"] /\ sender' = [sender EXCEPT ![c] = FALSE]
        /\ UNCHANGED << path, contents, read, writer, cause, result >>
    BY <1>5 DEF SendFinish, Go
  <2> QED
    BY <2>2, <2>3 DEF OutputShape
<1>6. CASE Cancel(c)
  <2>1. IF cause[c] = "writer" /\ writer[c] # "ok" THEN WriterVerdict(c) \in {"writer", "panic"}
        ELSE TRUE
    BY <1>6 DEF Cancel, WriterVerdict, Ended
  <2> QED
    BY <1>6, <2>1 DEF Cancel, Go, Return, OutputShape
<1>7. CASE JoinWriter(c)
  <2>1. writer[c] # "ok" => WriterVerdict(c) \in {"writer", "panic"}
    BY <1>7 DEF JoinWriter, WriterVerdict, Ended
  <2> QED
    BY <1>7, <2>1 DEF JoinWriter, Go, Return, OutputShape
<1>8. CASE Receive(c)
  <2>1. \/ channel' = channel
        \/ channel[c] # << >> /\ channel' = [channel EXCEPT ![c] = Tail(channel[c])]
    BY <1>8 DEF Receive
  <2>2. channel' \in [Call -> Seq(Nat)]
    BY <2>1, <1>0, ChannelStays, ZenonT(30)
  <2>3. \/ contents' = contents
        \/ channel[c] # << >> /\ contents' = [contents EXCEPT ![c] = Written(c)]
    BY <1>8 DEF Receive, Written
  <2>4. contents' \in [Call -> [rows : Seq(Nat), footer : BOOLEAN]]
    BY <2>3, <1>0, ContentsStay
  <2>5. writer' = writer \/ writer' = [writer EXCEPT ![c] = "failing"]
        \/ writer' = [writer EXCEPT ![c] = "footer"]
    BY <1>8 DEF Receive, Fail
  <2>6. writer' \in [Call -> {"none", "receive", "footer", "failing", "ok", "error", "panic"}]
    BY <2>5 DEF OutputShape
  <2>7. UNCHANGED << path, caller, read, sender, cause, result >>
    BY <1>8 DEF Receive
  <2> QED
    BY <2>2, <2>4, <2>6, <2>7 DEF OutputShape
<1>9. CASE Footer(c)
  <2>1. \/ contents' = contents
        \/ contents' = [contents EXCEPT ![c] = [contents[c] EXCEPT !.footer = TRUE]]
    BY <1>9 DEF Footer
  <2>2. contents' \in [Call -> [rows : Seq(Nat), footer : BOOLEAN]]
    BY <2>1, <1>0, ContentsStay, ZenonT(30)
  <2>3. writer' = [writer EXCEPT ![c] = "ok"] \/ writer' = [writer EXCEPT ![c] = "failing"]
    BY <1>9 DEF Footer, Fail
  <2>4. writer' \in [Call -> {"none", "receive", "footer", "failing", "ok", "error", "panic"}]
    BY <2>3 DEF OutputShape
  <2>5. UNCHANGED << path, caller, read, channel, sender, cause, result >>
    BY <1>9 DEF Footer
  <2> QED
    BY <2>2, <2>4, <2>5 DEF OutputShape
<1>10. CASE Cleanup(c)
  <2>1. channel' = [channel EXCEPT ![c] = << >>]
    BY <1>10 DEF Cleanup
  <2>2. channel' \in [Call -> Seq(Nat)]
    BY <2>1, <1>0, ChannelStays, ZenonT(30)
  <2>3. writer' = [writer EXCEPT ![c] = "error"] \/ writer' = [writer EXCEPT ![c] = "panic"]
    BY <1>10 DEF Cleanup
  <2>4. writer' \in [Call -> {"none", "receive", "footer", "failing", "ok", "error", "panic"}]
    BY <2>3 DEF OutputShape
  <2>5. path' = None /\ UNCHANGED << contents, caller, read, sender, cause, result >>
    BY <1>10 DEF Cleanup
  <2> QED
    BY <2>2, <2>4, <2>5 DEF OutputShape
<1> QED
  BY <1>1, <1>2, <1>3, <1>4, <1>5, <1>6, <1>7, <1>8, <1>9, <1>10 DEF Caller, Writer

\* The two verdicts of a finished writer.
LEMMA RowsAgree ==
  ASSUME OutputParams, OutputInv, NEW c \in Call, caller[c] = "join", writer[c] = "ok"
  PROVE  Len(contents[c].rows) = read[c]
<1>1. contents[c].rows = Upto(NBatches) /\ read[c] = NBatches
  BY DEF OutputInv, CallInv, WholeInv, PlaceInv
<1>2. NBatches \in Nat
  BY DEF OutputParams
<1> QED
  BY <1>1, <1>2, UptoAppend

PathMoves(c) ==
  \/ path' = path /\ (Owns(c)' <=> Owns(c))
  \/ path = None /\ path' = c /\ Owns(c)'
  \/ /\ path = c /\ path' = None /\ ~Owns(c)'
     /\ writer[c] = "failing" \/ caller[c] = "spawn"

LEMMA PathStep ==
  ASSUME OutputParams, OutputInv, NEW c \in Call, Caller(c) \/ Writer(c)
  PROVE  PathMoves(c)
<1> USE DEF PathMoves, Owns, OutputShape
<1>1. OutputShape /\ (path = c <=> Owns(c)) /\ PlaceInv(c)
  BY DEF OutputInv, PathInv, CallInv
<1>2. CASE CreateOutput(c)
  BY <1>1, <1>2 DEF CreateOutput, Go, Return, PlaceInv
<1>3. CASE Spawn(c)
  BY <1>1, <1>3 DEF Spawn, Go, Return, PlaceInv
<1>4. CASE Score(c)
  BY <1>1, <1>4 DEF Score, Go
<1>5. CASE Send(c)
  BY <1>1, <1>5 DEF Send, Go
<1>6. CASE SendFinish(c)
  BY <1>1, <1>6 DEF SendFinish, Go
<1>7. CASE Cancel(c)
  BY <1>1, <1>7 DEF Cancel, Go, Return
<1>8. CASE JoinWriter(c)
  BY <1>1, <1>8, RowsAgree DEF JoinWriter, Go, Return
<1>9. CASE Receive(c)
  BY <1>1, <1>9 DEF Receive, Fail
<1>10. CASE Footer(c)
  BY <1>1, <1>10 DEF Footer, Fail
<1>11. CASE Cleanup(c)
  BY <1>1, <1>11 DEF Cleanup, PlaceInv
<1> QED
  BY <1>2, <1>3, <1>4, <1>5, <1>6, <1>7, <1>8, <1>9, <1>10, <1>11 DEF Caller, Writer

LEMMA PathInvStep ==
  ASSUME OutputParams, OutputInv, NEW c \in Call, Caller(c) \/ Writer(c)
  PROVE  PathInv'
<1> SUFFICES ASSUME NEW d \in Call PROVE path' = d <=> Owns(d)'
  BY DEF PathInv
<1>1. /\ path = d <=> Owns(d)
      /\ path = c <=> Owns(c)
      /\ None # c /\ None # d
  BY DEF OutputInv, PathInv, OutputParams
<1>2. CASE d = c
  BY <1>1, <1>2, PathStep DEF PathMoves
<1>3. CASE d # c
  <2>1. Owns(d)' <=> Owns(d)
    BY <1>3, OthersStay DEF OutputInv, Untouched, Owns
  <2> QED
    BY <1>1, <1>3, <2>1, PathStep DEF PathMoves
<1> QED
  BY <1>2, <1>3

\* The caller's steps, as the invariant of its call sees them.
LEMMA CallerStep ==
  ASSUME OutputParams, OutputInv, NEW c \in Call, Caller(c)
  PROVE  CallInv(c)'
<1>0. UNCHANGED contents[c] => UNCHANGED Rows(c)
  BY DEF Rows
<1>1. OutputShape /\ PlaceInv(c) /\ FlowInv(c) /\ WholeInv(c) /\ NBatches \in Nat
  BY DEF OutputInv, CallInv, OutputParams
<1>2. /\ channel[c] \in Seq(Nat) /\ Len(channel[c]) \in Nat
      /\ Rows(c) \in Nat /\ read[c] \in Nat /\ read[c] <= NBatches
  <2>1. contents[c] \in [rows : Seq(Nat), footer : BOOLEAN]
    BY <1>1 DEF OutputShape
  <2>2. channel[c] \in Seq(Nat) /\ read[c] \in 0..NBatches
    BY <1>1 DEF OutputShape
  <2>3. contents[c].rows \in Seq(Nat)
    BY <2>1
  <2>4. Rows(c) \in Nat /\ Len(channel[c]) \in Nat
    BY <2>2, <2>3 DEF Rows
  <2>5. read[c] \in Nat /\ read[c] <= NBatches
    BY <1>1, <2>2
  <2> QED
    BY <2>2, <2>4, <2>5
<1> USE DEF CallInv
<1>3. CASE CreateOutput(c)
  <2>1. \/ caller'[c] = "spawn" /\ result' = result
        \/ caller'[c] = "returned" /\ result'[c] = "exists"
    BY <1>1, <1>3 DEF CreateOutput, Go, Return, OutputShape
  <2>2. UNCHANGED << contents[c], read[c], channel[c], writer[c], cause[c] >>
          /\ caller[c] = "create"
    BY <1>3 DEF CreateOutput
  <2> QED
    BY <1>1, <2>1, <2>2 DEF PlaceInv, FlowInv, WholeInv
<1>4. CASE Spawn(c)
  <2>1. \/ caller'[c] = "score" /\ result' = result /\ writer'[c] = "receive"
        \/ caller'[c] = "returned" /\ result'[c] = "spawn" /\ writer' = writer
    BY <1>1, <1>4 DEF Spawn, Go, Return, OutputShape
  <2>2. UNCHANGED << contents[c], read[c], channel[c], cause[c] >> /\ caller[c] = "spawn"
    BY <1>4 DEF Spawn
  <2>3. contents[c].rows = << >> /\ channel[c] = << >> /\ read[c] = 0 /\ writer[c] = "none"
    BY <1>1, <2>2 DEF PlaceInv
  <2>4. PlaceInv(c)' /\ WholeInv(c)'
    BY <1>1, <2>1, <2>2, <2>3 DEF PlaceInv, WholeInv
  <2>5. FlowInv(c)'
    <3>1. Rows(c)' = 0 /\ InOrder(contents[c].rows)'
      BY <2>2, <2>3 DEF Rows, InOrder, Upto
    <3>2. Follows(channel[c], Rows(c))' /\ Len(channel'[c]) = 0
      BY <2>2, <2>3 DEF Follows
    <3> QED
      BY <2>1, <2>2, <2>3, <3>1, <3>2 DEF FlowInv
  <2> QED
    BY <2>4, <2>5
<1>5. CASE Score(c)
  <2>1. /\ UNCHANGED << contents[c], channel[c], writer[c], result[c] >> /\ caller[c] = "score"
        /\ writer[c] \notin {"none", "footer", "ok"} /\ result[c] = ""
    BY <1>1, <1>5 DEF Score, PlaceInv
  <2>2. CASE caller'[c] = "send" /\ read'[c] = read[c] + 1
    <3>0. read'[c] > 0 /\ read'[c] - 1 = read[c]
      BY <1>2, <2>2
    <3>1. PlaceInv(c)' /\ WholeInv(c)'
      BY <2>1, <2>2, <3>0 DEF PlaceInv, WholeInv
    <3>2. FlowInv(c)'
      BY <1>0, <1>1, <2>1, <2>2, <3>0 DEF FlowInv
    <3> QED
      BY <3>1, <3>2
  <2>3. CASE caller'[c] = "finish" /\ read[c] = NBatches /\ read' = read
    <3>1. PlaceInv(c)' /\ WholeInv(c)'
      BY <2>1, <2>3 DEF PlaceInv, WholeInv
    <3>2. FlowInv(c)'
      BY <1>0, <1>1, <2>1, <2>3 DEF FlowInv
    <3> QED
      BY <3>1, <3>2
  <2>4. CASE caller'[c] = "cancelled" /\ read' = read /\ cause'[c] = "input"
    <3>1. PlaceInv(c)' /\ WholeInv(c)'
      BY <2>1, <2>4 DEF PlaceInv, WholeInv
    <3>2. FlowInv(c)'
      BY <1>0, <1>1, <2>1, <2>4 DEF FlowInv
    <3> QED
      BY <3>1, <3>2
  <2> QED
    BY <1>1, <1>5, <2>2, <2>3, <2>4 DEF Score, Go, OutputShape
<1>6. CASE Send(c)
  <2>1. \/ /\ writer[c] \in Ended /\ caller'[c] = "cancelled" /\ cause'[c] = "writer"
           /\ channel' = channel
        \/ /\ caller'[c] = "score" /\ cause' = cause
           /\ channel'[c] = Append(channel[c], read[c])
    BY <1>1, <1>6 DEF Send, Go, ReceiverGone, OutputShape
  <2>2. UNCHANGED << contents[c], read[c], writer[c], result[c] >> /\ caller[c] = "send"
    BY <1>6 DEF Send
  <2>3. PlaceInv(c)' /\ WholeInv(c)'
    BY <1>1, <1>2, <2>1, <2>2 DEF PlaceInv, WholeInv
  <2>4. FlowInv(c)'
    <3>1. CASE writer[c] \in Ended
      BY <2>2, <3>1 DEF FlowInv, Ended
    <3>2. CASE channel'[c] = Append(channel[c], read[c]) /\ caller'[c] = "score"
            /\ writer[c] = "receive"
      <4>1. /\ InOrder(contents[c].rows)
            /\ Follows(channel[c], Rows(c))
            /\ Rows(c) + Len(channel[c]) = read[c] - 1
        BY <1>1, <2>2, <3>2 DEF FlowInv
      <4>2. read[c] = IF Rows(c) + Len(channel[c]) + 1 <= NBatches
                      THEN Rows(c) + Len(channel[c]) + 1 ELSE Finish
        BY <1>2, <4>1
      <4>3. /\ Follows(channel'[c], Rows(c))
            /\ Len(channel'[c]) = Len(channel[c]) + 1
        <5>1. channel[c] \in Seq(Nat) /\ Rows(c) \in Nat
          BY <1>2
        <5>2. /\ Follows(Append(channel[c], read[c]), Rows(c))
              /\ Len(Append(channel[c], read[c])) = Len(channel[c]) + 1
          BY <4>1, <4>2, <5>1, FollowsAppend
        <5> QED
          BY <3>2, <5>2
      <4>4. Rows(c) + Len(channel'[c]) = read[c]
        <5>1. Rows(c) \in Nat /\ Len(channel[c]) \in Nat /\ read[c] \in Nat
          BY <1>2, <1>0
        <5>2. Rows(c) + Len(channel[c]) = read[c] - 1
          BY <4>1
        <5>3. Len(channel'[c]) = Len(channel[c]) + 1
          BY <4>3
        <5> QED
          BY <5>1, <5>2, <5>3
      <4> QED
        BY <1>0, <2>2, <3>2, <4>1, <4>3, <4>4 DEF FlowInv
    <3> QED
      BY <2>1, <2>2, <3>1, <3>2 DEF FlowInv
  <2> QED
    BY <2>3, <2>4
<1>7. CASE SendFinish(c)
  <2>1. /\ caller[c] = "finish" /\ caller'[c] = "join"
        /\ channel'[c] = IF writer[c] \in Ended THEN << >> ELSE Append(channel[c], Finish)
    BY <1>1, <1>7 DEF SendFinish, Go, ReceiverGone, OutputShape
  <2>2. UNCHANGED << contents[c], read[c], writer[c], cause[c], result[c] >>
    BY <1>7 DEF SendFinish
  <2>3. PlaceInv(c)' /\ WholeInv(c)'
    BY <1>1, <2>1, <2>2 DEF PlaceInv, WholeInv
  <2>4. FlowInv(c)'
    <3>1. CASE writer[c] = "receive"
      <4>0. channel'[c] = Append(channel[c], Finish)
        BY <2>1, <3>1 DEF Ended
      <4>1. /\ InOrder(contents[c].rows)
            /\ Follows(channel[c], Rows(c))
            /\ Rows(c) + Len(channel[c]) = NBatches
        BY <1>1, <2>1, <3>1 DEF FlowInv, PlaceInv
      <4>2. ~(Rows(c) + Len(channel[c]) + 1 <= NBatches)
        BY <1>1, <1>2, <4>1
      <4>3. /\ Follows(channel'[c], Rows(c))
            /\ Len(channel'[c]) = Len(channel[c]) + 1
        BY <1>2, <4>0, <4>1, <4>2, FollowsAppend
      <4>4. Rows(c) + Len(channel'[c]) = NBatches + 1
        BY <1>1, <1>2, <4>1, <4>3
      <4> QED
        BY <1>0, <2>1, <2>2, <3>1, <4>1, <4>3, <4>4 DEF FlowInv
    <3> QED
      BY <2>2, <3>1 DEF FlowInv
  <2> QED
    BY <2>3, <2>4
<1>8. CASE Cancel(c)
  <2>1. /\ caller[c] = "cancelled" /\ writer[c] \in Failed /\ caller'[c] = "returned"
        /\ result'[c] = IF cause[c] = "writer" THEN WriterVerdict(c) ELSE "input"
    BY <1>1, <1>8 DEF Cancel, Go, Return, OutputShape, PlaceInv, Ended, Failed
  <2>2. UNCHANGED << contents[c], read[c], channel[c], writer[c], cause[c] >>
    BY <1>8 DEF Cancel
  <2>3. WriterVerdict(c) \in {"writer", "panic"} /\ cause[c] \in {"input", "writer"}
    BY <1>1, <2>1 DEF WriterVerdict, Failed, PlaceInv
  <2> QED
    BY <1>1, <2>1, <2>2, <2>3 DEF PlaceInv, FlowInv, WholeInv, Failed
<1>9. CASE JoinWriter(c)
  <2>1. /\ caller[c] = "join" /\ writer[c] \in Ended /\ caller'[c] = "returned"
        /\ result'[c] = IF writer[c] = "ok" THEN "ok" ELSE WriterVerdict(c)
    BY <1>1, <1>9, RowsAgree DEF JoinWriter, Go, Return, OutputShape
  <2>2. UNCHANGED << contents[c], read[c], channel[c], writer[c], cause[c] >>
    BY <1>9 DEF JoinWriter
  <2>3. writer[c] # "ok" => WriterVerdict(c) \in {"writer", "panic"} /\ writer[c] \in Failed
    BY <2>1 DEF WriterVerdict, Failed, Ended
  <2> QED
    BY <1>1, <2>1, <2>2, <2>3 DEF PlaceInv, FlowInv, WholeInv, Ended, Failed
<1> QED
  BY <1>3, <1>4, <1>5, <1>6, <1>7, <1>8, <1>9 DEF Caller

\* The writer's.
LEMMA WriterStep ==
  ASSUME OutputParams, OutputInv, NEW c \in Call, Writer(c)
  PROVE  CallInv(c)'
<1>0. UNCHANGED contents[c] => UNCHANGED Rows(c)
  BY DEF Rows
<1>1. OutputShape /\ PlaceInv(c) /\ FlowInv(c) /\ WholeInv(c) /\ NBatches \in Nat
  BY DEF OutputInv, CallInv, OutputParams
<1>2. /\ contents[c] \in [rows : Seq(Nat), footer : BOOLEAN] /\ channel[c] \in Seq(Nat)
      /\ read[c] \in 0..NBatches /\ Rows(c) \in Nat /\ Len(channel[c]) \in Nat
  <2>1. /\ contents[c] \in [rows : Seq(Nat), footer : BOOLEAN] /\ channel[c] \in Seq(Nat)
        /\ read[c] \in 0..NBatches
    BY <1>1 DEF OutputShape
  <2>2. contents[c].rows \in Seq(Nat)
    BY <2>1
  <2>3. Rows(c) \in Nat /\ Len(channel[c]) \in Nat
    BY <2>1, <2>2 DEF Rows
  <2> QED
    BY <2>1, <2>3
<1>3. UNCHANGED << caller[c], read[c], cause[c], result[c] >>
  BY DEF Writer, Receive, Footer, Cleanup
<1> USE DEF CallInv
<1>4. CASE /\ writer[c] \in {"receive", "footer", "failing"}
           /\ writer'[c] \in {"failing", "error", "panic"}
  <2>1. PlaceInv(c)'
    BY <1>1, <1>3, <1>4 DEF PlaceInv, Failed
  <2>2. FlowInv(c)' /\ WholeInv(c)'
    BY <1>4 DEF FlowInv, WholeInv
  <2> QED
    BY <2>1, <2>2
<1>5. CASE Receive(c)
  <2>1. \/ /\ channel[c] # << >> /\ Head(channel[c]) # Finish /\ writer' = writer
           /\ channel'[c] = Tail(channel[c]) /\ contents'[c] = Written(c)
        \/ /\ channel[c] # << >> /\ Head(channel[c]) = Finish /\ writer'[c] = "footer"
           /\ channel'[c] = Tail(channel[c]) /\ contents' = contents
        \/ writer'[c] = "failing"
    BY <1>1, <1>5 DEF Receive, Fail, OutputShape, Written
  <2>2. writer[c] = "receive"
    BY <1>5 DEF Receive
  <2>3. /\ InOrder(contents[c].rows) /\ Follows(channel[c], Rows(c))
        /\ Rows(c) + Len(channel[c]) =
             IF caller[c] = "join" THEN NBatches + 1
             ELSE IF caller[c] = "send" THEN read[c] - 1 ELSE read[c]
    BY <1>1, <2>2 DEF FlowInv
  <2>4. channel[c] # << >> =>
          /\ Follows(Tail(channel[c]), Rows(c) + 1) /\ Len(Tail(channel[c])) = Len(channel[c]) - 1
          /\ Head(channel[c]) = IF Rows(c) + 1 <= NBatches THEN Rows(c) + 1 ELSE Finish
    BY <1>2, <2>3, FollowsTail
  <2>5. CASE /\ channel[c] # << >> /\ Head(channel[c]) # Finish /\ writer' = writer
             /\ channel'[c] = Tail(channel[c]) /\ contents'[c] = Written(c)
    <3>1. contents[c].rows = Upto(Rows(c)) /\ Head(channel[c]) = Rows(c) + 1
      BY <2>3, <2>4, <2>5 DEF InOrder, Rows
    <3>2. contents'[c].rows = Upto(Rows(c) + 1)
      BY <1>2, <2>5, <3>1, UptoAppend DEF Written
    <3>3. Rows(c)' = Rows(c) + 1
      <4>1. Rows(c)' = Len(contents'[c].rows)
        BY DEF Rows
      <4>2. Rows(c) + 1 \in Nat
        BY <1>2
      <4>3. Len(Upto(Rows(c) + 1)) = Rows(c) + 1
        BY <4>2, UptoAppend
      <4> QED
        BY <3>2, <4>1, <4>3
    <3>4. InOrder(contents[c].rows)'
      BY <3>2, <3>3 DEF InOrder, Rows
    <3>5. Follows(channel[c], Rows(c))'
      BY <2>4, <2>5, <3>3 DEF Follows
    <3>6. Rows(c)' + Len(channel'[c]) = Rows(c) + Len(channel[c])
      BY <1>2, <2>4, <2>5, <3>3
    <3>7. FlowInv(c)'
      BY <1>3, <2>3, <3>4, <3>5, <3>6 DEF FlowInv
    <3>8. PlaceInv(c)' /\ WholeInv(c)'
      BY <1>1, <1>3, <2>2, <2>5 DEF PlaceInv, WholeInv
    <3> QED
      BY <3>7, <3>8
  <2>6. CASE /\ channel[c] # << >> /\ Head(channel[c]) = Finish /\ writer'[c] = "footer"
             /\ channel'[c] = Tail(channel[c]) /\ contents' = contents
    <3>1. ~(Rows(c) + 1 <= NBatches)
      BY <1>2, <2>4, <2>6 DEF Finish
    <3>2. Len(channel[c]) # 0
      BY <1>2, <2>6
    <3>3. caller[c] = "join" /\ Rows(c) = NBatches
      BY <1>1, <1>2, <2>3, <3>1, <3>2
    <3>4. contents'[c].rows = Upto(NBatches)
      BY <2>3, <2>6, <3>3 DEF InOrder, Rows
    <3>5. PlaceInv(c)' /\ FlowInv(c)' /\ WholeInv(c)'
      BY <1>1, <1>3, <2>6, <3>3, <3>4 DEF PlaceInv, FlowInv, WholeInv
    <3> QED
      BY <3>5
  <2>7. CASE writer'[c] = "failing"
    BY <1>4, <2>2, <2>7
  <2> QED
    BY <2>1, <2>5, <2>6, <2>7
<1>6. CASE Footer(c)
  <2>1. /\ writer[c] = "footer"
        /\ \/ contents'[c] = [contents[c] EXCEPT !.footer = TRUE] /\ writer'[c] = "ok"
           \/ writer'[c] = "failing"
    BY <1>1, <1>6 DEF Footer, Fail, OutputShape
  <2>2. CASE contents'[c] = [contents[c] EXCEPT !.footer = TRUE] /\ writer'[c] = "ok"
    <3>1. contents'[c].rows = contents[c].rows /\ contents'[c].footer = TRUE
      BY <1>2, <2>2
    <3>2. PlaceInv(c)'
      BY <1>1, <1>3, <2>1, <2>2 DEF PlaceInv, Failed
    <3>3. FlowInv(c)'
      BY <2>2 DEF FlowInv
    <3>4. WholeInv(c)'
      <4>1. contents'[c].rows = Upto(NBatches)
        BY <1>1, <2>1, <3>1 DEF WholeInv
      <4>2. contents'[c].footer
        BY <3>1
      <4> QED
        BY <4>1, <4>2 DEF WholeInv
    <3> QED
      BY <3>2, <3>3, <3>4
  <2> QED
    BY <1>4, <2>1, <2>2
<1>7. CASE Cleanup(c)
  <2>1. writer[c] = "failing" /\ writer'[c] \in {"error", "panic"}
    BY <1>1, <1>7 DEF Cleanup, OutputShape
  <2> QED
    BY <1>4, <2>1
<1> QED
  BY <1>5, <1>6, <1>7 DEF Writer

LEMMA OutputStepInv == ASSUME OutputParams, OutputInv, [OutputNext]_output_vars PROVE OutputInv'
<1>1. ASSUME NEW c \in Call, Caller(c) \/ Writer(c) PROVE OutputInv'
  <2>1. ASSUME NEW d \in Call PROVE CallInv(d)'
    <3>1. CASE d = c
      BY <1>1, <3>1, CallerStep, WriterStep
    <3>2. CASE d # c
      BY <1>1, <3>2, OthersStay, UntouchedInv DEF OutputInv
    <3> QED
      BY <3>1, <3>2
  <2> QED
    BY <1>1, <2>1, ShapeStep, PathInvStep DEF OutputInv
<1>2. CASE UNCHANGED output_vars
  <2>1. OutputShape'
    BY <1>2 DEF OutputInv, OutputShape, output_vars
  <2>2. PathInv'
    BY <1>2 DEF OutputInv, PathInv, Owns, output_vars
  <2>3. ASSUME NEW d \in Call PROVE CallInv(d)'
    <3>1. Untouched(d)
      BY <1>2 DEF Untouched, output_vars
    <3> QED
      BY <3>1, UntouchedInv DEF OutputInv
  <2> QED
    BY <2>1, <2>2, <2>3 DEF OutputInv
<1> QED
  BY <1>1, <1>2 DEF OutputNext, Returned

LEMMA OutputInvariance == ASSUME OutputParams PROVE OutputSpec => []OutputInv
BY OutputInitInv, OutputStepInv, PTL DEF OutputSpec

\* A call that reports success has left a finished file with every batch once and in order
\* (predict_files_to_parquet).
THEOREM SuccessIsWhole == ASSUME OutputParams PROVE OutputSpec => []SuccessMeansWhole
<1>1. OutputInv => SuccessMeansWhole
  <2> SUFFICES ASSUME OutputInv, NEW c \in Call, result[c] = "ok"
               PROVE  path = c /\ contents[c] = [rows |-> AllBatches, footer |-> TRUE]
    BY DEF SuccessMeansWhole
  <2>1. OutputShape /\ PlaceInv(c) /\ WholeInv(c) /\ (path = c <=> Owns(c))
    BY DEF OutputInv, CallInv, PathInv
  <2>2. writer[c] = "ok"
    BY <2>1 DEF PlaceInv
  <2>3. contents[c].rows = AllBatches /\ contents[c].footer
    BY <2>1, <2>2 DEF WholeInv, AllBatches, Upto
  <2>4. contents[c] \in [rows : Seq(Nat), footer : BOOLEAN]
    BY <2>1 DEF OutputShape
  <2>5. contents[c].footer = TRUE
    BY <2>3, <2>4
  <2>6. contents[c] = [rows |-> AllBatches, footer |-> TRUE]
    BY <2>3, <2>4, <2>5
  <2> QED
    BY <2>1, <2>2, <2>6 DEF Owns
<1> QED
  BY OutputInvariance, <1>1, PTL

\* A call that reports any error has left no file of its own behind
\* (IncompletePredictionOutput).
THEOREM FailureIsClean == ASSUME OutputParams PROVE OutputSpec => []FailureLeavesNothing
<1>1. OutputInv => FailureLeavesNothing
  <2> SUFFICES ASSUME OutputInv, NEW c \in Call, result[c] \notin {"", "ok"} PROVE path # c
    BY DEF FailureLeavesNothing
  <2>1. PlaceInv(c) /\ (path = c <=> Owns(c))
    BY DEF OutputInv, CallInv, PathInv
  <2> QED
    BY <2>1 DEF PlaceInv, Owns, Failed
<1> QED
  BY OutputInvariance, <1>1, PTL

\* The row counts of the reader and the writer always agree, and an error is reported by
\* its cause (the joining of the writer thread).
THEOREM ErrorsHaveTheirNames == ASSUME OutputParams PROVE OutputSpec => []ErrorsAreNamed
<1>1. OutputInv => ErrorsAreNamed
  <2> SUFFICES ASSUME OutputInv, NEW c \in Call
               PROVE  /\ result[c] # "rows"
                      /\ result[c] = "input" => cause[c] = "input"
                      /\ result[c] \in {"writer", "panic"} => writer[c] \in {"error", "panic"}
    BY DEF ErrorsAreNamed
  <2>1. PlaceInv(c)
    BY DEF OutputInv, CallInv
  <2> QED
    BY <2>1 DEF PlaceInv, Failed
<1> QED
  BY OutputInvariance, <1>1, PTL

\* A call removes no file but its own, and replaces none: create_new and the removal in
\* IncompletePredictionOutput only ever meet the path of their own call.
THEOREM OthersAreSafe == ASSUME OutputParams PROVE OutputSpec => OthersUntouched
<1> DEFINE Own == path \notin {path', None} =>
       \E c \in Call : path = c /\ path' = None /\ (writer[c] = "failing" \/ caller[c] = "spawn")
<1>1. OutputInv /\ [OutputNext]_output_vars => [Own]_path
  <2> SUFFICES ASSUME OutputInv, [OutputNext]_output_vars, path \notin {path', None} PROVE Own
    OBVIOUS
  <2>1. PICK c \in Call : Caller(c) \/ Writer(c)
    BY DEF OutputNext, Returned, output_vars
  <2>2. path = c /\ path' = None /\ (writer[c] = "failing" \/ caller[c] = "spawn")
    BY <2>1, PathStep DEF PathMoves
  <2> QED
    BY <2>2
<1> QED
  BY OutputInvariance, <1>1, PTL DEF OutputSpec, OthersUntouched

\* What a call leaves at its path is a whole file or nothing, whatever its writer and the
\* other calls do.
THEOREM OutputsAreWholeOrGone == ASSUME OutputParams PROVE OutputSpec => OutputWholeOrGone
BY SuccessIsWhole, FailureIsClean, ErrorsHaveTheirNames, OthersAreSafe, PTL
DEF OutputWholeOrGone
=============================================================================
