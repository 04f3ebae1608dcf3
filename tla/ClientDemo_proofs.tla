--------------------------- MODULE ClientDemo_proofs ---------------------------
(***************************************************************************)
(* The demo client, for any number of images, any modulus degree and any   *)
(* interleaving of its callbacks: what an undisturbed callback computes is *)
(* right, and what crashes has a cause.                                    *)
(***************************************************************************)
EXTENDS ClientDemo, TLAPS

\* The remainders and quotients of a step's indices.
LEMMA StepOfIndex ==
    ASSUME NEW n \in Nat \ {0}, NEW j \in Nat, NEW s \in Nat, j \div n = s
    PROVE  s * n <= j /\ j < s * n + n
OBVIOUS

\* The quotient of an index, and its remainder when there is one step only.
LEMMA Quotients ==
    ASSUME NEW n \in Nat \ {0}, NEW j \in Nat
    PROVE  /\ j \div n \in Nat /\ j \div n <= j
           /\ j < n => j \div n = 0 /\ j % n = j
OBVIOUS

\* The first slot of a step is a natural number.
LEMMA Products ==
    ASSUME NEW n \in Nat, NEW s \in Nat
    PROVE  s * n \in Nat /\ 0 * n = 0
OBVIOUS

-----------------------------------------------------------------------------
(* The invariant *)

Phases == {"start", "load", "failed", "crashed", "bounds", "end", "encrypt",
           "send", "sleep", "join", "returned"}

\* Before the images are loaded, no query is sent.
Before == phase \in {"start", "load", "failed"}

Invoked == {"label", "copy", "accuracy", "done"}

Callback(p, l, b, r) == [pc |-> p, label |-> l, beg |-> b, rows |-> r]

IsCallback(c) ==
    \E p \in Invoked \cup {"none", "wait", "lost"}, l \in Nat, b \in Nat :
       c = Callback(p, l, b, c.rows)

DemoType ==
    /\ config \in Powers \cup {Missing}
    /\ dataset \in [images : ImageFiles, labels : LabelFiles]
    /\ phase \in Phases /\ step \in Nat
    /\ ImgCount \in 0 .. MaxImages
    /\ param \in [beg : Nat, end : Nat]
    /\ DOMAIN packed = Steps /\ packed = [s \in Steps |-> packed[s]]
    /\ cb = [s \in Steps |-> cb[s]] /\ \A s \in Steps : IsCallback(cb[s])

\* main: no callback runs before the images are loaded; then the bounds of
\* the step in work are in the parameter block, and no step is past the last.
MainInv ==
    /\ phase \in Phases \ {"start", "failed", "crashed"} => power \in Powers
    /\ Before => /\ step = 0 /\ param = [beg |-> 0, end |-> 0]
                 /\ \A s \in Steps : cb[s] = NoCallback
    /\ phase \in {"end", "encrypt", "send"} =>
          step < StepCount /\ param.beg = BegIdx(step)
    /\ phase \in {"encrypt", "send"} => param.end = EndIdx(step)

\* The images of the step in work and of those before it are packed.
PackedInv ==
    \A s \in Steps : s < step \/ (s = step /\ phase = "send") =>
       packed[s] = Slots(BegIdx(s), EndIdx(s))

\* The rows of an undisturbed callback are right up to the label in work.
RowsSoFar(s, c) ==
    \A j \in 0 .. ImgCount - 1 :
       /\ DOMAIN c.rows[j] = Labels
       /\ j \div SlotCount = s =>
             \A i \in Labels : i < c.label =>
                c.rows[j][i] = [image |-> j, label |-> i]

CallbackInv(s) ==
    /\ cb[s].pc # "none" => s < step
    /\ cb[s].pc \in Invoked /\ s \notin disturbed =>
          /\ RowsSoFar(s, cb[s])
          /\ cb[s].pc \in {"label", "copy"} => cb[s].label < NumLabels
          /\ cb[s].pc \in {"accuracy", "done"} => cb[s].label = NumLabels
          /\ cb[s].pc = "copy" => cb[s].beg = BegIdx(s)

\* With fewer images than slots there is one step, whose bounds are all that
\* a callback can find.
OneStepInv ==
    ImgCount # 0 /\ ImgCount < SlotCount =>
       /\ param.beg = 0 /\ param.end \in {0, ImgCount}
       /\ \A s \in Steps : cb[s].beg = 0

DemoInv ==
    /\ DemoType /\ MainInv /\ PackedInv
    /\ \A s \in Steps : CallbackInv(s)
    /\ OneStepInv /\ CrashHasACause

-----------------------------------------------------------------------------
(* Facts about the bounds *)

\* They depend on the keys and the containers only.
LEMMA SameBounds ==
    ASSUME power' = power, loaded' = loaded
    PROVE  /\ SlotCount' = SlotCount /\ ImgCount' = ImgCount
           /\ LblCount' = LblCount /\ StepCount' = StepCount
           /\ \A s : BegIdx(s)' = BegIdx(s) /\ EndIdx(s)' = EndIdx(s)
           /\ \A b, e : Slots(b, e)' = Slots(b, e)
           /\ \A s, c : RowsSoFar(s, c)' <=> RowsSoFar(s, c)
<1>1. SlotCount' = SlotCount /\ ImgCount' = ImgCount /\ LblCount' = LblCount
  BY DEF SlotCount, ImgCount, LblCount
<1>2. ImgCountInStep' = ImgCountInStep /\ StepCount' = StepCount
  BY <1>1 DEF ImgCountInStep, StepCount
<1>3. \A s : BegIdx(s)' = BegIdx(s) /\ EndIdx(s)' = EndIdx(s)
  BY <1>1, <1>2 DEF BegIdx, EndIdx
<1>4. \A b, e : Slots(b, e)' = Slots(b, e)
  BY <1>1 DEF Slots
<1>5. \A s, c : RowsSoFar(s, c)' <=> RowsSoFar(s, c)
  BY <1>1 DEF RowsSoFar
<1> QED
  BY <1>1, <1>2, <1>3, <1>4, <1>5

\* The numbers of slots and of images are numbers.
LEMMA BoundsType ==
    ASSUME DemoType, power \in Powers
    PROVE  /\ SlotCount \in Nat \ {0} /\ ImgCount \in Nat
           /\ ImgCountInStep \in Nat /\ StepCount \in Nat
           /\ ImgCountInStep <= SlotCount /\ ImgCountInStep <= ImgCount
           /\ \A s \in Nat : /\ BegIdx(s) \in Nat
                             /\ EndIdx(s) = BegIdx(s) + ImgCountInStep
<1>1. SlotCount \in Nat \ {0}
  BY DemoAssumption DEF SlotCount
<1>2. ImgCount \in Nat
  BY DemoAssumption DEF DemoType
<1>3. /\ ImgCountInStep \in Nat /\ ImgCountInStep <= SlotCount
      /\ ImgCountInStep <= ImgCount
  BY <1>1, <1>2 DEF ImgCountInStep
<1>4. StepCount \in Nat
  BY <1>1, <1>2, Quotients DEF StepCount
<1>5. \A s \in Nat : BegIdx(s) \in Nat
  BY <1>1, Products DEF BegIdx
<1> QED
  BY <1>1, <1>2, <1>3, <1>4, <1>5 DEF EndIdx

\* A step packs its own images: image j of step s is in slot j - BegIdx(s).
LEMMA OwnImages ==
    ASSUME DemoType, power \in Powers, NEW s \in Nat,
           NEW j \in 0 .. ImgCount - 1, j \div SlotCount = s
    PROVE  /\ BegIdx(s) <= j /\ j < EndIdx(s)
           /\ Slots(BegIdx(s), EndIdx(s))[j - BegIdx(s) + 1] = j
<1> DEFINE n == SlotCount
           beg == BegIdx(s)
           end == EndIdx(s)
<1>1. /\ n \in Nat \ {0} /\ ImgCount \in Nat /\ beg \in Nat
      /\ end = beg + ImgCountInStep /\ j \in Nat /\ j < ImgCount
  BY BoundsType DEF DemoType
<1>2. beg <= j /\ j < beg + n
  BY <1>1, StepOfIndex DEF BegIdx
<1>3. ImgCountInStep = IF n < ImgCount THEN n ELSE ImgCount
  BY DEF ImgCountInStep
<1>4. j < end
  BY <1>1, <1>2, <1>3
<1>5. j - beg + 1 \in 1 .. n /\ beg + (j - beg + 1) - 1 = j
  BY <1>1, <1>2
<1>6. j % ImgCount = j
  BY <1>1, Quotients
<1> HIDE DEF beg, end, n
<1>7. Slots(beg, end)[j - beg + 1] = j
  BY <1>1, <1>5, <1>6 DEF Slots, n
<1> QED
  BY <1>2, <1>4, <1>7 DEF beg, end

-----------------------------------------------------------------------------
(* Steps of main *)

\* A step that touches no callback keeps what is true of them.
LEMMA KeepCallbacks ==
    ASSUME power' = power, loaded' = loaded, cb' = cb,
           disturbed' = disturbed, step' = step,
           \A s \in Steps : CallbackInv(s)
    PROVE  \A s \in Steps : CallbackInv(s)'
<1>1. \A s, c : RowsSoFar(s, c)' <=> RowsSoFar(s, c)
  BY SameBounds
<1>2. \A s : BegIdx(s)' = BegIdx(s)
  BY SameBounds
<1> SUFFICES ASSUME NEW s \in Steps
             PROVE  CallbackInv(s)'
  OBVIOUS
<1>3. RowsSoFar(s, cb[s])' <=> RowsSoFar(s, cb[s])
  BY <1>1 DEF RowsSoFar, SlotCount, ImgCount
<1> QED
  BY <1>2, <1>3 DEF CallbackInv

\* Without a callback there is nothing to say of one.
LEMMA NoCallbackYet ==
    ASSUME \A s \in Steps : cb[s] = NoCallback
    PROVE  /\ \A s \in Steps : CallbackInv(s)
           /\ \A s \in Steps : IsCallback(cb[s]) /\ cb[s].beg = 0
<1>1. NoCallback = Callback("none", 0, 0, <<>>)
  BY DEF NoCallback, Callback
<1>2. IsCallback(NoCallback)
  <2>1. NoCallback = Callback("none", 0, 0, NoCallback.rows)
    BY <1>1 DEF Callback
  <2> QED
    BY <2>1 DEF IsCallback
<1>3. \A s \in Steps : cb[s].pc = "none" /\ cb[s].beg = 0
  BY DEF NoCallback
<1>4. \A s \in Steps : CallbackInv(s)
  BY <1>3 DEF CallbackInv, Invoked
<1> QED
  BY <1>2, <1>3, <1>4

\* Before main runs, no callback and no bounds exist.
LEMMA DemoInit == Init => DemoInv
<1> SUFFICES ASSUME Init PROVE DemoInv
  OBVIOUS
<1>1. \A s \in Steps : cb[s] = NoCallback
  BY DEF Init
<1>2. DemoType
  BY <1>1, NoCallbackYet, DemoAssumption DEF Init, DemoType, Phases, ImgCount
<1>3. MainInv
  BY <1>1 DEF Init, MainInv, Phases, Before
<1>4. PackedInv
  BY DEF Init, PackedInv, Steps
<1>5. OneStepInv /\ CrashHasACause
  BY DEF Init, OneStepInv, CrashHasACause, ImgCount
<1> QED
  BY <1>1, <1>2, <1>3, <1>4, <1>5, NoCallbackYet DEF DemoInv

\* init_keys draws the modulus degree and disturbs nobody.
LEMMA InitKeysKeeps ==
    ASSUME DemoInv, InitKeys
    PROVE  DemoInv'
<1>1. /\ phase = "start" /\ phase' \in {"failed", "load"}
      /\ loaded' = loaded /\ step' = step /\ param' = param
      /\ packed' = packed /\ cb' = cb /\ disturbed' = disturbed
      /\ config' = config /\ dataset' = dataset
  BY DEF InitKeys
<1>2. phase' = "load" => power' \in Powers
  BY DemoAssumption DEF InitKeys, DemoInv, DemoType
<1>3. step = 0 /\ param = [beg |-> 0, end |-> 0]
      /\ \A s \in Steps : cb[s] = NoCallback
  BY <1>1 DEF DemoInv, MainInv, Before
<1>4. DemoType'
  BY <1>1 DEF DemoInv, DemoType, Phases, ImgCount
<1>5. MainInv'
  BY <1>1, <1>2, <1>3 DEF MainInv, Before, Phases
<1>6. \A s \in Steps : CallbackInv(s)'
  BY <1>1, <1>3 DEF CallbackInv, NoCallback, Invoked
<1>7. PackedInv'
  BY <1>1, <1>3 DEF PackedInv, Steps
<1>8. OneStepInv'
  BY <1>1, <1>3 DEF OneStepInv, NoCallback, ImgCount
<1>9. CrashHasACause'
  BY <1>1 DEF CrashHasACause
<1> QED
  BY <1>4, <1>5, <1>6, <1>7, <1>8, <1>9 DEF DemoInv

\* Loading fixes the counts on which every later step depends.
LEMMA LoadImagesKeeps ==
    ASSUME DemoInv, LoadImages
    PROVE  DemoInv'
<1>1. /\ phase = "load" /\ phase' \in {"crashed", "bounds"}
      /\ phase' = "crashed" => loaded'.images = 0
      /\ power' = power /\ step' = step /\ param' = param
      /\ packed' = packed /\ cb' = cb /\ disturbed' = disturbed
      /\ config' = config /\ dataset' = dataset
  BY DEF LoadImages
<1>2. ImgCount' \in 0 .. MaxImages
  <2>1. dataset.images \in ImageFiles
    BY DEF DemoInv, DemoType
  <2>2. loaded'.images = ReadMnist(dataset.images, "images", 0)
    BY DEF LoadImages
  <2>3. Readable(dataset.images, "images") => dataset.images # Missing
    BY DEF Readable
  <2>4. loaded'.images \in 0 .. MaxImages
    BY <2>1, <2>2, <2>3, DemoAssumption DEF ReadMnist, Taken
  <2> QED
    BY <2>4 DEF ImgCount
<1>3. /\ power \in Powers /\ step = 0 /\ param = [beg |-> 0, end |-> 0]
      /\ \A s \in Steps : cb[s] = NoCallback
  BY <1>1 DEF DemoInv, MainInv, Before, Phases
<1>4. DemoType'
  BY <1>1, <1>2 DEF DemoInv, DemoType, Phases
<1>5. MainInv'
  BY <1>1, <1>3 DEF MainInv, Before, Phases
<1>6. \A s \in Steps : CallbackInv(s)'
  BY <1>1, <1>3 DEF CallbackInv, NoCallback, Invoked
<1>7. PackedInv'
  BY <1>1, <1>3 DEF PackedInv, Steps
<1>8. OneStepInv'
  BY <1>1, <1>3 DEF OneStepInv, NoCallback
<1>9. CrashHasACause'
  BY <1>1 DEF CrashHasACause, ImgCount
<1> QED
  BY <1>4, <1>5, <1>6, <1>7, <1>8, <1>9 DEF DemoInv

\* With fewer images than slots the only step is step 0, which begins at 0.
LEMMA OneStep ==
    ASSUME DemoType, power \in Powers, ImgCount # 0, ImgCount < SlotCount
    PROVE  /\ StepCount = 1 /\ BegIdx(0) = 0 /\ EndIdx(0) = ImgCount
<1>1. SlotCount \in Nat \ {0} /\ ImgCount \in Nat
  BY BoundsType
<1>2. ImgCount \div SlotCount = 0
  BY <1>1, Quotients
<1>3. BegIdx(0) = 0
  BY <1>1, Products DEF BegIdx
<1>4. ImgCountInStep = ImgCount
  BY <1>1 DEF ImgCountInStep
<1> QED
  BY <1>1, <1>2, <1>3, <1>4 DEF StepCount, EndIdx

\* main's first assignment to the shared bounds, for the next step.
LEMMA SetBegIdxKeeps ==
    ASSUME DemoInv, SetBegIdx
    PROVE  DemoInv'
<1>1. /\ phase = "bounds" /\ phase' = "end" /\ step < StepCount
      /\ power' = power /\ step' = step /\ loaded' = loaded
      /\ packed' = packed /\ cb' = cb /\ disturbed' = disturbed
      /\ config' = config /\ dataset' = dataset
  BY DEF SetBegIdx
<1>2. /\ power \in Powers /\ DemoType /\ step \in Nat
      /\ param \in [beg : Nat, end : Nat]
  BY <1>1 DEF DemoInv, DemoType, MainInv, Phases
<1>3. /\ param' \in [beg : Nat, end : Nat] /\ param'.beg = BegIdx(step)
      /\ param'.end = param.end
  <2>1. param' = [param EXCEPT !.beg = BegIdx(step)]
    BY DEF SetBegIdx
  <2>2. BegIdx(step) \in Nat
    BY <1>2, BoundsType
  <2> QED
    BY <1>2, <2>1, <2>2
<1>4. /\ StepCount' = StepCount /\ BegIdx(step)' = BegIdx(step')
      /\ SlotCount' = SlotCount /\ ImgCount' = ImgCount
      /\ \A s : BegIdx(s)' = BegIdx(s) /\ EndIdx(s)' = EndIdx(s)
      /\ \A b, e : Slots(b, e)' = Slots(b, e)
  BY <1>1, SameBounds DEF BegIdx, SlotCount
<1>5. DemoType'
  BY <1>1, <1>2, <1>3 DEF DemoType, Phases, ImgCount
<1>6. MainInv'
  BY <1>1, <1>2, <1>3, <1>4 DEF MainInv, Before
<1>7. \A s \in Steps : CallbackInv(s)'
  BY <1>1, KeepCallbacks DEF DemoInv
<1>8. PackedInv'
  BY <1>1, <1>4 DEF DemoInv, PackedInv
<1>9. OneStepInv'
  <2>1. ASSUME ImgCount # 0, ImgCount < SlotCount
        PROVE  param'.beg = 0
    <3>1. step = 0
      BY <1>1, <1>2, <2>1, OneStep
    <3> QED
      BY <1>2, <1>3, <2>1, <3>1, OneStep
  <2> QED
    BY <1>1, <1>3, <1>4, <2>1 DEF DemoInv, OneStepInv
<1>10. CrashHasACause'
  BY <1>1 DEF CrashHasACause
<1> QED
  BY <1>5, <1>6, <1>7, <1>8, <1>9, <1>10 DEF DemoInv

\* main's second one, after which the bounds are those of that step.
LEMMA SetEndIdxKeeps ==
    ASSUME DemoInv, SetEndIdx
    PROVE  DemoInv'
<1>1. /\ phase = "end" /\ phase' = "encrypt"
      /\ power' = power /\ step' = step /\ loaded' = loaded
      /\ packed' = packed /\ cb' = cb /\ disturbed' = disturbed
      /\ config' = config /\ dataset' = dataset
  BY DEF SetEndIdx
<1>2. /\ power \in Powers /\ DemoType /\ step \in Nat /\ step < StepCount
      /\ param \in [beg : Nat, end : Nat] /\ param.beg = BegIdx(step)
  BY <1>1 DEF DemoInv, DemoType, MainInv, Phases
<1>3. /\ param' \in [beg : Nat, end : Nat] /\ param'.end = EndIdx(step)
      /\ param'.beg = param.beg
  <2>1. param' = [param EXCEPT !.end = EndIdx(step)]
    BY DEF SetEndIdx
  <2>2. EndIdx(step) \in Nat
    BY <1>2, BoundsType
  <2> QED
    BY <1>2, <2>1, <2>2
<1>4. /\ StepCount' = StepCount /\ BegIdx(step)' = BegIdx(step')
      /\ EndIdx(step)' = EndIdx(step')
      /\ SlotCount' = SlotCount /\ ImgCount' = ImgCount
      /\ \A s : BegIdx(s)' = BegIdx(s) /\ EndIdx(s)' = EndIdx(s)
      /\ \A b, e : Slots(b, e)' = Slots(b, e)
  BY <1>1, SameBounds DEF BegIdx, EndIdx, ImgCountInStep, ImgCount, SlotCount
<1>5. DemoType'
  BY <1>1, <1>2, <1>3 DEF DemoType, Phases, ImgCount
<1>6. MainInv'
  BY <1>1, <1>2, <1>3, <1>4 DEF MainInv, Before
<1>7. \A s \in Steps : CallbackInv(s)'
  BY <1>1, KeepCallbacks DEF DemoInv
<1>8. PackedInv'
  BY <1>1, <1>4 DEF DemoInv, PackedInv
<1>9. OneStepInv'
  <2>1. ASSUME ImgCount # 0, ImgCount < SlotCount
        PROVE  param'.end = ImgCount
    <3>1. step = 0
      BY <1>2, <2>1, OneStep
    <3> QED
      BY <1>2, <1>3, <2>1, <3>1, OneStep
  <2> QED
    BY <1>1, <1>3, <1>4, <2>1 DEF DemoInv, OneStepInv
<1>10. CrashHasACause'
  BY <1>1 DEF CrashHasACause
<1> QED
  BY <1>5, <1>6, <1>7, <1>8, <1>9, <1>10 DEF DemoInv

\* What main packs for a step is that step's images, or it crashes.
LEMMA EncryptKeeps ==
    ASSUME DemoInv, Encrypt
    PROVE  DemoInv'
<1>1. /\ phase = "encrypt" /\ phase' \in {"crashed", "send"}
      /\ power' = power /\ step' = step /\ loaded' = loaded
      /\ param' = param /\ cb' = cb /\ disturbed' = disturbed
      /\ config' = config /\ dataset' = dataset
  BY DEF Encrypt, Crash
<1>2. /\ power \in Powers /\ DemoType /\ step \in Nat /\ step < StepCount
      /\ param.beg = BegIdx(step) /\ param.end = EndIdx(step)
  BY <1>1 DEF DemoInv, DemoType, MainInv, Phases
<1>3. /\ SlotCount \in Nat \ {0} /\ ImgCount \in Nat /\ StepCount \in Nat
      /\ ImgCountInStep \in Nat /\ ImgCountInStep <= ImgCount
      /\ BegIdx(step) \in Nat /\ EndIdx(step) = BegIdx(step) + ImgCountInStep
  BY <1>2, BoundsType
<1>4. /\ StepCount' = StepCount /\ SlotCount' = SlotCount
      /\ BegIdx(step)' = BegIdx(step') /\ EndIdx(step)' = EndIdx(step')
      /\ ImgCount' = ImgCount
      /\ \A s : BegIdx(s)' = BegIdx(s) /\ EndIdx(s)' = EndIdx(s)
      /\ \A b, e : Slots(b, e)' = Slots(b, e)
  BY <1>1, SameBounds DEF BegIdx, EndIdx, ImgCountInStep, ImgCount, SlotCount
<1>5. /\ DOMAIN packed' = Steps /\ packed' = [s \in Steps |-> packed'[s]]
      /\ \A s \in Steps : s # step => packed'[s] = packed[s]
      /\ step \in Steps /\ phase' = "send" =>
            packed'[step] = Slots(BegIdx(step), EndIdx(step))
  BY <1>2 DEF DemoType, Encrypt, Crash
<1>6. DemoType'
  BY <1>1, <1>2, <1>5 DEF DemoType, Phases, ImgCount
<1>7. MainInv'
  BY <1>1, <1>2, <1>4 DEF MainInv, Before
<1>8. \A s \in Steps : CallbackInv(s)'
  BY <1>1, KeepCallbacks DEF DemoInv
<1>9. PackedInv'
  <2> SUFFICES ASSUME NEW s \in Steps,
                      s < step \/ (s = step /\ phase' = "send")
               PROVE  packed'[s] = Slots(BegIdx(s), EndIdx(s))
    BY <1>1, <1>4 DEF PackedInv
  <2>1. CASE s < step
    <3>1. s # step /\ packed[s] = Slots(BegIdx(s), EndIdx(s))
      BY <1>2, <2>1 DEF DemoInv, PackedInv, Steps
    <3> QED
      BY <1>5, <3>1
  <2>2. CASE s = step /\ phase' = "send"
    BY <1>5, <2>2
  <2> QED
    BY <2>1, <2>2
<1>10. OneStepInv'
  BY <1>1, <1>4 DEF DemoInv, OneStepInv
<1>11. CrashHasACause'
  <2>1. ASSUME phase' = "crashed"
        PROVE  ImgCount = 0 \/ ImgCount >= SlotCount
    <3>1. ImgCount = 0 \/ EndIdx(step) - BegIdx(step) >= SlotCount
      BY <2>1 DEF Encrypt, Crash
    <3> QED
      BY <1>3, <3>1
  <2> QED
    BY <1>4, <2>1 DEF CrashHasACause
<1> QED
  BY <1>6, <1>7, <1>8, <1>9, <1>10, <1>11 DEF DemoInv

\* A callback that is not invoked yet, or never will be.
Idle == {"none", "wait", "lost"}

\* What main does to the callbacks it has not lost sight of: it adds one for
\* the step it has sent, and gives up those whose results are not there.
LEMMA MainKeeps ==
    ASSUME DemoInv, power' = power, loaded' = loaded, param' = param,
           packed' = packed, disturbed' = disturbed, config' = config,
           dataset' = dataset, phase \in {"bounds", "send", "sleep", "join"},
           phase' \in {"bounds", "sleep", "join", "returned"},
           step' \in Nat, step <= step', phase = "send" \/ step' = step,
           step' <= step + 1,
           cb' = [s \in Steps |-> cb'[s]],
           \A s \in Steps :
              \/ cb'[s] = cb[s]
              \/ /\ cb[s].pc \in Idle /\ s < step'
                 /\ \E p \in Idle : cb'[s] = [cb[s] EXCEPT !.pc = p]
    PROVE  DemoInv'
<1>1. /\ DemoType /\ MainInv /\ PackedInv /\ OneStepInv
      /\ \A s \in Steps : CallbackInv(s)
  BY DEF DemoInv
<1>2. /\ SlotCount' = SlotCount /\ ImgCount' = ImgCount
      /\ \A s : BegIdx(s)' = BegIdx(s) /\ EndIdx(s)' = EndIdx(s)
      /\ \A b, e : Slots(b, e)' = Slots(b, e)
      /\ \A s, c : RowsSoFar(s, c)' <=> RowsSoFar(s, c)
  BY SameBounds
<1>3. ASSUME NEW s \in Steps
      PROVE  /\ IsCallback(cb'[s]) /\ cb'[s].beg = cb[s].beg
             /\ CallbackInv(s)'
  <2>1. CASE cb'[s] = cb[s]
    <3>1. IsCallback(cb'[s]) /\ cb'[s].beg = cb[s].beg
      BY <1>1, <2>1 DEF DemoType
    <3>2. RowsSoFar(s, cb[s])' <=> RowsSoFar(s, cb[s])
      BY <1>2, <2>1 DEF RowsSoFar
    <3>3. cb[s].pc # "none" => s < step'
      BY <1>1 DEF CallbackInv, Steps, DemoType
    <3> QED
      BY <1>1, <1>2, <2>1, <3>1, <3>2, <3>3 DEF CallbackInv
  <2>2. CASE /\ cb[s].pc \in Idle /\ s < step'
             /\ \E p \in Idle : cb'[s] = [cb[s] EXCEPT !.pc = p]
    <3>1. PICK p \in Idle : cb'[s] = [cb[s] EXCEPT !.pc = p]
      BY <2>2
    <3>2. PICK q \in Invoked \cup Idle, l \in Nat, b \in Nat,
               r \in {cb[s].rows} :
             cb[s] = Callback(q, l, b, r)
      <4>1. IsCallback(cb[s])
        BY <1>1 DEF DemoType
      <4> QED
        BY <4>1 DEF IsCallback, Idle
    <3>3. cb'[s] = Callback(p, l, b, r)
      BY <3>1, <3>2 DEF Callback
    <3>4. IsCallback(cb'[s])
      <4>1. p \in Invoked \cup {"none", "wait", "lost"}
        BY DEF Idle
      <4>2. cb'[s] = Callback(p, l, b, cb'[s].rows)
        BY <3>3 DEF Callback
      <4> QED
        BY <4>1, <4>2, Zenon DEF IsCallback
    <3>5. cb'[s].beg = cb[s].beg /\ cb'[s].pc \in Idle
      BY <3>2, <3>3 DEF Callback
    <3>6. CallbackInv(s)'
      BY <2>2, <3>5 DEF CallbackInv, Idle, Invoked
    <3> QED
      BY <3>4, <3>5, <3>6
  <2> QED
    BY <2>1, <2>2
<1>4. DemoType'
  BY <1>1, <1>3 DEF DemoType, Phases, ImgCount
<1>5. MainInv'
  <2>1. power \in Powers
    BY <1>1 DEF MainInv, Phases
  <2> QED
    BY <2>1 DEF MainInv, Before, Phases
<1>6. PackedInv'
  BY <1>1, <1>2 DEF PackedInv, Steps, DemoType
<1>7. OneStepInv'
  BY <1>1, <1>2, <1>3 DEF OneStepInv
<1>8. CrashHasACause'
  BY DEF CrashHasACause
<1> QED
  BY <1>3, <1>4, <1>5, <1>6, <1>7, <1>8 DEF DemoInv

\* The step whose query is sent gets a callback, still waiting.
LEMMA SendQueryKeeps ==
    ASSUME DemoInv, SendQuery
    PROVE  DemoInv'
<1>1. /\ power' = power /\ loaded' = loaded /\ param' = param
      /\ packed' = packed /\ disturbed' = disturbed /\ config' = config
      /\ dataset' = dataset /\ phase = "send" /\ phase' = "bounds"
      /\ step' = step + 1
  BY DEF SendQuery
<1>2. /\ step \in Nat /\ cb = [s \in Steps |-> cb[s]]
      /\ \A s \in Steps : CallbackInv(s)
  BY DEF DemoInv, DemoType
<1>3. cb' = [cb EXCEPT ![step].pc = "wait"]
  BY DEF SendQuery
<1>4. cb' = [s \in Steps |-> cb'[s]]
  BY <1>2, <1>3
<1>5. ASSUME NEW s \in Steps
      PROVE  \/ cb'[s] = cb[s]
             \/ /\ cb[s].pc \in Idle /\ s < step'
                /\ \E p \in Idle : cb'[s] = [cb[s] EXCEPT !.pc = p]
  <2>1. CASE s # step
    BY <1>2, <1>3, <2>1
  <2>2. CASE s = step
    <3>1. cb'[s] = [cb[s] EXCEPT !.pc = "wait"]
      BY <1>2, <1>3, <2>2
    <3>2. cb[s].pc = "none"
      BY <1>2, <2>2 DEF CallbackInv
    <3> QED
      BY <1>1, <1>2, <2>2, <3>1, <3>2 DEF Idle
  <2> QED
    BY <2>1, <2>2
<1> QED
  BY <1>1, <1>2, <1>4, <1>5, MainKeeps

\* The sleep, the disconnection and the return invoke no callback.
LEMMA WaitingKeeps ==
    ASSUME DemoInv, Sleep \/ Disconnect \/ Return
    PROVE  DemoInv'
<1>1. /\ power' = power /\ loaded' = loaded /\ param' = param
      /\ packed' = packed /\ disturbed' = disturbed /\ config' = config
      /\ dataset' = dataset /\ phase \in {"bounds", "sleep", "join"}
      /\ phase' \in {"sleep", "join", "returned"} /\ step' = step
  BY DEF Sleep, Disconnect, Return
<1>2. /\ step \in Nat /\ cb = [s \in Steps |-> cb[s]]
      /\ \A s \in Steps : CallbackInv(s)
  BY DEF DemoInv, DemoType
<1>3. /\ cb' = [s \in Steps |-> cb'[s]]
      /\ \A s \in Steps :
            \/ cb'[s] = cb[s]
            \/ /\ cb[s].pc \in Idle /\ s < step'
               /\ \E p \in Idle : cb'[s] = [cb[s] EXCEPT !.pc = p]
  <2>1. CASE Sleep \/ Return
    BY <1>2, <2>1 DEF Sleep, Return
  <2>2. CASE Disconnect
    <3>1. cb' = [s \in Steps |-> IF cb[s].pc = "wait"
                                 THEN [cb[s] EXCEPT !.pc = "lost"] ELSE cb[s]]
      BY <2>2 DEF Disconnect
    <3>2. ASSUME NEW s \in Steps, cb[s].pc = "wait"
          PROVE  /\ cb[s].pc \in Idle /\ s < step'
                 /\ cb'[s] = [cb[s] EXCEPT !.pc = "lost"] /\ "lost" \in Idle
      BY <1>1, <1>2, <3>1, <3>2 DEF CallbackInv, Idle
    <3>3. ASSUME NEW s \in Steps, cb[s].pc # "wait"
          PROVE  cb'[s] = cb[s]
      BY <3>1, <3>3
    <3> QED
      BY <3>1, <3>2, <3>3
  <2> QED
    BY <2>1, <2>2
<1> QED
  BY <1>1, <1>2, <1>3, MainKeeps

-----------------------------------------------------------------------------
(* Steps of a callback *)

\* A step of callback s concerns no other, and main not at all.
LEMMA CallbackKeeps ==
    ASSUME DemoInv, NEW s \in Steps,
           NEW p \in Invoked, NEW l \in Nat, NEW b \in Nat, NEW r,
           cb' = [cb EXCEPT ![s] = Callback(p, l, b, r)],
           config' = config, dataset' = dataset, power' = power,
           loaded' = loaded, step' = step, param' = param, packed' = packed,
           phase' = phase, phase # "crashed",
           disturbed' \in {disturbed, disturbed \cup {s}},
           cb[s].pc # "none",
           b \in {0, cb[s].beg, param.beg},
           s \notin disturbed' =>
              /\ RowsSoFar(s, Callback(p, l, b, r))
              /\ p \in {"label", "copy"} => l < NumLabels
              /\ p \in {"accuracy", "done"} => l = NumLabels
              /\ p = "copy" => b = BegIdx(s)
    PROVE  DemoInv'
<1>1. /\ DemoType /\ MainInv /\ PackedInv /\ OneStepInv
      /\ \A t \in Steps : CallbackInv(t)
  BY DEF DemoInv
<1>2. /\ SlotCount' = SlotCount /\ ImgCount' = ImgCount
      /\ LblCount' = LblCount /\ StepCount' = StepCount
      /\ \A t : BegIdx(t)' = BegIdx(t) /\ EndIdx(t)' = EndIdx(t)
      /\ \A x, y : Slots(x, y)' = Slots(x, y)
      /\ \A t, c : RowsSoFar(t, c)' <=> RowsSoFar(t, c)
      /\ BegIdx(step)' = BegIdx(step) /\ EndIdx(step)' = EndIdx(step)
  BY SameBounds DEF BegIdx, EndIdx, ImgCountInStep, ImgCount, SlotCount
<1> DEFINE c == Callback(p, l, b, r)
<1>3. c.pc = p /\ c.label = l /\ c.beg = b /\ c.rows = r
  BY DEF Callback
<1>4. IsCallback(c)
  <2>1. p \in Invoked \cup {"none", "wait", "lost"}
    OBVIOUS
  <2>2. c = Callback(p, l, b, c.rows)
    BY <1>3 DEF Callback
  <2> QED
    BY <2>1, <2>2, Zenon DEF IsCallback
<1> HIDE DEF c
<1>5. /\ cb' = [t \in Steps |-> IF t = s THEN c ELSE cb[t]]
      /\ s < step /\ ~Before
  <2>1. cb = [t \in Steps |-> cb[t]]
    BY <1>1 DEF DemoType
  <2>2. s < step
    BY <1>1 DEF CallbackInv
  <2>3. ~Before
    BY <1>1, <2>2 DEF MainInv, Steps
  <2> QED
    BY <2>1, <2>2, <2>3 DEF c
<1>6. DemoType'
  BY <1>1, <1>4, <1>5 DEF DemoType, ImgCount
<1>7. MainInv'
  BY <1>1, <1>2, <1>5 DEF MainInv, Before
<1>8. PackedInv'
  BY <1>1, <1>2 DEF PackedInv
<1>9. ASSUME NEW t \in Steps
      PROVE  CallbackInv(t)'
  <2>1. CASE t = s
    <3>1. cb'[s] = c
      BY <1>5
    <3>2. RowsSoFar(s, cb[s])' <=> RowsSoFar(s, c)
      BY <1>2, <3>1 DEF RowsSoFar
    <3> QED
      BY <1>2, <1>3, <1>5, <2>1, <3>1, <3>2 DEF CallbackInv, c
  <2>2. CASE t # s
    <3>1. cb'[t] = cb[t] /\ (t \notin disturbed' => t \notin disturbed)
      BY <1>5, <2>2
    <3>2. RowsSoFar(t, cb[t])' <=> RowsSoFar(t, cb[t])
      BY <1>2, <3>1 DEF RowsSoFar
    <3> QED
      BY <1>1, <1>2, <3>1, <3>2 DEF CallbackInv
  <2> QED
    BY <2>1, <2>2
<1>10. OneStepInv'
  BY <1>1, <1>2, <1>3, <1>5 DEF OneStepInv
<1>11. CrashHasACause'
  BY DEF CrashHasACause
<1> QED
  BY <1>6, <1>7, <1>8, <1>9, <1>10, <1>11 DEF DemoInv

\* Where the program crashes, all that remains to be shown is the cause.
LEMMA CrashKeeps ==
    ASSUME DemoInv, phase' = "crashed", config' = config, dataset' = dataset,
           power' = power, loaded' = loaded, step' = step, param' = param,
           packed' = packed, cb' = cb, disturbed \subseteq disturbed',
           CrashHasACause'
    PROVE  DemoInv'
<1>1. /\ DemoType /\ MainInv /\ PackedInv /\ OneStepInv
      /\ \A s \in Steps : CallbackInv(s)
  BY DEF DemoInv
<1>2. /\ SlotCount' = SlotCount /\ ImgCount' = ImgCount
      /\ \A t : BegIdx(t)' = BegIdx(t) /\ EndIdx(t)' = EndIdx(t)
      /\ \A x, y : Slots(x, y)' = Slots(x, y)
      /\ \A t, c : RowsSoFar(t, c)' <=> RowsSoFar(t, c)
  BY SameBounds
<1>3. DemoType'
  BY <1>1 DEF DemoType, Phases, ImgCount
<1>4. MainInv'
  BY DEF MainInv, Before
<1>5. PackedInv'
  BY <1>1, <1>2 DEF PackedInv
<1>6. ASSUME NEW s \in Steps
      PROVE  CallbackInv(s)'
  <2>1. RowsSoFar(s, cb[s])' <=> RowsSoFar(s, cb[s])
    BY <1>2 DEF RowsSoFar
  <2> QED
    BY <1>1, <1>2, <2>1 DEF CallbackInv
<1>7. OneStepInv'
  BY <1>1, <1>2 DEF OneStepInv
<1> QED
  BY <1>3, <1>4, <1>5, <1>6, <1>7 DEF DemoInv

\* A callback starts with empty rows and the first label.
LEMMA InvokeKeeps ==
    ASSUME DemoInv, NEW s \in Steps, Invoke(s)
    PROVE  DemoInv'
<1> DEFINE r == [j \in 0 .. ImgCount - 1 |-> [i \in Labels |-> Zero]]
<1>1. cb' = [cb EXCEPT ![s] = Callback("label", 0, 0, r)]
  BY DEF Invoke, Callback
<1>2. /\ config' = config /\ dataset' = dataset /\ power' = power
      /\ loaded' = loaded /\ step' = step /\ param' = param
      /\ packed' = packed /\ phase' = phase /\ phase # "crashed"
      /\ disturbed' = disturbed /\ cb[s].pc # "none"
  BY DEF Invoke, Runs
<1>3. RowsSoFar(s, Callback("label", 0, 0, r))
  BY DEF RowsSoFar, Callback, Labels
<1>4. "label" \in Invoked /\ 0 < NumLabels
  BY DemoAssumption DEF Invoked
<1> HIDE DEF r
<1> QED
  BY <1>1, <1>2, <1>3, <1>4, CallbackKeeps

\* A callback that reads its own step's bounds stays undisturbed.
LEMMA ReadBegIdxKeeps ==
    ASSUME DemoInv, NEW s \in Steps, ReadBegIdx(s)
    PROVE  DemoInv'
<1>1. /\ config' = config /\ dataset' = dataset /\ power' = power
      /\ loaded' = loaded /\ step' = step /\ param' = param
      /\ packed' = packed /\ phase' = phase /\ phase # "crashed"
      /\ cb[s].pc = "label"
      /\ disturbed' = IF param = Own(s) THEN disturbed ELSE disturbed \cup {s}
  BY DEF ReadBegIdx, Runs, Note
<1>2. /\ param \in [beg : Nat, end : Nat] /\ cb = [t \in Steps |-> cb[t]]
      /\ CallbackInv(s) /\ IsCallback(cb[s])
  BY DEF DemoInv, DemoType
<1>3. PICK p \in Invoked \cup Idle, l \in Nat, b \in Nat, r \in {cb[s].rows} :
         cb[s] = Callback(p, l, b, r)
  BY <1>2 DEF IsCallback, Idle
<1>4. cb' = [cb EXCEPT ![s].beg = param.beg, ![s].pc = "copy"]
  BY DEF ReadBegIdx
<1>5. cb' = [cb EXCEPT ![s] = Callback("copy", l, param.beg, r)]
  <2> DEFINE g == [cb EXCEPT ![s].beg = param.beg]
  <2>1. [cb[s] EXCEPT !.beg = param.beg] = Callback(p, l, param.beg, r)
    BY <1>3 DEF Callback
  <2>2. g = [t \in Steps |-> IF t = s THEN Callback(p, l, param.beg, r)
                             ELSE cb[t]]
    BY <1>2, <2>1
  <2>3. cb' = [g EXCEPT ![s].pc = "copy"]
    BY <1>4
  <2> HIDE DEF g
  <2>4. [g[s] EXCEPT !.pc = "copy"] = Callback("copy", l, param.beg, r)
    BY <2>2 DEF Callback
  <2>5. cb' = [t \in Steps |-> IF t = s THEN Callback("copy", l, param.beg, r)
                               ELSE cb[t]]
    BY <2>2, <2>3, <2>4
  <2> QED
    BY <1>2, <2>5
<1>6. cb[s].label = l /\ cb[s].rows = r
  BY <1>3 DEF Callback
<1>7. ASSUME s \notin disturbed'
      PROVE  /\ RowsSoFar(s, Callback("copy", l, param.beg, r))
             /\ l < NumLabels /\ param.beg = BegIdx(s)
  <2>1. s \notin disturbed /\ param = Own(s)
    BY <1>1, <1>7
  <2>2. RowsSoFar(s, cb[s]) /\ cb[s].label < NumLabels
    BY <1>1, <1>2, <2>1 DEF CallbackInv, Invoked
  <2>3. RowsSoFar(s, Callback("copy", l, param.beg, r))
    BY <1>3, <2>2 DEF RowsSoFar, Callback
  <2>4. param.beg = BegIdx(s)
    BY <2>1 DEF Own
  <2> QED
    BY <1>6, <2>2, <2>3, <2>4
<1>8. "copy" \in Invoked /\ param.beg \in Nat
  BY <1>2 DEF Invoked
<1>9. disturbed' \in {disturbed, disturbed \cup {s}}
  BY <1>1
<1> QED
  BY <1>1, <1>5, <1>7, <1>8, <1>9, CallbackKeeps

\* What is copied for a label, into the rows from beg up to end.
Copied(r, images, beg, end, i) ==
    [j \in 0 .. ImgCount - 1 |->
        IF beg <= j /\ j < end
        THEN [r[j] EXCEPT ![i] = [image |-> images[j - beg + 1], label |-> i]]
        ELSE r[j]]

\* With the bounds of its own step a callback copies its own images' scores.
LEMMA CopiesItsOwn ==
    ASSUME DemoType, power \in Powers, NEW s \in Nat, NEW l \in Labels,
           NEW p, NEW q, NEW b, NEW r,
           RowsSoFar(s, Callback(p, l, b, r))
    PROVE  RowsSoFar(s, Callback(q, l + 1, b,
              Copied(r, Slots(BegIdx(s), EndIdx(s)), BegIdx(s), EndIdx(s), l)))
<1> DEFINE beg == BegIdx(s)
           end == EndIdx(s)
           images == Slots(beg, end)
           copy == Copied(r, images, beg, end, l)
<1>1. \A j \in 0 .. ImgCount - 1 :
         /\ DOMAIN r[j] = Labels
         /\ j \div SlotCount = s =>
               \A i \in Labels : i < l => r[j][i] = [image |-> j, label |-> i]
  BY DEF RowsSoFar, Callback
<1>2. \A j \in 0 .. ImgCount - 1 : j \div SlotCount = s =>
         beg <= j /\ j < end /\ images[j - beg + 1] = j
  BY OwnImages
<1> HIDE DEF beg, end, images
<1>3. ASSUME NEW j \in 0 .. ImgCount - 1
      PROVE  /\ DOMAIN copy[j] = Labels
             /\ j \div SlotCount = s =>
                   \A i \in Labels : i < l + 1 =>
                      copy[j][i] = [image |-> j, label |-> i]
  <2>1. copy[j] = IF beg <= j /\ j < end
                  THEN [r[j] EXCEPT ![l] = [image |-> images[j - beg + 1],
                                            label |-> l]]
                  ELSE r[j]
    BY DEF Copied
  <2> HIDE DEF copy
  <2>2. DOMAIN copy[j] = Labels
    BY <1>1, <2>1
  <2>3. ASSUME j \div SlotCount = s, NEW i \in Labels, i < l + 1
        PROVE  copy[j][i] = [image |-> j, label |-> i]
    <3>1. copy[j] = [r[j] EXCEPT ![l] = [image |-> j, label |-> l]]
      BY <1>2, <2>1, <2>3
    <3>2. i = l \/ i < l
      BY <2>3 DEF Labels
    <3> QED
      BY <1>1, <2>3, <3>1, <3>2
  <2> QED
    BY <2>2, <2>3
<1> HIDE DEF copy
<1> QED
  BY <1>3 DEF RowsSoFar, Callback, copy, beg, end, images

\* Copying a label's scores extends the rows by that label, or crashes.
LEMMA CopyScoresKeeps ==
    ASSUME DemoInv, NEW s \in Steps, CopyScores(s)
    PROVE  DemoInv'
<1>1. /\ config' = config /\ dataset' = dataset /\ power' = power
      /\ loaded' = loaded /\ step' = step /\ param' = param
      /\ packed' = packed /\ phase # "crashed" /\ cb[s].pc = "copy"
      /\ disturbed' = IF param = Own(s) THEN disturbed ELSE disturbed \cup {s}
  BY DEF CopyScores, Runs, Note
<1>2. /\ DemoType /\ CallbackInv(s) /\ IsCallback(cb[s]) /\ s \in Nat
      /\ cb = [t \in Steps |-> cb[t]] /\ step \in Nat
      /\ MainInv /\ PackedInv /\ OneStepInv
  BY DEF DemoInv, DemoType, Steps
<1>3. s < step /\ power \in Powers
  <2>1. s < step
    BY <1>1, <1>2 DEF CallbackInv
  <2>2. phase \in Phases \ {"start", "failed", "crashed"}
    BY <1>1, <1>2, <2>1 DEF MainInv, Before, DemoType
  <2> QED
    BY <1>2, <2>1, <2>2 DEF MainInv
<1>4. PICK p \in Invoked \cup Idle, l \in Nat, b \in Nat, r \in {cb[s].rows} :
         cb[s] = Callback(p, l, b, r)
  BY <1>2 DEF IsCallback, Idle
<1>5. cb[s].label = l /\ cb[s].rows = r /\ cb[s].beg = b
  BY <1>4 DEF Callback
<1> DEFINE end == param.end
           copy == Copied(r, packed[s], b, end, l)
           q == IF l + 1 = NumLabels THEN "accuracy" ELSE "label"
<1>6. CASE end > ImgCount \/ end - b > SlotCount
  <2>1. phase' = "crashed" /\ cb' = cb
    BY <1>5, <1>6 DEF CopyScores, Crash
  <2>2. ImgCount = 0 \/ ImgCount >= SlotCount
    <3>1. SUFFICES ASSUME ImgCount # 0, ImgCount < SlotCount
                   PROVE  FALSE
      BY <1>2, <1>3, BoundsType
    <3>2. end \in {0, ImgCount} /\ b = 0
      BY <1>2, <1>5, <3>1 DEF OneStepInv
    <3>3. SlotCount \in Nat \ {0} /\ ImgCount \in Nat
      BY <1>2, <1>3, BoundsType
    <3> QED
      BY <1>6, <3>1, <3>2, <3>3
  <2>3. CrashHasACause'
    BY <1>1, <2>2, SameBounds DEF CrashHasACause
  <2>4. disturbed \subseteq disturbed'
    BY <1>1
  <2> QED
    BY <1>1, <2>1, <2>3, <2>4, CrashKeeps
<1>7. CASE ~(end > ImgCount \/ end - b > SlotCount)
  <2>1. /\ phase' = phase
        /\ cb' = [cb EXCEPT ![s].rows = copy, ![s].label = l + 1,
                            ![s].pc = q]
    BY <1>5, <1>7 DEF CopyScores, Copied
  <2> HIDE DEF copy, q
  <2>2. cb' = [cb EXCEPT ![s] = Callback(q, l + 1, b, copy)]
    <3> DEFINE g == [cb EXCEPT ![s].rows = copy]
               h == [g EXCEPT ![s].label = l + 1]
    <3>1. [cb[s] EXCEPT !.rows = copy] = Callback(p, l, b, copy)
      BY <1>4 DEF Callback
    <3>2. g = [t \in Steps |-> IF t = s THEN Callback(p, l, b, copy)
                               ELSE cb[t]]
      BY <1>2, <3>1
    <3>3. cb' = [h EXCEPT ![s].pc = q]
      BY <2>1
    <3> HIDE DEF g
    <3>4. [g[s] EXCEPT !.label = l + 1] = Callback(p, l + 1, b, copy)
      BY <3>2 DEF Callback
    <3>5. h = [t \in Steps |-> IF t = s THEN Callback(p, l + 1, b, copy)
                               ELSE cb[t]]
      BY <3>2, <3>4
    <3> HIDE DEF h
    <3>6. [h[s] EXCEPT !.pc = q] = Callback(q, l + 1, b, copy)
      BY <3>5 DEF Callback
    <3>7. cb' = [t \in Steps |-> IF t = s THEN Callback(q, l + 1, b, copy)
                                 ELSE cb[t]]
      BY <3>3, <3>5, <3>6
    <3> QED
      BY <1>2, <3>7
  <2>3. q \in {"accuracy", "label"} /\ q \in Invoked
    BY DEF q, Invoked
  <2>4. ASSUME s \notin disturbed'
        PROVE  /\ RowsSoFar(s, Callback(q, l + 1, b, copy))
               /\ q \in {"label", "copy"} => l + 1 < NumLabels
               /\ q \in {"accuracy", "done"} => l + 1 = NumLabels
               /\ q = "copy" => b = BegIdx(s)
    <3>1. s \notin disturbed /\ param = Own(s)
      BY <1>1, <2>4
    <3>2. RowsSoFar(s, cb[s]) /\ l < NumLabels /\ b = BegIdx(s)
      BY <1>1, <1>2, <1>5, <3>1 DEF CallbackInv, Invoked
    <3>3. packed[s] = Slots(BegIdx(s), EndIdx(s)) /\ end = EndIdx(s)
      BY <1>2, <1>3, <3>1 DEF PackedInv, Own
    <3>4. l \in Labels
      BY <3>2, DemoAssumption DEF Labels
    <3>5. RowsSoFar(s, Callback(p, l, b, r))
      BY <1>4, <3>2
    <3>6. RowsSoFar(s, Callback(q, l + 1, b, copy))
      BY <1>2, <1>3, <3>2, <3>3, <3>4, <3>5, CopiesItsOwn DEF copy
    <3>7. l + 1 = NumLabels \/ l + 1 < NumLabels
      BY <3>2, DemoAssumption
    <3> QED
      BY <3>6, <3>7 DEF q
  <2>5. /\ disturbed' \in {disturbed, disturbed \cup {s}} /\ l + 1 \in Nat
        /\ b \in {0, cb[s].beg, param.beg} /\ cb[s].pc # "none"
        /\ phase' = phase
    BY <1>1, <1>5, <2>1
  <2> HIDE DEF end
  <2> QED
    BY <1>1, <2>2, <2>3, <2>4, <2>5, CallbackKeeps
<1> QED
  BY <1>6, <1>7

\* Accuracy changes no row, or runs out of labels and crashes.
LEMMA AccuracyKeeps ==
    ASSUME DemoInv, NEW s \in Steps, Accuracy(s)
    PROVE  DemoInv'
<1>1. /\ config' = config /\ dataset' = dataset /\ power' = power
      /\ loaded' = loaded /\ step' = step /\ param' = param
      /\ packed' = packed /\ phase # "crashed" /\ cb[s].pc = "accuracy"
      /\ disturbed' = disturbed
  BY DEF Accuracy, Runs
<1>2. CASE LblCount < ImgCount
  <2>1. phase' = "crashed" /\ cb' = cb
    BY <1>2 DEF Accuracy, Crash
  <2>2. CrashHasACause'
    BY <1>1, <1>2, SameBounds DEF CrashHasACause
  <2> QED
    BY <1>1, <2>1, <2>2, CrashKeeps
<1>3. CASE ~(LblCount < ImgCount)
  <2>1. phase' = phase /\ cb' = [cb EXCEPT ![s].pc = "done"]
    BY <1>3 DEF Accuracy
  <2>2. /\ CallbackInv(s) /\ IsCallback(cb[s]) /\ cb = [t \in Steps |-> cb[t]]
    BY DEF DemoInv, DemoType
  <2>3. PICK p \in Invoked \cup Idle, l \in Nat, b \in Nat, r \in {cb[s].rows} :
           cb[s] = Callback(p, l, b, r)
    BY <2>2 DEF IsCallback, Idle
  <2>4. cb[s].label = l /\ cb[s].rows = r /\ cb[s].beg = b
    BY <2>3 DEF Callback
  <2>5. cb' = [cb EXCEPT ![s] = Callback("done", l, b, r)]
    <3>1. [cb[s] EXCEPT !.pc = "done"] = Callback("done", l, b, r)
      BY <2>3 DEF Callback
    <3>2. cb' = [t \in Steps |-> IF t = s THEN Callback("done", l, b, r)
                                 ELSE cb[t]]
      BY <2>1, <2>2, <3>1
    <3> QED
      BY <2>2, <3>2
  <2>6. ASSUME s \notin disturbed'
        PROVE  /\ RowsSoFar(s, Callback("done", l, b, r))
               /\ "done" \in {"label", "copy"} => l < NumLabels
               /\ "done" \in {"accuracy", "done"} => l = NumLabels
               /\ "done" = "copy" => b = BegIdx(s)
    <3>1. RowsSoFar(s, cb[s]) /\ l = NumLabels
      BY <1>1, <2>2, <2>4, <2>6 DEF CallbackInv, Invoked
    <3> QED
      BY <2>3, <3>1 DEF RowsSoFar, Callback
  <2>7. /\ "done" \in Invoked /\ b \in {0, cb[s].beg, param.beg}
        /\ cb[s].pc # "none" /\ phase' = phase
        /\ disturbed' \in {disturbed, disturbed \cup {s}}
    BY <1>1, <2>1, <2>4 DEF Invoked
  <2> QED
    BY <1>1, <2>5, <2>6, <2>7, CallbackKeeps
<1> QED
  BY <1>2, <1>3

-----------------------------------------------------------------------------
\* The invariant holds in every interleaving of main and the callbacks.
THEOREM DemoInvHolds == Spec => []DemoInv
<1>1. DemoInv /\ [Next]_vars => DemoInv'
  <2> SUFFICES ASSUME DemoInv, [Next]_vars PROVE DemoInv'
    OBVIOUS
  <2>1. CASE InitKeys
    BY <2>1, InitKeysKeeps
  <2>2. CASE LoadImages
    BY <2>2, LoadImagesKeeps
  <2>3. CASE SetBegIdx
    BY <2>3, SetBegIdxKeeps
  <2>4. CASE SetEndIdx
    BY <2>4, SetEndIdxKeeps
  <2>5. CASE Encrypt
    BY <2>5, EncryptKeeps
  <2>6. CASE SendQuery
    BY <2>6, SendQueryKeeps
  <2>7. CASE Sleep \/ Disconnect \/ Return
    BY <2>7, WaitingKeeps
  <2>8. ASSUME NEW s \in Steps, CallbackStep(s)
        PROVE  DemoInv'
    BY <2>8, InvokeKeeps, ReadBegIdxKeeps, CopyScoresKeeps, AccuracyKeeps
       DEF CallbackStep
  <2>9. CASE UNCHANGED vars
    <3>1. /\ \A s, c : RowsSoFar(s, c)' <=> RowsSoFar(s, c)
          /\ \A s : BegIdx(s)' = BegIdx(s) /\ EndIdx(s)' = EndIdx(s)
          /\ \A b, e : Slots(b, e)' = Slots(b, e)
          /\ SlotCount' = SlotCount /\ ImgCount' = ImgCount
          /\ LblCount' = LblCount /\ StepCount' = StepCount
          /\ BegIdx(step)' = BegIdx(step) /\ EndIdx(step)' = EndIdx(step)
      BY <2>9, SameBounds
         DEF vars, BegIdx, EndIdx, ImgCountInStep, ImgCount, SlotCount
    <3>2. \A s \in Steps : CallbackInv(s)'
      BY <2>9, KeepCallbacks DEF vars, DemoInv
    <3>3. DemoType' /\ MainInv'
      BY <2>9, <3>1 DEF DemoInv, DemoType, MainInv, Before, vars
    <3>4. PackedInv' /\ OneStepInv' /\ CrashHasACause'
      BY <2>9, <3>1 DEF DemoInv, PackedInv, OneStepInv, CrashHasACause, vars
    <3> QED
      BY <3>2, <3>3, <3>4 DEF DemoInv
  <2> QED
    BY <2>1, <2>2, <2>3, <2>4, <2>5, <2>6, <2>7, <2>8, <2>9
       DEF Next, MainStep
<1> QED
  BY <1>1, DemoInit, PTL DEF Spec

\* With fewer images than slots and a label for each of them, no callback and
\* no step of main reads past a container, in whatever order they run.
THEOREM CrashHasACauseHolds == Spec => []CrashHasACause
<1>1. DemoInv => CrashHasACause
  BY DEF DemoInv
<1> QED
  BY <1>1, DemoInvHolds, PTL

\* Whatever the other callbacks and main do meanwhile, a callback that finds
\* its own step's bounds gives each image of its step that image's scores.
THEOREM UndisturbedRowsAreRightHolds == Spec => []UndisturbedRowsAreRight
<1>1. DemoInv => UndisturbedRowsAreRight
  <2> SUFFICES ASSUME DemoInv, NEW s \in Steps, Done(s), s \notin disturbed,
                      NEW j \in 0 .. ImgCount - 1, j \div SlotCount = s
               PROVE  OwnScores(cb[s].rows[j], j)
    BY DEF UndisturbedRowsAreRight
  <2>1. RowsSoFar(s, cb[s]) /\ cb[s].label = NumLabels
    BY DEF DemoInv, CallbackInv, Done, Invoked
  <2>2. \A i \in Labels : i < NumLabels
    BY DemoAssumption DEF Labels
  <2> QED
    BY <2>1, <2>2 DEF RowsSoFar, OwnScores
<1> QED
  BY <1>1, DemoInvHolds, PTL
=============================================================================
