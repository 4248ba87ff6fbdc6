---------------------------- MODULE ProviderProofs ----------------------------
(***************************************************************************)
(* What is proved of the two ways this code meets a model provider.        *)
(*                                                                         *)
(* InlineCompletion: type correctness, and that the provider in use is     *)
(* the one the settings and the key describe, for any number of requests   *)
(* and of settings changed while _initProvider waits for the key.          *)
(* ProviderIsCurrent is about the moments with no _initProvider under way. *)
(* Two facts carry it there.  Inits finish in the order they started, so   *)
(* the last one that waits read the type that is set now (LastIsCurrent);  *)
(* and since every change of the settings drops the provider, whatever     *)
(* provider there is was made from the settings as they are, which then    *)
(* make one again (MadeFromSettings): that is why the early return for a   *)
(* missing key or model leaves nothing old behind.                         *)
(*                                                                         *)
(* ModelStream: that what a caller hears of an answer is the answer, for   *)
(* answers of any length, tools with any number of pieces of input, chunks *)
(* of any size and an odd line anywhere.  The invariant says where the     *)
(* reader is (StreamInv): it took the first q lines of the events, and its *)
(* buffer and the wire together are the fragments of the lines it has not  *)
(* read, after the broken line it put back, if any (At).  What it told is  *)
(* then a function of q (Going): the blocks before the one under way, and  *)
(* of that one the part its lines so far make up (Within).  Four steps     *)
(* lead there: the split of a chunk finds the complete lines wherever the  *)
(* network cut the stream (ScanFragments); one line of a block keeps       *)
(* Within (BlockStep); the loop over a chunk's lines keeps At (ChunkStep); *)
(* every action keeps StreamInv (StreamInvNext).                           *)
(***************************************************************************)
EXTENDS InlineCompletion, ModelStream, SubsequencesProofs, SequenceTheorems

-----------------------------------------------------------------------------
(* ------------------------ the provider in use -------------------------- *)

LastIsCurrent ==
    \A i \in Gets :
        (\A j \in Gets : j <= i) => queue[i].apiType = settings.apiType

MadeFromSettings ==
    provider # None =>
        /\ provider.modelId = settings.modelId
        /\ provider.apiBase = settings.apiBase
        /\ settings.modelId # None
        /\ Key(secret, settings) # None

ModelInv ==
    /\ ModelTypeOK
    /\ LastIsCurrent
    /\ MadeFromSettings
    /\ ProviderIsCurrent

\* A write of one setting is a setting of the right kind.
LEMMA WrittenType ==
    ASSUME NEW s \in Settings, NEW e \in Edit
    PROVE  [s EXCEPT ![e.name] = e.value] \in Settings
BY DEF Settings, Edit

\* The settings that a provider is made of.
LEMMA MadeType ==
    ASSUME NEW s \in Settings, NEW type \in ApiTypes,
           NEW key \in Keys \cup {None}
    PROVE  /\ Made(type, key, s) \in Provider \cup {None}
           /\ Made(type, key, s) # None <=> key # None /\ s.modelId # None
           /\ Made(type, key, s) # None =>
                  /\ Made(type, key, s).apiType = type
                  /\ Made(type, key, s).modelId = s.modelId
                  /\ Made(type, key, s).apiBase = s.apiBase
BY NoneIsNoValue DEF Made, Provider, Settings

LEMMA KeyType ==
    ASSUME NEW s \in Settings, NEW stored \in Keys \cup {None}
    PROVE  /\ Key(stored, s) \in Keys \cup {None}
           /\ Key(stored, s) # None <=> stored # None \/ s.apiKey # None
BY NoneIsNoValue DEF Key, Settings

\* A change of the settings.
LEMMA ChangedKeeps ==
    ASSUME ModelInv, NEW s \in Settings, Changed(s),
           UNCHANGED <<secret, lastKey>>
    PROVE  /\ settings' \in Settings
           /\ provider' \in Provider \cup {None}
           /\ queue' \in Seq(Queued)
           /\ LastIsCurrent'
           /\ MadeFromSettings'
           /\ ProviderIsCurrent'
<1>1. CASE s = settings
  BY <1>1 DEF ModelInv, ModelTypeOK, Changed, LastIsCurrent, MadeFromSettings,
       ProviderIsCurrent, Gets, Made, Key
<1>2. CASE s # settings
  <2>1. queue' = Append(queue, Get(s.apiType)) /\ provider' = None
    BY <1>2 DEF Changed
  <2>2. settings' = s /\ Get(s.apiType) \in Queued
    BY DEF Changed, Get, Queued, Settings
  <2>3. queue' \in Seq(Queued)
    BY <2>1, <2>2 DEF ModelInv, ModelTypeOK
  <2>4. /\ Len(queue') = Len(queue) + 1
        /\ queue'[Len(queue) + 1] = Get(s.apiType)
        /\ DOMAIN queue' = 1 .. Len(queue) + 1
    BY <2>1, <2>2 DEF ModelInv, ModelTypeOK
  <2>5. Len(queue) + 1 \in Gets' /\ \A i \in Gets' : i <= Len(queue) + 1
    BY <2>4 DEF Gets, Get, ModelInv, ModelTypeOK
  <2>6. LastIsCurrent'
    BY <2>2, <2>4, <2>5 DEF LastIsCurrent, Get, Gets, ModelInv, ModelTypeOK
  <2>7. MadeFromSettings' /\ ProviderIsCurrent'
    BY <2>1, <2>5 DEF MadeFromSettings, ProviderIsCurrent
  <2> QED BY <2>1, <2>2, <2>3, <2>6, <2>7
<1> QED BY <1>1, <1>2

\* What taking the first operation off the queue leaves to be read.
LEMMA TailGets ==
    ASSUME NEW qu \in Seq(Queued), qu # <<>>
    PROVE  /\ Tail(qu) \in Seq(Queued)
           /\ \A i \in DOMAIN Tail(qu) :
                  i + 1 \in DOMAIN qu /\ Tail(qu)[i] = qu[i + 1]
           /\ \A i \in DOMAIN qu \ {1} : i - 1 \in DOMAIN Tail(qu)
           /\ Head(qu) = qu[1] /\ Head(qu) \in Queued /\ 1 \in DOMAIN qu
OBVIOUS

\* LastIsCurrent survives when the head of the queue is done.
LEMMA TailKeepsLast ==
    ASSUME ModelInv, queue # <<>>, queue' = Tail(queue), UNCHANGED settings
    PROVE  LastIsCurrent'
<1> SUFFICES ASSUME NEW i \in Gets', \A j \in Gets' : j <= i
             PROVE  queue'[i].apiType = settings.apiType
  BY DEF LastIsCurrent
<1>1. queue \in Seq(Queued)
  BY DEF ModelInv, ModelTypeOK
<1>2. i + 1 \in Gets /\ queue'[i] = queue[i + 1] /\ i \in Nat
  BY <1>1, TailGets DEF Gets
<1>3. ASSUME NEW j \in Gets
      PROVE  j <= i + 1
  <2>1. j \in Nat /\ j \in DOMAIN queue /\ queue[j].op = "get"
    BY <1>1 DEF Gets
  <2>2. CASE j = 1
    BY <2>2, <1>2 DEF Gets
  <2>3. CASE j # 1
    <3>1. j - 1 \in DOMAIN queue' /\ queue'[j - 1] = queue[j]
      BY <1>1, <2>1, <2>3, TailGets
    <3>2. j - 1 \in Gets'
      BY <3>1, <2>1 DEF Gets
    <3> QED BY <3>2, <2>1, <1>2
  <2> QED BY <2>2, <2>3
<1> QED BY <1>2, <1>3 DEF ModelInv, LastIsCurrent

LEMMA ModelInitInv ==
    ASSUME ModelInit
    PROVE  ModelInv
<1>1. settings \in Settings /\ Get(settings.apiType) \in Queued
  BY DefaultsAssumption DEF ModelInit, Get, Queued, Settings
<1>2. ModelTypeOK
  BY <1>1, MaxChangesAssumption DEF ModelInit, ModelTypeOK, Edit
<1>3. 1 \in Gets /\ queue[1].apiType = settings.apiType /\ Gets \subseteq {1}
  BY DEF ModelInit, Gets, Get
<1>4. LastIsCurrent /\ MadeFromSettings /\ ProviderIsCurrent
  BY <1>3 DEF LastIsCurrent, MadeFromSettings, ProviderIsCurrent, ModelInit
<1> QED BY <1>2, <1>4 DEF ModelInv

\* The second half of _initProvider: the last one that waited makes the
\* provider that the settings describe, or finds that there is none.
LEMMA InitProviderInv ==
    ASSUME ModelInv, InitProvider
    PROVE  ModelInv'
<1>1. PICK stored \in {secret, None} :
        LET made == Made(Head(queue).apiType, Key(stored, settings), settings)
        IN  /\ provider' = IF made = None THEN provider ELSE made
            /\ lastKey' = IF stored = secret THEN "read" ELSE "failed"
  BY DEF InitProvider
<1> DEFINE made == Made(Head(queue).apiType, Key(stored, settings), settings)
<1>2. /\ queue \in Seq(Queued) /\ queue # <<>> /\ queue' = Tail(queue)
      /\ settings \in Settings /\ secret \in Keys \cup {None}
      /\ Head(queue).op = "get"
      /\ UNCHANGED <<settings, secret, edits, changes>>
  BY DEF ModelInv, ModelTypeOK, InitProvider
<1>3. Head(queue) = queue[1] /\ Head(queue) \in Queued /\ 1 \in Gets
  BY <1>2, TailGets DEF Gets
<1>4. Head(queue).apiType \in ApiTypes
  BY <1>2, <1>3 DEF Queued
<1>5. /\ made \in Provider \cup {None}
      /\ made # None <=> Key(stored, settings) # None /\ settings.modelId # None
      /\ made # None => /\ made.apiType = Head(queue).apiType
                        /\ made.modelId = settings.modelId
                        /\ made.apiBase = settings.apiBase
  BY <1>2, <1>4, MadeType, KeyType
<1>6. ModelTypeOK'
  <2>1. queue' \in Seq(Queued)
    BY <1>2, TailGets
  <2>2. provider' \in Provider \cup {None} /\ lastKey' \in {"read", "failed"}
    BY <1>1, <1>5 DEF ModelInv, ModelTypeOK
  <2> QED BY <1>2, <2>1, <2>2 DEF ModelInv, ModelTypeOK
<1>7. LastIsCurrent'
  BY <1>2, TailKeepsLast
<1>8. MadeFromSettings'
  <2>1. Key(stored, settings) # None => Key(secret, settings) # None
    BY <1>2, KeyType
  <2> QED
    BY <1>1, <1>2, <1>5, <2>1 DEF ModelInv, MadeFromSettings, Key
<1>9. ProviderIsCurrent'
  <2> SUFFICES ASSUME Gets' = {}, lastKey' # "failed"
               PROVE  provider' = Made(settings.apiType,
                                       Key(secret, settings), settings)
    BY <1>1, <1>2 DEF ProviderIsCurrent, Key, Made
  <2>1. stored = secret
    BY <1>1
  <2>2. \A j \in Gets : j <= 1
    <3> SUFFICES ASSUME NEW j \in Gets, j # 1 PROVE FALSE
      BY <1>2, <1>3 DEF Gets
    <3>1. j \in DOMAIN queue \ {1} /\ queue[j].op = "get" /\ j \in Nat
      BY <1>2 DEF Gets
    <3>2. j - 1 \in DOMAIN queue' /\ queue'[j - 1] = queue[j]
      BY <3>1, <1>2, TailGets
    <3> QED BY <3>1, <3>2 DEF Gets
  <2>3. Head(queue).apiType = settings.apiType
    BY <2>2, <1>3 DEF ModelInv, LastIsCurrent
  <2>4. made = None => provider = None
    BY <1>5, <2>1 DEF ModelInv, MadeFromSettings
  <2> QED BY <1>1, <2>1, <2>3, <2>4
<1> QED BY <1>6, <1>7, <1>8, <1>9 DEF ModelInv

\* setApiKey ends: no read waits for less, and a key stays a key.
LEMMA StoreKeyInv ==
    ASSUME ModelInv, StoreKey
    PROVE  ModelInv'
<1>1. /\ queue \in Seq(Queued) /\ queue # <<>> /\ queue' = Tail(queue)
      /\ Head(queue).op = "set" /\ UNCHANGED <<settings, provider, changes>>
  BY DEF ModelInv, ModelTypeOK, StoreKey
<1>2. Head(queue) \in Queued /\ Head(queue).apiKey \in Keys
  BY <1>1, TailGets DEF Queued
<1>3. Gets' = {} => Gets = {}
  <2> SUFFICES ASSUME NEW i \in Gets PROVE i - 1 \in Gets'
    OBVIOUS
  <2>1. i \in DOMAIN queue \ {1} /\ queue[i].op = "get" /\ i \in Nat
    BY <1>1, TailGets DEF Gets
  <2> QED BY <2>1, <1>1, TailGets DEF Gets
<1>4. \/ /\ secret' = Head(queue).apiKey
         /\ lastKey' = IF lastKey = "read" THEN "changed" ELSE lastKey
         /\ edits' = edits
      \/ /\ edits' = Append(edits, [name |-> "apiKey",
                                    value |-> Head(queue).apiKey])
         /\ UNCHANGED <<secret, lastKey>>
  BY DEF StoreKey
<1>5. ModelTypeOK'
  <2>1. queue' \in Seq(Queued)
    BY <1>1, TailGets
  <2>2. edits' \in Seq(Edit)
    BY <1>2, <1>4 DEF ModelInv, ModelTypeOK, Edit
  <2> QED BY <1>1, <1>2, <1>4, <2>1, <2>2 DEF ModelInv, ModelTypeOK
<1>6. LastIsCurrent'
  BY <1>1, TailKeepsLast
<1>7. MadeFromSettings'
  BY <1>1, <1>2, <1>4, NoneIsNoValue, KeyType
     DEF ModelInv, ModelTypeOK, MadeFromSettings, Key
<1>8. ProviderIsCurrent'
  <2>1. CASE secret' = secret /\ lastKey' = lastKey
    BY <1>1, <1>3, <2>1 DEF ModelInv, ProviderIsCurrent, Key, Made
  <2>2. CASE lastKey' = IF lastKey = "read" THEN "changed" ELSE lastKey
    <3> SUFFICES ASSUME Gets' = {}, lastKey' = "changed", provider # None
                 PROVE  /\ provider.apiType = settings.apiType
                        /\ provider.modelId = settings.modelId
                        /\ provider.apiBase = settings.apiBase
      BY <1>1, <2>2 DEF ProviderIsCurrent
    <3>1. CASE lastKey = "read"
      <4>1. provider = Made(settings.apiType, Key(secret, settings), settings)
        BY <1>3, <3>1 DEF ModelInv, ProviderIsCurrent
      <4>2. settings.apiType \in ApiTypes /\ settings \in Settings
        BY DEF ModelInv, ModelTypeOK, Settings
      <4> QED BY <4>1, <4>2, MadeType, KeyType DEF ModelInv, ModelTypeOK
    <3>2. CASE lastKey = "changed"
      BY <1>3, <3>2 DEF ModelInv, ProviderIsCurrent
    <3> QED BY <2>2, <3>1, <3>2
  <2> QED BY <1>4, <2>1, <2>2
<1> QED BY <1>5, <1>6, <1>7, <1>8 DEF ModelInv

LEMMA WriteSettingInv ==
    ASSUME ModelInv, WriteSetting
    PROVE  ModelInv'
<1>1. /\ edits # <<>> /\ edits \in Seq(Edit) /\ edits' = Tail(edits)
      /\ UNCHANGED <<secret, lastKey, changes>>
  BY DEF ModelInv, ModelTypeOK, WriteSetting
<1>2. edits' \in Seq(Edit) /\ Head(edits) \in Edit
  BY <1>1
<1> DEFINE written == [settings EXCEPT ![Head(edits).name] = Head(edits).value]
<1>3. CASE Changed(written)
  <2>1. written \in Settings
    BY <1>2, WrittenType DEF ModelInv, ModelTypeOK
  <2> HIDE DEF written
  <2>2. /\ settings' \in Settings /\ provider' \in Provider \cup {None}
        /\ queue' \in Seq(Queued)
        /\ LastIsCurrent' /\ MadeFromSettings' /\ ProviderIsCurrent'
    BY <1>1, <1>3, <2>1, ChangedKeeps
  <2> QED BY <1>1, <1>2, <2>2 DEF ModelInv, ModelTypeOK
<1>4. CASE UNCHANGED <<settings, provider, queue>>
  BY <1>1, <1>2, <1>4 DEF ModelInv, ModelTypeOK, LastIsCurrent,
       MadeFromSettings, ProviderIsCurrent, Gets, Key, Made
<1> QED BY <1>3, <1>4 DEF WriteSetting

\* Appending an operation that reads nothing changes no read.
LEMMA AppendSet ==
    ASSUME ModelInv, NEW key \in Keys, queue' = Append(queue, Set(key)),
           UNCHANGED <<settings, secret, provider, lastKey>>
    PROVE  /\ queue' \in Seq(Queued)
           /\ LastIsCurrent' /\ MadeFromSettings' /\ ProviderIsCurrent'
<1>1. Set(key) \in Queued /\ queue \in Seq(Queued) /\ Set(key).op = "set"
  BY DEF Set, Queued, ModelInv, ModelTypeOK
<1>2. /\ DOMAIN queue' = DOMAIN queue \cup {Len(queue) + 1}
      /\ \A i \in DOMAIN queue : queue'[i] = queue[i]
      /\ queue'[Len(queue) + 1].op = "set"
  BY <1>1
<1>3. Gets' = Gets
  BY <1>2 DEF Gets
<1>4. \A i \in Gets : queue'[i] = queue[i]
  BY <1>2 DEF Gets
<1>5. LastIsCurrent'
  BY <1>3, <1>4 DEF ModelInv, LastIsCurrent
<1>6. MadeFromSettings' /\ ProviderIsCurrent'
  BY <1>3 DEF ModelInv, MadeFromSettings, ProviderIsCurrent, Key, Made
<1>7. queue' \in Seq(Queued)
  BY <1>1
<1> QED BY <1>5, <1>6, <1>7

LEMMA SelectInv ==
    ASSUME ModelInv, NEW p \in Presets, Select(p)
    PROVE  ModelInv'
<1>1. p \in Preset
  BY PresetsAssumption
<1>2. changes' \in 0 .. MaxChanges
  BY MaxChangesAssumption DEF Select, ModelInv, ModelTypeOK
<1>3. edits' \in Seq(Edit)
  <2>1. /\ [name |-> "modelId", value |-> p.modelId] \in Edit
        /\ [name |-> "apiType", value |-> p.apiType] \in Edit
        /\ p.apiBase # None =>
               [name |-> "apiBase", value |-> p.apiBase] \in Edit
        /\ p.modelId # None /\ edits \in Seq(Edit)
    BY <1>1, NoneIsNoValue DEF Preset, Edit, ModelInv, ModelTypeOK
  <2> DEFINE write(name) == IF p[name] = None THEN <<>>
                            ELSE <<[name |-> name, value |-> p[name]]>>
  <2>2. edits' = edits \o write("modelId") \o write("apiType")
                       \o write("apiBase")
    BY DEF Select
  <2>3. /\ write("modelId") \in Seq(Edit)
        /\ write("apiType") \in Seq(Edit)
        /\ write("apiBase") \in Seq(Edit)
    BY <2>1
  <2> HIDE DEF write
  <2> QED BY <2>1, <2>2, <2>3
<1>4. UNCHANGED <<settings, secret, provider, lastKey>>
  BY DEF Select
<1>5. CASE p.apiKey = None
  BY <1>2, <1>3, <1>4, <1>5 DEF Select, ModelInv, ModelTypeOK, LastIsCurrent,
       MadeFromSettings, ProviderIsCurrent, Gets, Key, Made
<1>6. CASE p.apiKey # None
  <2>1. p.apiKey \in Keys /\ queue' = Append(queue, Set(p.apiKey))
    BY <1>1, <1>6 DEF Select, Preset
  <2> QED
    BY <1>2, <1>3, <1>4, <2>1, AppendSet DEF ModelInv, ModelTypeOK
<1> QED BY <1>5, <1>6

LEMMA EditSettingsInv ==
    ASSUME ModelInv, NEW s \in Defaults, EditSettings(s)
    PROVE  ModelInv'
<1>1. s \in Settings /\ Changed(s) /\ UNCHANGED <<secret, edits, lastKey>>
  BY DefaultsAssumption DEF EditSettings
<1>2. changes' \in 0 .. MaxChanges
  BY MaxChangesAssumption DEF EditSettings, ModelInv, ModelTypeOK
<1> QED BY <1>1, <1>2, ChangedKeeps DEF ModelInv, ModelTypeOK

-----------------------------------------------------------------------------
\* What the requests rely on: the one that can be cancelled has not answered,
\* and one that streams after its cancellation is a stray.
RequestInv ==
    /\ pendingController # None =>
           pc[pendingController] \in Waiting \cup {"rejected"}
    /\ \A q \in aborted : pc[q] = "streaming" => q \in strays

IInv ==
    /\ TypeOK
    /\ ModelInv
    /\ RequestInv
    /\ NewestCancellable
    /\ NoStaleText

LEMMA InitIInv == Init => IInv
<1> SUFFICES ASSUME Init PROVE IInv
  OBVIOUS
<1>1. ModelInv
  BY ModelInitInv DEF Init
<1> QED
  BY <1>1, NoneIsNoRequest DEF Init, IInv, ModelInv, TypeOK, RequestInv,
       NewestCancellable, NoStaleText, Live, Waiting

\* Steps of the requests leave the model service alone.
LEMMA ModelUnchanged == ModelInv /\ UNCHANGED modelVars => ModelInv'
BY DEF ModelInv, modelVars, ModelTypeOK, LastIsCurrent, MadeFromSettings,
     ProviderIsCurrent, Gets, Key, Made

\* abort() of the pending request, if there is one.
LEMMA CancelledPc ==
    ASSUME IInv
    PROVE  /\ Cancelled \in [Requests -> {"idle"} \cup Waiting \cup Settled]
           /\ Aborted \subseteq Requests /\ aborted \subseteq Aborted
           /\ \A q \in Requests : Cancelled[q] # pc[q] =>
                  /\ q = pendingController /\ Cancelled[q] = "null"
           /\ \A q \in Aborted : Cancelled[q] = "streaming" => q \in strays
           /\ \A q \in Aborted \ strays : Cancelled[q] # "text"
           /\ strays = {} => \A q \in Requests :
                  Cancelled[q] \in Waiting => q \in Aborted
<1>1. pendingController = None
      \/ (pendingController \in Requests /\ pendingController # None)
  BY NoneIsNoRequest DEF IInv, TypeOK
<1>2. CASE pendingController = None
  <2>1. Cancelled = pc /\ Aborted = aborted
    BY <1>2 DEF Cancelled, Aborted
  <2>2. strays = {} => \A q \in Requests : pc[q] \in Waiting => q \in aborted
    BY <1>2, NoneIsNoRequest DEF IInv, NewestCancellable, Live
  <2> QED
    BY <2>1, <2>2 DEF IInv, TypeOK, RequestInv, NoStaleText
<1>3. CASE pendingController \in Requests /\ pendingController # None
  <2> DEFINE p == pendingController
  <2>1. Cancelled = [pc EXCEPT ![p] = IF pc[p] \in {"delay", "streaming"}
                                      THEN "null" ELSE pc[p]]
    BY <1>3 DEF Cancelled, Heard
  <2>2. /\ Cancelled \in [Requests -> {"idle"} \cup Waiting \cup Settled]
        /\ \A q \in Requests \ {p} : Cancelled[q] = pc[q]
        /\ Cancelled[p] = IF pc[p] \in {"delay", "streaming"}
                          THEN "null" ELSE pc[p]
    BY <1>3, <2>1 DEF IInv, TypeOK, Waiting, Settled
  <2>3. Aborted = aborted \cup {p} /\ aborted \subseteq Requests
    BY <1>3 DEF Aborted, IInv, TypeOK
  <2>4. pc[p] \in Waiting \cup {"rejected"} /\ strays \subseteq aborted
    BY <1>3 DEF IInv, TypeOK, RequestInv
  <2> QED
    BY <1>3, <2>2, <2>3, <2>4 DEF IInv, RequestInv, NewestCancellable,
         NoStaleText, Live, Waiting
<1> QED BY <1>1, <1>2, <1>3

LEMMA StepIInv == IInv /\ [Next]_vars => IInv'
<1> SUFFICES ASSUME IInv, [Next]_vars PROVE IInv'
  OBVIOUS
<1>m. ASSUME UNCHANGED modelVars PROVE ModelInv'
  BY <1>m, ModelUnchanged DEF IInv
<1>1. CASE CancelCurrentCompletion
  <2>1. ModelInv'
    BY <1>1, <1>m DEF CancelCurrentCompletion
  <2> QED
    BY <1>1, <2>1, CancelledPc DEF CancelCurrentCompletion, IInv, ModelInv,
         TypeOK, RequestInv, NewestCancellable, NoStaleText, Live
<1>2. ASSUME NEW q \in Requests, Provide(q) PROVE IInv'
  <2>1. ModelInv'
    BY <1>2, <1>m DEF Provide
  <2>2. /\ pc' = [Cancelled EXCEPT ![q] = "delay"]
        /\ aborted' = Aborted /\ pendingController' = q /\ strays' = strays
    BY <1>2 DEF Provide
  <2>3. pc' \in [Requests -> {"idle"} \cup Waiting \cup Settled]
        /\ \A r \in Requests : pc'[r] = IF r = q THEN "delay" ELSE Cancelled[r]
    BY <2>2, CancelledPc DEF Waiting
  <2> QED
    BY <2>1, <2>2, <2>3, CancelledPc DEF IInv, ModelInv, TypeOK, RequestInv,
         NewestCancellable, NoStaleText, Live, Waiting
<1>3. ASSUME NEW q \in Requests, ProvideDisabled(q) PROVE IInv'
  <2>1. ModelInv'
    BY <1>3, <1>m DEF ProvideDisabled
  <2> QED
    BY <1>3, <2>1, NoneIsNoRequest DEF ProvideDisabled, IInv, ModelInv, TypeOK,
         RequestInv, NewestCancellable, NoStaleText, Live, Waiting, Settled
<1>4. ASSUME NEW q \in Requests, DelayElapsed(q) PROVE IInv'
  <2>1. ModelInv'
    BY <1>4, <1>m DEF DelayElapsed
  <2> QED
    BY <1>4, <2>1 DEF DelayElapsed, IInv, ModelInv, TypeOK,
         RequestInv, NewestCancellable, NoStaleText, Live, Waiting, Settled
<1>5. ASSUME NEW q \in Requests, StartStream(q) PROVE IInv'
  <2>1. ModelInv'
    BY <1>5, <1>m DEF StartStream
  <2> QED
    BY <1>5, <2>1 DEF StartStream, IInv, ModelInv, TypeOK,
         RequestInv, NewestCancellable, NoStaleText, Live, Waiting, Settled
<1>6. ASSUME NEW q \in Requests, StreamEnd(q) PROVE IInv'
  <2>1. ModelInv'
    BY <1>6, <1>m DEF StreamEnd
  <2> QED
    BY <1>6, <2>1, NoneIsNoRequest DEF StreamEnd, IInv, ModelInv, TypeOK,
         RequestInv, NewestCancellable, NoStaleText, Live, Waiting, Settled
<1>7. CASE (ModelStep \/ ModelUser) /\ UNCHANGED requestVars
  <2>1. ModelInv'
    BY <1>7, InitProviderInv, StoreKeyInv, WriteSettingInv, SelectInv,
       EditSettingsInv DEF IInv, ModelStep, ModelUser
  <2> QED
    BY <1>7, <2>1 DEF requestVars, IInv, ModelInv, TypeOK, RequestInv,
         NewestCancellable, NoStaleText, Live
<1>8. CASE UNCHANGED vars
  BY <1>8, <1>m DEF vars, requestVars, IInv, ModelInv, TypeOK, RequestInv,
       NewestCancellable, NoStaleText, Live
<1> QED
  BY <1>1, <1>2, <1>3, <1>4, <1>5, <1>6, <1>7, <1>8 DEF Next, Resume

\* The variables keep their types.
THEOREM TypeCorrect == Spec => []TypeOK
<1>1. IInv => TypeOK
  BY DEF IInv
<1> QED BY InitIInv, StepIInv, <1>1, PTL DEF Spec

\* Overlapping _initProvider calls end with the provider that the settings and
\* the stored key describe.
THEOREM ProviderCurrent == Spec => []ProviderIsCurrent
<1>1. IInv => ProviderIsCurrent
  BY DEF IInv, ModelInv
<1> QED BY InitIInv, StepIInv, <1>1, PTL DEF Spec

\* A request that nobody cancelled can be cancelled, but for the strays.
THEOREM NewestIsCancellable == Spec => []NewestCancellable
<1>1. IInv => NewestCancellable
  BY DEF IInv
<1> QED BY InitIInv, StepIInv, <1>1, PTL DEF Spec

\* A cancelled request answers with text only as a stray.
THEOREM NoTextAfterAbort == Spec => []NoStaleText
<1>1. IInv => NoStaleText
  BY DEF IInv
<1> QED BY InitIInv, StepIInv, <1>1, PTL DEF Spec

\* A request is refused only while there is no provider to be had.
THEOREM RefusedUnready == Spec => RefusedOnlyUnready
<1>1. IInv /\ [Next]_vars =>
        [\A q \in Requests :
            pc'[q] = "rejected" /\ pc[q] # "rejected" =>
                \/ Gets # {}
                \/ lastKey # "read"
                \/ Made(settings.apiType, Key(secret, settings), settings)
                       = None]_vars
  <2> SUFFICES ASSUME IInv, Next, NEW q \in Requests,
                      pc'[q] = "rejected", pc[q] # "rejected"
               PROVE  provider = None
    BY DEF IInv, ModelInv, ProviderIsCurrent
  <2>1. PICK r \in Requests : StartStream(r) /\ provider = None
    BY CancelledPc DEF Next, Resume, CancelCurrentCompletion, Provide,
       ProvideDisabled, DelayElapsed, StartStream, StreamEnd, requestVars,
       IInv, TypeOK
  <2> QED BY <2>1
<1> QED BY InitIInv, StepIInv, <1>1, PTL DEF Spec, RefusedOnlyUnready

-----------------------------------------------------------------------------
(* ----------------------- the recursive functions ----------------------- *)

Scans(text, g) ==
    g = [i \in 0..Len(text) |->
            IF i = 0 THEN [lines |-> <<>>, rest |-> <<>>]
            ELSE ScanStep(g[i - 1], text[i])]

LEMMA ScanExists ==
    ASSUME NEW S, NEW text \in Seq(S)
    PROVE  \E g : Scans(text, g)
<1> DEFINE body(g, n) == IF n = 0 THEN [lines |-> <<>>, rest |-> <<>>]
                         ELSE ScanStep(g[n - 1], text[n])
           P == {n \in Nat : \E g : g = [m \in 0..n |-> body(g, m)]}
<1>1. 0 \in P
  <2> DEFINE h == [m \in 0..0 |-> [lines |-> <<>>, rest |-> <<>>]]
  <2>1. h = [m \in 0..0 |-> body(h, m)]
    OBVIOUS
  <2>2. \E g : g = [m \in 0..0 |-> body(g, m)]
    <3> HIDE DEF h
    <3> QED
      BY <2>1
  <2> QED
    BY <2>2
<1>2. ASSUME NEW n \in P
      PROVE  n + 1 \in P
  <2>1. PICK g : g = [m \in 0..n |-> body(g, m)]
    OBVIOUS
  <2>2. \A m \in 0..n : g[m] = body(g, m)
    <3> HIDE DEF body
    <3> QED
      BY <2>1
  <2> DEFINE h == [m \in 0..n + 1 |-> IF m <= n THEN g[m] ELSE body(g, n + 1)]
  <2>3. \A m \in 0..n + 1 : h[m] = body(h, m)
    <3> SUFFICES ASSUME NEW m \in 0..n + 1
                 PROVE  h[m] = body(h, m)
      OBVIOUS
    <3>1. m # 0 => m - 1 \in 0..n /\ h[m - 1] = g[m - 1]
      OBVIOUS
    <3>2. h[m] = body(g, m)
      <4>1. CASE m <= n
        BY <2>2, <4>1
      <4>2. CASE m = n + 1
        BY <4>2
      <4> QED
        BY <4>1, <4>2
    <3> QED
      BY <3>1, <3>2
  <2>4. h = [m \in 0..n + 1 |-> body(h, m)]
    BY <2>3
  <2>5. \E f : f = [m \in 0..n + 1 |-> body(f, m)]
    <3> HIDE DEF h
    <3> QED
      BY <2>4
  <2> HIDE DEF body
  <2> QED
    BY <2>5
<1>3. Len(text) \in P
  <2>1. P \in SUBSET Nat
    OBVIOUS
  <2> HIDE DEF P
  <2>2. \A n \in P : n + 1 \in P
    BY <1>2
  <2>3. P = Nat
    BY <1>1, <2>1, <2>2, NumbersInduction
  <2> QED
    BY <2>3
<1> QED
  BY <1>3 DEF Scans

LEMMA ScanEquations ==
    ASSUME NEW S, NEW text \in Seq(S)
    PROVE  \E g : /\ Scan(text) = g[Len(text)]
                  /\ g[0] = [lines |-> <<>>, rest |-> <<>>]
                  /\ \A i \in 1..Len(text) : g[i] = ScanStep(g[i - 1], text[i])
<1> DEFINE g == CHOOSE g : Scans(text, g)
<1>1. Scans(text, g)
  BY ScanExists
<1>2. Scan(text) = g[Len(text)]
  BY DEF Scan, Scans
<1> HIDE DEF g
<1> DEFINE body(i) == IF i = 0 THEN [lines |-> <<>>, rest |-> <<>>]
                      ELSE ScanStep(g[i - 1], text[i])
<1>3. \A i \in 0..Len(text) : g[i] = body(i)
  <2>1. g = [i \in 0..Len(text) |-> body(i)]
    BY <1>1 DEF Scans
  <2> HIDE DEF body
  <2> QED
    BY <2>1
<1>4. g[0] = [lines |-> <<>>, rest |-> <<>>]
  BY <1>3
<1>5. \A i \in 1..Len(text) : g[i] = ScanStep(g[i - 1], text[i])
  BY <1>3
<1> QED
  BY <1>2, <1>4, <1>5

LEMMA Thirds ==
    ASSUME NEW m \in Nat
    PROVE  \E q \in Nat, r \in 0..2 : m = 3 * q + r /\ m \div 3 = q
OBVIOUS

LEMMA ThirdsOf ==
    ASSUME NEW q \in Nat, NEW r \in 0..2
    PROVE  /\ (3 * q + r) \div 3 = q
           /\ (3 * q + r) % 3 = r
OBVIOUS

\* The fragments one by one.
LEMMA FragmentAt ==
    ASSUME NEW S, NEW lines \in Seq(S), NEW q \in 0..Len(lines) - 1
    PROVE  /\ Fragments(lines)[3 * q + 1] = <<lines[q + 1], 1>>
           /\ Fragments(lines)[3 * q + 2] = <<lines[q + 1], 2>>
           /\ Fragments(lines)[3 * q + 3] = NL
<1>1. /\ (3 * q + 3) \div 3 = q + 1 /\ (3 * q + 3) % 3 = 0
      /\ (3 * q + 4) \div 3 = q + 1 /\ (3 * q + 4) % 3 = 1
      /\ (3 * q + 5) \div 3 = q + 1 /\ (3 * q + 5) % 3 = 2
  OBVIOUS
<1>2. {3 * q + 1, 3 * q + 2, 3 * q + 3} \subseteq 1..3 * Len(lines)
  OBVIOUS
<1> DEFINE part(f) == Fragment(lines[(f + 2) \div 3], ((f + 2) % 3) + 1)
<1>3. \A f \in 1..3 * Len(lines) : Fragments(lines)[f] = part(f)
  BY DEF Fragments
<1>4. part(3 * q + 1) = <<lines[q + 1], 1>>
  BY <1>1 DEF Fragment
<1>5. part(3 * q + 2) = <<lines[q + 1], 2>>
  BY <1>1 DEF Fragment
<1>6. part(3 * q + 3) = NL
  BY <1>1 DEF Fragment
<1> HIDE DEF part
<1> QED
  BY <1>2, <1>3, <1>4, <1>5, <1>6

Range3(S) == {Fragment(e, part) : e \in S, part \in 1..3}

LEMMA FragmentsType ==
    ASSUME NEW S, NEW lines \in Seq(S)
    PROVE  /\ Fragments(lines) \in Seq(Range3(S))
           /\ Len(Fragments(lines)) = 3 * Len(lines)
<1> DEFINE part(f) == Fragment(lines[(f + 2) \div 3], ((f + 2) % 3) + 1)
<1>1. ASSUME NEW f \in 1..3 * Len(lines)
      PROVE  part(f) \in Range3(S)
  <2>1. (f + 2) \div 3 \in 1..Len(lines) /\ ((f + 2) % 3) + 1 \in 1..3
    OBVIOUS
  <2>2. lines[(f + 2) \div 3] \in S
    BY <2>1
  <2> QED
    BY <2>1, <2>2 DEF Range3
<1>2. Fragments(lines) = [f \in 1..3 * Len(lines) |-> part(f)]
  BY DEF Fragments
<1> HIDE DEF part
<1>3. 3 * Len(lines) \in Nat
  OBVIOUS
<1> QED
  BY <1>1, <1>2, <1>3

\* A complete line.
LineOf(e) == << <<e, 1>>, <<e, 2>> >>

\* What the split of the first i fragments of some lines is.
ScanTo(lines, i) ==
    [lines |-> [j \in 1..i \div 3 |-> LineOf(lines[j])],
     rest |-> SubSeq(Fragments(lines), 3 * (i \div 3) + 1, i)]

LEMMA ScanStepIs ==
    ASSUME NEW lines, NEW rest, NEW x
    PROVE  /\ x = NL => ScanStep([lines |-> lines, rest |-> rest], x)
                            = [lines |-> Append(lines, rest), rest |-> <<>>]
           /\ x # NL => ScanStep([lines |-> lines, rest |-> rest], x)
                            = [lines |-> lines, rest |-> Append(rest, x)]
BY DEF ScanStep

LEMMA SubSeqOfTwo ==
    ASSUME NEW S, NEW s \in Seq(S), NEW a \in 1..Len(s) - 1
    PROVE  SubSeq(s, a, a + 1) = <<s[a], s[a + 1]>>
<1> DEFINE b == a + 1
<1>a. a \in 1..Len(s) /\ b \in 1..Len(s) /\ b = a + 1
  OBVIOUS
<1> HIDE DEF b
<1>b. /\ SubSeq(s, a, b) \in Seq(S) /\ Len(SubSeq(s, a, b)) = 2
      /\ \A i \in 1..2 : SubSeq(s, a, b)[i] = s[a + i - 1]
  BY <1>a
<1>c. SubSeq(s, a, b)[1] = s[a + 1 - 1] /\ SubSeq(s, a, b)[2] = s[a + 2 - 1]
  <2>1. 1 \in 1..2 /\ 2 \in 1..2
    OBVIOUS
  <2> QED
    BY <1>b, <2>1
<1>d. a + 1 - 1 = a /\ a + 2 - 1 = b
  BY <1>a
<1>1. /\ SubSeq(s, a, a + 1) \in Seq(S) /\ Len(SubSeq(s, a, a + 1)) = 2
      /\ SubSeq(s, a, a + 1)[1] = s[a] /\ SubSeq(s, a, a + 1)[2] = s[a + 1]
  BY <1>b, <1>c, <1>d DEF b
<1> DEFINE t == SubSeq(s, a, a + 1)
           u == <<s[a], s[a + 1]>>
<1>2. u \in Seq(S) /\ Len(u) = 2 /\ u[1] = s[a] /\ u[2] = s[a + 1]
  OBVIOUS
<1>3. t \in Seq(S) /\ Len(t) = Len(u) /\ \A i \in 1..Len(t) : t[i] = u[i]
  <2>1. t \in Seq(S) /\ Len(t) = 2 /\ t[1] = u[1] /\ t[2] = u[2]
    BY <1>1, <1>2
  <2> HIDE DEF t, u
  <2> QED
    BY <1>2, <2>1
<1> HIDE DEF t, u
<1>4. t = u
  BY <1>2, <1>3, SeqEqual
<1> QED
  BY <1>4 DEF t, u

LEMMA ScanToNext ==
    ASSUME NEW S, NEW lines \in Seq(S), NEW i \in 0..3 * Len(lines) - 1
    PROVE  ScanStep(ScanTo(lines, i), Fragments(lines)[i + 1])
               = ScanTo(lines, i + 1)
<1> DEFINE F == Fragments(lines)
<1>1. PICK q \in Nat, r \in 0..2 : i = 3 * q + r /\ i \div 3 = q
  BY Thirds
<1>2. F \in Seq(Range3(S)) /\ Len(F) = 3 * Len(lines)
  BY FragmentsType
<1>3. q \in 0..Len(lines) - 1
  BY <1>1
<1>4. /\ F[3 * q + 1] = <<lines[q + 1], 1>>
      /\ F[3 * q + 2] = <<lines[q + 1], 2>>
      /\ F[3 * q + 3] = NL
  BY <1>3, FragmentAt
<1>5. <<lines[q + 1], 1>> # NL /\ <<lines[q + 1], 2>> # NL
  BY DEF NL
<1> DEFINE done == [j \in 1..q |-> LineOf(lines[j])]
<1>6. ScanTo(lines, i) = [lines |-> done, rest |-> SubSeq(F, 3 * q + 1, i)]
  BY <1>1 DEF ScanTo
<1>7. done \in Seq({LineOf(e) : e \in S}) /\ Len(done) = q
  BY <1>3
<1> HIDE DEF F, done
<1>8. CASE r \in {0, 1}
  <2>1. (i + 1) \div 3 = q
    BY <1>1, <1>8
  <2>2. F[i + 1] # NL
    <3>1. i + 1 = 3 * q + 1 \/ i + 1 = 3 * q + 2
      BY <1>1, <1>8
    <3> QED
      BY <1>4, <1>5, <3>1
  <2>3. ScanStep(ScanTo(lines, i), F[i + 1])
            = [lines |-> done, rest |-> Append(SubSeq(F, 3 * q + 1, i), F[i + 1])]
    BY <1>6, <2>2, ScanStepIs
  <2>4. Append(SubSeq(F, 3 * q + 1, i), F[i + 1]) = SubSeq(F, 3 * q + 1, i + 1)
    BY <1>1, <1>2, <1>8
  <2> QED
    BY <2>1, <2>3, <2>4 DEF ScanTo, F, done
<1>9. CASE r = 2
  <2>1. (i + 1) \div 3 = q + 1
    BY <1>1, <1>9
  <2>2. SubSeq(F, 3 * q + 1, i) = LineOf(lines[q + 1])
    <3>1. i = 3 * q + 2 /\ i \in 0..Len(F)
      BY <1>1, <1>2, <1>9
    <3>2. SubSeq(F, 3 * q + 1, 3 * q + 2) = <<F[3 * q + 1], F[3 * q + 2]>>
      <4>1. 3 * q + 1 \in 1..Len(F) - 1 /\ 3 * q + 2 = (3 * q + 1) + 1
        BY <1>2, <3>1
      <4> QED
        BY <1>2, <4>1, SubSeqOfTwo
    <3> QED
      BY <1>4, <3>1, <3>2 DEF LineOf
  <2>3. ScanStep(ScanTo(lines, i), F[i + 1])
            = [lines |-> Append(done, LineOf(lines[q + 1])), rest |-> <<>>]
    <3>1. i + 1 = 3 * q + 3
      BY <1>1, <1>9
    <3>2. F[i + 1] = NL
      BY <1>4, <3>1
    <3> QED
      <4> DEFINE b == [lines |-> done, rest |-> LineOf(lines[q + 1])]
      <4>1. ScanStep(b, NL) = [lines |-> Append(done, LineOf(lines[q + 1])),
                               rest |-> <<>>]
        BY ScanStepIs
      <4>2. ScanTo(lines, i) = b
        BY <1>6, <2>2
      <4> HIDE DEF b
      <4> QED
        BY <3>2, <4>1, <4>2
  <2>4. Append(done, LineOf(lines[q + 1])) = [j \in 1..q + 1 |-> LineOf(lines[j])]
    BY <1>3, <1>7 DEF done
  <2>5. SubSeq(F, 3 * (q + 1) + 1, i + 1) = <<>>
    BY <1>1, <1>2, <1>9
  <2> QED
    BY <2>1, <2>3, <2>4, <2>5 DEF ScanTo, F
<1> QED
  BY <1>8, <1>9 DEF F

\* However many fragments are there, the split finds the complete lines and
\* keeps what follows them.
LEMMA ScanFragments ==
    ASSUME NEW S, NEW lines \in Seq(S), NEW m \in 0..3 * Len(lines)
    PROVE  Scan(SubSeq(Fragments(lines), 1, m)) = ScanTo(lines, m)
<1> DEFINE F == Fragments(lines)
           text == SubSeq(F, 1, m)
<1>1. F \in Seq(Range3(S)) /\ Len(F) = 3 * Len(lines)
  BY FragmentsType
<1> HIDE DEF F
<1>2. /\ text \in Seq(Range3(S)) /\ Len(text) = m
      /\ \A i \in 1..m : text[i] = F[i]
  BY <1>1
<1> HIDE DEF text
<1>3. PICK g : /\ Scan(text) = g[Len(text)]
               /\ g[0] = [lines |-> <<>>, rest |-> <<>>]
               /\ \A i \in 1..Len(text) : g[i] = ScanStep(g[i - 1], text[i])
  BY <1>2, ScanEquations
<1> DEFINE P == {i \in Nat : i <= m => g[i] = ScanTo(lines, i)}
<1>4. 0 \in P
  <2>1. 0 \div 3 = 0
    OBVIOUS
  <2>2. SubSeq(F, 3 * 0 + 1, 0) = <<>>
    BY <1>1
  <2>3. [j \in 1..0 |-> LineOf(lines[j])] = <<>>
    OBVIOUS
  <2> QED
    BY <1>3, <2>1, <2>2, <2>3 DEF ScanTo, F
<1>5. ASSUME NEW i \in P
      PROVE  i + 1 \in P
  <2> SUFFICES ASSUME i + 1 <= m
               PROVE  g[i + 1] = ScanTo(lines, i + 1)
    OBVIOUS
  <2>1. g[i] = ScanTo(lines, i) /\ i \in 0..3 * Len(lines) - 1
    OBVIOUS
  <2>2. g[i + 1] = ScanStep(g[i], F[i + 1])
    BY <1>2, <1>3
  <2> QED
    BY <2>1, <2>2, ScanToNext DEF F
<1>6. m \in P
  <2>1. P \in SUBSET Nat
    OBVIOUS
  <2> HIDE DEF P
  <2>2. \A i \in P : i + 1 \in P
    BY <1>5
  <2>3. P = Nat
    BY <1>4, <2>1, <2>2, NumbersInduction
  <2> QED
    BY <2>3
<1> QED
  BY <1>2, <1>3, <1>6 DEF text, F

-----------------------------------------------------------------------------
(* --------------------------- the server -------------------------------- *)

LineKinds == {"start", "text", "piece", "stop", "message_stop", "call", "finish",
              "tool_calls", "length", "[DONE]", "noise", "broken", "error"}
Line == [kind : LineKinds, id : Nat, piece : Nat \X Nat \X Nat]

\* The blocks of an answer that are texts, or tool calls.
Blocks(req, kind) == {b \in DOMAIN req.answer : req.answer[b].kind = kind}

LEMMA ExchangeType ==
    ASSUME NEW req \in Exchanges
    PROVE  /\ req.api \in {"anthropic", "openai"}
           /\ req.purpose \in {"chat", "completion"}
           /\ req.cut \in BOOLEAN
           /\ req.odd \in {"none", "noise", "broken", "error"}
           /\ req.answer \in Seq(Block)
           /\ DOMAIN req.answer = 1..Len(req.answer)
           /\ \A b \in DOMAIN req.answer :
                  /\ req.answer[b].kind \in {"text", "tool"}
                  /\ req.answer[b].pieces \in Nat
                  /\ req.answer[b].kind = "text" => req.answer[b].pieces = 0
           /\ req.cut => /\ Len(req.answer) \in Blocks(req, "tool")
                         /\ req.answer[Len(req.answer)].pieces > 0
                         /\ req.odd = "none"
           /\ req.purpose = "completion" => Blocks(req, "tool") = {}
           /\ req.odd # "none" => req.oddAt \in 1..Len(Body(req))
<1>1. /\ req.api \in {"anthropic", "openai"}
      /\ req.purpose \in {"chat", "completion"}
      /\ req.cut \in BOOLEAN
      /\ req.odd \in {"none", "noise", "broken", "error"}
      /\ req.answer \in Answer
      /\ req.oddAt \in Nat \ {0}
      /\ req.cut => /\ Len(req.answer) > 0
                    /\ req.answer[Len(req.answer)].pieces > 0
                    /\ req.odd = "none"
      /\ req.purpose = "completion" => ~HasTool(req)
      /\ req.odd # "none" => req.oddAt <= Len(Body(req))
  BY BoundAssumption DEF Exchanges
<1>2. PICK n \in 0..MaxBlocks : req.answer \in [1..n -> Block]
  BY <1>1 DEF Answer
<1>3. n \in Nat
  BY BoundAssumption
<1>4. /\ req.answer \in Seq(Block) /\ Len(req.answer) = n
      /\ DOMAIN req.answer = 1..Len(req.answer)
  BY <1>2, <1>3
<1>5. ASSUME NEW b \in DOMAIN req.answer
      PROVE  /\ req.answer[b].kind \in {"text", "tool"}
             /\ req.answer[b].pieces \in Nat
             /\ req.answer[b].kind = "text" => req.answer[b].pieces = 0
  <2>1. req.answer[b] \in Block
    BY <1>2, <1>4
  <2>2. \A c \in Block : /\ c.kind \in {"text", "tool"}
                         /\ c.pieces \in Nat
                         /\ c.kind = "text" => c.pieces = 0
    BY BoundAssumption DEF Block, TextBlock, ToolBlock
  <2> QED
    BY <2>1, <2>2
<1>6. req.cut => Len(req.answer) \in Blocks(req, "tool")
  <2> SUFFICES ASSUME req.cut
               PROVE  Len(req.answer) \in Blocks(req, "tool")
    OBVIOUS
  <2>1. Len(req.answer) \in DOMAIN req.answer
    BY <1>1, <1>3, <1>4
  <2> QED
    BY <1>1, <1>5, <2>1 DEF Blocks
<1>7. req.purpose = "completion" => Blocks(req, "tool") = {}
  BY <1>1 DEF Blocks, HasTool
<1>8. Len(Body(req)) >= req.oddAt => req.oddAt \in 1..Len(Body(req))
  BY <1>1
<1> QED
  BY <1>1, <1>4, <1>5, <1>6, <1>7

\* How many pieces of a tool's input are sent, and what becomes of them.
LEMMA SentType ==
    ASSUME NEW req \in Exchanges, NEW b \in Blocks(req, "tool")
    PROVE  /\ b \in Nat \ {0} /\ req.answer[b].pieces \in Nat
           /\ Sent(req, b) \in Nat
           /\ IsCut(req, b) => Sent(req, b) = req.answer[b].pieces - 1
           /\ ~IsCut(req, b) => Sent(req, b) = req.answer[b].pieces
<1>1. b \in DOMAIN req.answer /\ DOMAIN req.answer = 1..Len(req.answer)
      /\ req.answer \in Seq(Block) /\ req.answer[b].pieces \in Nat
  BY ExchangeType DEF Blocks
<1>2. IsCut(req, b) => req.answer[b].pieces > 0
  BY ExchangeType DEF IsCut
<1> QED
  BY <1>1, <1>2 DEF Sent

PieceLine(kind, id, i, k, n) == Event(kind, id, Piece(i, k, n))

LEMMA LineTypes ==
    ASSUME NEW kind \in LineKinds, NEW id \in Nat, NEW i \in Nat, NEW k \in Nat,
           NEW n \in Nat
    PROVE  /\ Event(kind, id, NoPiece) \in Line
           /\ PieceLine(kind, id, i, k, n) \in Line
BY DEF Event, PieceLine, Line, NoPiece, Piece, NoId

\* Three pieces of a concatenation.
LEMMA Concat3 ==
    ASSUME NEW S, NEW x \in S, NEW s \in Seq(S), NEW y \in S
    PROVE  LET t == <<x>> \o s \o <<y>>
           IN  /\ t \in Seq(S) /\ Len(t) = Len(s) + 2
               /\ t[1] = x /\ t[Len(s) + 2] = y
               /\ \A k \in 1..Len(s) : t[k + 1] = s[k]
OBVIOUS

LEMMA Concat2 ==
    ASSUME NEW S, NEW x \in S, NEW s \in Seq(S)
    PROVE  LET t == <<x>> \o s
           IN  /\ t \in Seq(S) /\ Len(t) = Len(s) + 1
               /\ t[1] = x
               /\ \A k \in 1..Len(s) : t[k + 1] = s[k]
OBVIOUS

LEMMA AnthropicText ==
    ASSUME NEW req \in Exchanges, req.api = "anthropic",
           NEW b \in Blocks(req, "text")
    PROVE  /\ BlockLines(req, b) \in Seq(Line) /\ Len(BlockLines(req, b)) = 3
           /\ BlockLines(req, b)[1] = Event("start", NoId, NoPiece)
           /\ BlockLines(req, b)[2] = Event("text", b, NoPiece)
           /\ BlockLines(req, b)[3] = Event("stop", NoId, NoPiece)
<1>1. b \in Nat /\ NoId \in Nat
  BY ExchangeType DEF Blocks, NoId
<1>2. BlockLines(req, b) = << Event("start", NoId, NoPiece),
          Event("text", b, NoPiece), Event("stop", NoId, NoPiece) >>
  BY DEF BlockLines, AnthropicBlock, Blocks
<1>3. /\ Event("start", NoId, NoPiece) \in Line /\ Event("text", b, NoPiece) \in Line
      /\ Event("stop", NoId, NoPiece) \in Line
  BY <1>1, LineTypes DEF LineKinds
<1> QED
  BY <1>2, <1>3

LEMMA AnthropicTool ==
    ASSUME NEW req \in Exchanges, req.api = "anthropic",
           NEW b \in Blocks(req, "tool")
    PROVE  /\ BlockLines(req, b) \in Seq(Line)
           /\ Len(BlockLines(req, b)) = Sent(req, b) + 2
           /\ BlockLines(req, b)[1] = Event("start", b, NoPiece)
           /\ \A k \in 1..Sent(req, b) : BlockLines(req, b)[k + 1]
                  = PieceLine("piece", NoId, b, k, req.answer[b].pieces)
           /\ BlockLines(req, b)[Sent(req, b) + 2] = Event("stop", NoId, NoPiece)
<1> DEFINE n == req.answer[b].pieces
           s == [k \in 1..Sent(req, b) |-> PieceLine("piece", NoId, b, k, n)]
<1>1. b \in Nat /\ NoId \in Nat /\ Sent(req, b) \in Nat /\ n \in Nat
  BY SentType DEF NoId
<1>2. BlockLines(req, b) = << Event("start", b, NoPiece) >> \o s
                           \o << Event("stop", NoId, NoPiece) >>
  BY DEF BlockLines, AnthropicBlock, Blocks, PieceLine
<1>3. /\ s \in Seq(Line) /\ Len(s) = Sent(req, b)
      /\ \A k \in 1..Sent(req, b) : s[k] = PieceLine("piece", NoId, b, k, n)
  <2>1. \A k \in 1..Sent(req, b) : PieceLine("piece", NoId, b, k, n) \in Line
    BY <1>1, LineTypes DEF LineKinds
  <2>2. s \in Seq(Line) /\ Len(s) = Sent(req, b)
    BY <1>1, <2>1
  <2> QED
    BY <2>2
<1>4. Event("start", b, NoPiece) \in Line /\ Event("stop", NoId, NoPiece) \in Line
  BY <1>1, LineTypes DEF LineKinds
<1> HIDE DEF s
<1> QED
  BY <1>2, <1>3, <1>4, Concat3

LEMMA OpenAIText ==
    ASSUME NEW req \in Exchanges, req.api = "openai",
           NEW b \in Blocks(req, "text")
    PROVE  /\ BlockLines(req, b) \in Seq(Line) /\ Len(BlockLines(req, b)) = 1
           /\ BlockLines(req, b)[1] = Event("text", b, NoPiece)
<1>1. b \in Nat
  BY ExchangeType DEF Blocks
<1>2. BlockLines(req, b) = << Event("text", b, NoPiece) >>
  BY DEF BlockLines, OpenAIBlock, Blocks
<1>3. Event("text", b, NoPiece) \in Line
  BY <1>1, LineTypes DEF LineKinds
<1> QED
  BY <1>2, <1>3

LEMMA OpenAITool ==
    ASSUME NEW req \in Exchanges, req.api = "openai",
           NEW b \in Blocks(req, "tool")
    PROVE  /\ BlockLines(req, b) \in Seq(Line)
           /\ Len(BlockLines(req, b)) = Sent(req, b) + 1
           /\ BlockLines(req, b)[1] = Event("call", b, NoPiece)
           /\ \A k \in 1..Sent(req, b) : BlockLines(req, b)[k + 1]
                  = PieceLine("call", b, b, k, req.answer[b].pieces)
<1> DEFINE n == req.answer[b].pieces
           s == [k \in 1..Sent(req, b) |-> PieceLine("call", b, b, k, n)]
<1>1. b \in Nat /\ Sent(req, b) \in Nat /\ n \in Nat
  BY SentType
<1>2. BlockLines(req, b) = << Event("call", b, NoPiece) >> \o s
  BY DEF BlockLines, OpenAIBlock, Blocks, PieceLine
<1>3. /\ s \in Seq(Line) /\ Len(s) = Sent(req, b)
      /\ \A k \in 1..Sent(req, b) : s[k] = PieceLine("call", b, b, k, n)
  <2>1. \A k \in 1..Sent(req, b) : PieceLine("call", b, b, k, n) \in Line
    BY <1>1, LineTypes DEF LineKinds
  <2>2. s \in Seq(Line) /\ Len(s) = Sent(req, b)
    BY <1>1, <2>1
  <2> QED
    BY <2>2
<1>4. Event("call", b, NoPiece) \in Line
  BY <1>1, LineTypes DEF LineKinds
<1> HIDE DEF s
<1> QED
  BY <1>2, <1>3, <1>4, Concat2

LEMMA BlockLinesType ==
    ASSUME NEW req \in Exchanges, NEW b \in DOMAIN req.answer
    PROVE  /\ b \in Blocks(req, "text") \/ b \in Blocks(req, "tool")
           /\ BlockLines(req, b) \in Seq(Line)
           /\ Len(BlockLines(req, b)) \in Nat \ {0}
<1>1. b \in Blocks(req, "text") \/ b \in Blocks(req, "tool")
  BY ExchangeType DEF Blocks
<1>2. req.api \in {"anthropic", "openai"}
  BY ExchangeType
<1>3. b \in Blocks(req, "tool") => Sent(req, b) \in Nat
  BY SentType
<1> QED
  BY <1>1, <1>2, <1>3, AnthropicText, AnthropicTool, OpenAIText, OpenAITool

LEMMA EndingIs ==
    ASSUME NEW req \in Exchanges
    PROVE  /\ Ending(req) \in Seq(Line)
           /\ req.api = "anthropic" =>
                  /\ Len(Ending(req)) = 1
                  /\ Ending(req)[1] = Event("message_stop", NoId, NoPiece)
           /\ req.api = "openai" =>
                  /\ Len(Ending(req)) = 2
                  /\ Ending(req)[1] =
                       Event(IF req.cut THEN "length"
                             ELSE IF HasTool(req) THEN "tool_calls" ELSE "finish",
                             NoId, NoPiece)
                  /\ Ending(req)[2] = Event("[DONE]", NoId, NoPiece)
<1> DEFINE kind == IF req.cut THEN "length"
                   ELSE IF HasTool(req) THEN "tool_calls" ELSE "finish"
<1>1. kind \in LineKinds /\ NoId \in Nat
  BY DEF NoId, LineKinds
<1>2. CASE req.api = "anthropic"
  <2>1. Event("message_stop", NoId, NoPiece) \in Line
    BY <1>1, LineTypes DEF LineKinds
  <2>2. Ending(req) = << Event("message_stop", NoId, NoPiece) >>
    BY <1>2 DEF Ending
  <2> QED
    BY <1>2, <2>1, <2>2
<1>3. CASE req.api = "openai"
  <2> HIDE DEF kind
  <2>1. /\ Event(kind, NoId, NoPiece) \in Line
        /\ Event("[DONE]", NoId, NoPiece) \in Line
    BY <1>1, LineTypes DEF LineKinds
  <2>2. Ending(req) = << Event(kind, NoId, NoPiece), Event("[DONE]", NoId, NoPiece) >>
    BY <1>3 DEF Ending, kind
  <2>3. /\ Ending(req) \in Seq(Line) /\ Len(Ending(req)) = 2
        /\ Ending(req)[1] = Event(kind, NoId, NoPiece)
        /\ Ending(req)[2] = Event("[DONE]", NoId, NoPiece)
    BY <2>1, <2>2
  <2> QED
    BY <1>3, <2>3 DEF kind
<1> QED
  BY <1>2, <1>3, ExchangeType

\* The function by which Body is defined.
Joins(req, g) ==
    g = [i \in 0..Len(req.answer) |->
            IF i = 0 THEN <<>> ELSE g[i - 1] \o BlockLines(req, i)]

LEMMA JoinExists ==
    ASSUME NEW req, Len(req.answer) \in Nat
    PROVE  \E g : Joins(req, g)
<1> DEFINE body(g, n) == IF n = 0 THEN <<>> ELSE g[n - 1] \o BlockLines(req, n)
           P == {n \in Nat : \E g : g = [m \in 0..n |-> body(g, m)]}
<1>1. 0 \in P
  <2> DEFINE h == [m \in 0..0 |-> <<>>]
  <2>1. h = [m \in 0..0 |-> body(h, m)]
    OBVIOUS
  <2>2. \E g : g = [m \in 0..0 |-> body(g, m)]
    <3> HIDE DEF h
    <3> QED
      BY <2>1
  <2> QED
    BY <2>2
<1>2. ASSUME NEW n \in P
      PROVE  n + 1 \in P
  <2>1. PICK g : g = [m \in 0..n |-> body(g, m)]
    OBVIOUS
  <2>2. \A m \in 0..n : g[m] = body(g, m)
    <3> HIDE DEF body
    <3> QED
      BY <2>1
  <2> DEFINE h == [m \in 0..n + 1 |-> IF m <= n THEN g[m] ELSE body(g, n + 1)]
  <2>3. \A m \in 0..n + 1 : h[m] = body(h, m)
    <3> SUFFICES ASSUME NEW m \in 0..n + 1
                 PROVE  h[m] = body(h, m)
      OBVIOUS
    <3>1. m # 0 => m - 1 \in 0..n /\ h[m - 1] = g[m - 1]
      OBVIOUS
    <3>2. h[m] = body(g, m)
      <4>1. CASE m <= n
        BY <2>2, <4>1
      <4>2. CASE m = n + 1
        BY <4>2
      <4> QED
        BY <4>1, <4>2
    <3> QED
      BY <3>1, <3>2
  <2>4. h = [m \in 0..n + 1 |-> body(h, m)]
    BY <2>3
  <2>5. \E f : f = [m \in 0..n + 1 |-> body(f, m)]
    <3> HIDE DEF h
    <3> QED
      BY <2>4
  <2> HIDE DEF body
  <2> QED
    BY <2>5
<1>3. Len(req.answer) \in P
  <2>1. P \in SUBSET Nat
    OBVIOUS
  <2> HIDE DEF P
  <2>2. \A n \in P : n + 1 \in P
    BY <1>2
  <2>3. P = Nat
    BY <1>1, <2>1, <2>2, NumbersInduction
  <2> QED
    BY <2>3
<1> QED
  BY <1>3 DEF Joins

\* g[i] is the lines of the first i blocks.
Joined(req, g) ==
    /\ g[0] = <<>>
    /\ \A i \in 0..Len(req.answer) :
           i < Len(req.answer) => g[i + 1] = g[i] \o BlockLines(req, i + 1)

LEMMA JoinEquations ==
    ASSUME NEW req \in Exchanges
    PROVE  \E g : Joined(req, g) /\ Body(req) = g[Len(req.answer)] \o Ending(req)
<1> DEFINE g == CHOOSE g : Joins(req, g)
<1>0. Len(req.answer) \in Nat
  BY ExchangeType
<1>1. Joins(req, g)
  BY <1>0, JoinExists
<1>2. Body(req) = g[Len(req.answer)] \o Ending(req)
  BY DEF Body, Joins
<1> HIDE DEF g
<1> DEFINE body(i) == IF i = 0 THEN <<>> ELSE g[i - 1] \o BlockLines(req, i)
<1>3. \A i \in 0..Len(req.answer) : g[i] = body(i)
  <2>1. g = [i \in 0..Len(req.answer) |-> body(i)]
    BY <1>1 DEF Joins
  <2> HIDE DEF body
  <2> QED
    BY <2>1
<1>4. g[0] = <<>>
  BY <1>0, <1>3
<1>5. ASSUME NEW i \in 0..Len(req.answer), i < Len(req.answer)
      PROVE  g[i + 1] = g[i] \o BlockLines(req, i + 1)
  <2>1. i + 1 \in 0..Len(req.answer) /\ i + 1 # 0 /\ (i + 1) - 1 = i
    BY <1>0, <1>5
  <2>2. g[i + 1] = body(i + 1)
    <3> HIDE DEF body
    <3> QED
      BY <1>3, <2>1
  <2> QED
    BY <2>1, <2>2
<1>6. Joined(req, g)
  BY <1>4, <1>5 DEF Joined
<1> QED
  BY <1>2, <1>6

StartsWith(u, s) == Len(s) <= Len(u) /\ \A x \in 1..Len(s) : u[x] = s[x]

LEMMA Appended ==
    ASSUME NEW S, NEW s \in Seq(S), NEW t \in Seq(S)
    PROVE  /\ s \o t \in Seq(S) /\ Len(s \o t) = Len(s) + Len(t)
           /\ \A x \in 1..Len(s) : (s \o t)[x] = s[x]
           /\ \A j \in 1..Len(t) : (s \o t)[Len(s) + j] = t[j]
OBVIOUS

LEMMA StartsWithMore ==
    ASSUME NEW S, NEW s \in Seq(S), NEW u \in Seq(S), NEW t \in Seq(S),
           StartsWith(u, s)
    PROVE  StartsWith(u \o t, s)
BY DEF StartsWith

LEMMA StartsWithItself ==
    ASSUME NEW S, NEW s \in Seq(S)
    PROVE  StartsWith(s, s)
BY DEF StartsWith

LEMMA JoinedType ==
    ASSUME NEW req \in Exchanges, NEW g, Joined(req, g)
    PROVE  /\ \A i \in 0..Len(req.answer) : g[i] \in Seq(Line)
           /\ \A i \in 0..Len(req.answer) : i < Len(req.answer) =>
                  BlockLines(req, i + 1) \in Seq(Line)
<1> DEFINE n == Len(req.answer)
           P == {i \in Nat : i <= n => g[i] \in Seq(Line)}
<1>0. n \in Nat /\ DOMAIN req.answer = 1..n
  BY ExchangeType
<1> HIDE DEF n
<1>5. ASSUME NEW i \in 0..n, i < n
      PROVE  BlockLines(req, i + 1) \in Seq(Line)
  <2>1. i + 1 \in DOMAIN req.answer
    BY <1>0, <1>5
  <2> QED
    BY <2>1, BlockLinesType
<1>1. 0 \in P
  <2>1. g[0] \in Seq(Line)
    <3>1. <<>> \in Seq(Line)
      OBVIOUS
    <3> QED
      BY <3>1 DEF Joined
  <2> QED
    BY <2>1
<1>2. ASSUME NEW i \in P
      PROVE  i + 1 \in P
  <2> SUFFICES ASSUME i + 1 <= n
               PROVE  g[i + 1] \in Seq(Line)
    BY <1>0
  <2>1. i \in 0..n /\ i < n /\ g[i] \in Seq(Line)
    BY <1>0
  <2>2. g[i + 1] = g[i] \o BlockLines(req, i + 1)
    BY <2>1 DEF Joined, n
  <2>3. BlockLines(req, i + 1) \in Seq(Line)
    BY <1>5, <2>1
  <2> QED
    BY <2>1, <2>2, <2>3
<1>3. P \in SUBSET Nat
  OBVIOUS
<1>4. \A i \in 0..n : i \in P
  <2> HIDE DEF P
  <2>1. \A i \in P : i + 1 \in P
    BY <1>2
  <2>2. P = Nat
    BY <1>1, <1>3, <2>1, NumbersInduction
  <2> QED
    BY <2>2
<1>6. \A i \in 0..n : g[i] \in Seq(Line)
  BY <1>4
<1> QED
  BY <1>5, <1>6 DEF n

LEMMA JoinedPrefix ==
    ASSUME NEW req \in Exchanges, NEW g, Joined(req, g),
           NEW k \in 0..Len(req.answer)
    PROVE  StartsWith(g[Len(req.answer)], g[k])
<1> DEFINE n == Len(req.answer)
           P == {i \in Nat : k <= i /\ i <= n => StartsWith(g[i], g[k])}
<1>0. g[k] \in Seq(Line) /\ n \in Nat /\ k \in 0..n
  BY JoinedType, ExchangeType
<1> HIDE DEF n
<1>1. 0 \in P
  <2>1. StartsWith(g[k], g[k])
    BY <1>0, StartsWithItself
  <2>2. k <= 0 => k = 0
    BY <1>0
  <2> QED
    BY <2>1, <2>2
<1>2. ASSUME NEW i \in P
      PROVE  i + 1 \in P
  <2> SUFFICES ASSUME k <= i + 1, i + 1 <= n
               PROVE  StartsWith(g[i + 1], g[k])
    OBVIOUS
  <2>1. CASE k = i + 1
    BY <1>0, <2>1, StartsWithItself
  <2>2. CASE k <= i
    <3>1. StartsWith(g[i], g[k]) /\ i \in 0..n /\ i < n
      BY <1>0, <2>2
    <3>2. g[i] \in Seq(Line) /\ BlockLines(req, i + 1) \in Seq(Line)
      BY <3>1, JoinedType DEF n
    <3>3. g[i + 1] = g[i] \o BlockLines(req, i + 1)
      BY <3>1 DEF Joined, n
    <3> QED
      BY <1>0, <3>1, <3>2, <3>3, StartsWithMore
  <2> QED
    BY <1>0, <2>1, <2>2
<1>3. P \in SUBSET Nat
  OBVIOUS
<1>4. n \in P
  <2> HIDE DEF P
  <2>1. \A i \in P : i + 1 \in P
    BY <1>2
  <2>2. P = Nat
    BY <1>1, <1>3, <2>1, NumbersInduction
  <2> QED
    BY <1>0, <2>2
<1>5. k <= n /\ n <= n
  BY <1>0
<1> QED
  BY <1>4, <1>5 DEF n

\* L gives how many lines stand before each block and before the ending.
Layout(req, L) ==
    LET n == Len(req.answer)
    IN  /\ L \in [0..n -> Nat] /\ L[0] = 0
        /\ Body(req) \in Seq(Line)
        /\ Len(Body(req)) = L[n] + Len(Ending(req))
        /\ \A i \in 0..n : i < n =>
              /\ L[i + 1] = L[i] + Len(BlockLines(req, i + 1))
              /\ \A j \in 1..Len(BlockLines(req, i + 1)) :
                    Body(req)[L[i] + j] = BlockLines(req, i + 1)[j]
        /\ \A j \in 1..Len(Ending(req)) : Body(req)[L[n] + j] = Ending(req)[j]

LEMMA LayoutExists ==
    ASSUME NEW req \in Exchanges
    PROVE  \E L : Layout(req, L)
<1> DEFINE n == Len(req.answer)
<1>0. n \in Nat /\ Ending(req) \in Seq(Line)
  BY ExchangeType, EndingIs
<1>1. PICK g : Joined(req, g) /\ Body(req) = g[n] \o Ending(req)
  BY JoinEquations
<1> DEFINE L == [i \in 0..n |-> Len(g[i])]
<1>4. /\ \A i \in 0..n : g[i] \in Seq(Line)
      /\ \A i \in 0..n : i < n => BlockLines(req, i + 1) \in Seq(Line)
  BY <1>1, JoinedType
<1>3. /\ \A i \in 0..n : StartsWith(g[n], g[i])
      /\ \A i \in 0..n : i < n => g[i + 1] = g[i] \o BlockLines(req, i + 1)
  BY <1>1, JoinedPrefix DEF Joined
<1> HIDE DEF n
<1>5. L \in [0..n -> Nat] /\ L[0] = 0 /\ L[n] = Len(g[n])
  <2>1. g[0] = <<>>
    BY <1>1 DEF Joined
  <2> QED
    BY <1>0, <1>4, <2>1
<1> DEFINE v == g[n]
           B == Body(req)
<1>6. /\ B \in Seq(Line) /\ v \in Seq(Line)
      /\ Len(B) = Len(v) + Len(Ending(req))
      /\ \A x \in 1..Len(v) : B[x] = v[x]
      /\ \A j \in 1..Len(Ending(req)) : B[Len(v) + j] = Ending(req)[j]
  <2>1. v \in Seq(Line) /\ B = v \o Ending(req)
    BY <1>0, <1>1, <1>4 DEF n
  <2> HIDE DEF v, B
  <2> QED
    BY <1>0, <2>1, Appended
<1>7. ASSUME NEW k \in 0..n, k < n
      PROVE  /\ L[k + 1] = L[k] + Len(BlockLines(req, k + 1))
             /\ \A j \in 1..Len(BlockLines(req, k + 1)) :
                   B[L[k] + j] = BlockLines(req, k + 1)[j]
  <2> DEFINE s == g[k]
             t == BlockLines(req, k + 1)
             u == g[k + 1]
  <2>1. k + 1 \in 0..n
    BY <1>0, <1>7
  <2>2. s \in Seq(Line) /\ t \in Seq(Line) /\ u = s \o t
    BY <1>3, <1>4, <1>7
  <2>3. StartsWith(v, u)
    BY <1>3, <2>1
  <2>4. L[k + 1] = Len(u) /\ L[k] = Len(s)
    BY <2>1
  <2> HIDE DEF s, t, u, v, B, L
  <2>6. ASSUME NEW j \in 1..Len(t)
        PROVE  B[Len(s) + j] = t[j]
    <3>0. Len(s) \in Nat /\ Len(t) \in Nat /\ Len(v) \in Nat
      BY <1>6, <2>2
    <3>1. Len(u) = Len(s) + Len(t) /\ u[Len(s) + j] = t[j]
      BY <2>2, Appended
    <3>2. Len(s) + j \in 1..Len(u)
      BY <3>0, <3>1
    <3>3. Len(s) + j \in 1..Len(v) /\ v[Len(s) + j] = u[Len(s) + j]
      BY <2>3, <3>0, <3>1, <3>2 DEF StartsWith
    <3> QED
      BY <1>6, <3>1, <3>3
  <2>7. Len(u) = Len(s) + Len(t)
    BY <2>2, Appended
  <2> QED
    BY <2>4, <2>6, <2>7 DEF t
<1>8. /\ L[n] + Len(Ending(req)) = Len(B)
      /\ \A j \in 1..Len(Ending(req)) : B[L[n] + j] = Ending(req)[j]
  BY <1>5, <1>6
<1> HIDE DEF L
<1>9. Layout(req, L)
  BY <1>5, <1>6, <1>7, <1>8 DEF Layout, n, B
<1> QED
  BY <1>9

Starts(req) == CHOOSE L : Layout(req, L)

LEMMA StartsIs ==
    ASSUME NEW req \in Exchanges
    PROVE  Layout(req, Starts(req))
BY LayoutExists DEF Starts

\* How many lines of the body are among the first q lines of the events.
IsOdd(req, q) == req.odd # "none" /\ q = req.oddAt
BodyLines(req, q) == IF req.odd # "none" /\ req.oddAt <= q THEN q - 1 ELSE q
OddLine(req) == Event(req.odd, NoId, NoPiece)

LEMMA EventLinesIs ==
    ASSUME NEW req \in Exchanges
    PROVE  LET E == EventLines(req)
           IN  /\ E \in Seq(Line)
               /\ Len(E) = IF req.odd = "none" THEN Len(Body(req))
                           ELSE Len(Body(req)) + 1
               /\ \A q \in 1..Len(E) : E[q] = IF IsOdd(req, q) THEN OddLine(req)
                                              ELSE Body(req)[BodyLines(req, q)]
               /\ \A q \in 1..Len(E) : ~IsOdd(req, q) =>
                      BodyLines(req, q) \in 1..Len(Body(req))
<1> DEFINE B == Body(req)
           E == EventLines(req)
           a == req.oddAt
           odd == OddLine(req)
<1>1. B \in Seq(Line) /\ Len(B) \in Nat
  BY StartsIs DEF Layout
<1>2. CASE req.odd = "none"
  <2>1. E = B
    BY <1>2 DEF EventLines
  <2> QED
    BY <1>1, <1>2, <2>1 DEF IsOdd, BodyLines
<1>3. CASE req.odd # "none"
  <2>1. a \in 1..Len(B)
    BY <1>3, ExchangeType
  <2>2. odd \in Line
    <3>1. req.odd \in LineKinds /\ NoId \in Nat
      BY <1>3, ExchangeType DEF LineKinds, NoId
    <3> QED
      BY <3>1, LineTypes DEF OddLine
  <2>3. E = [l \in 1..Len(B) + 1 |-> IF l < a THEN B[l]
                                     ELSE IF l > a THEN B[l - 1] ELSE odd]
    BY <1>3 DEF EventLines, OddLine
  <2> HIDE DEF B, E, a, odd
  <2>4. E \in Seq(Line) /\ Len(E) = Len(B) + 1
    <3>1. \A l \in 1..Len(B) + 1 : (IF l < a THEN B[l]
                                     ELSE IF l > a THEN B[l - 1] ELSE odd) \in Line
      BY <1>1, <2>1, <2>2
    <3> QED
      BY <1>1, <2>3, <3>1
  <2>5. \A q \in 1..Len(E) : E[q] = IF IsOdd(req, q) THEN odd
                                    ELSE B[BodyLines(req, q)]
    BY <1>1, <1>3, <2>1, <2>3, <2>4 DEF IsOdd, BodyLines, a
  <2>6. \A q \in 1..Len(E) : ~IsOdd(req, q) => BodyLines(req, q) \in 1..Len(B)
    BY <1>1, <1>3, <2>1, <2>4 DEF IsOdd, BodyLines, a
  <2> QED
    BY <1>3, <2>4, <2>5, <2>6 DEF B, E, odd
<1> QED
  BY <1>2, <1>3

-----------------------------------------------------------------------------
(* --------------------------- the buffer -------------------------------- *)

Frag == Range3(Line)

LEMMA LineOfType ==
    ASSUME NEW e \in Line
    PROVE  LineOf(e) \o <<NL>> \in Seq(Frag) /\ Len(LineOf(e) \o <<NL>>) = 3
           /\ (LineOf(e) \o <<NL>>)[1] = <<e, 1>>
           /\ (LineOf(e) \o <<NL>>)[2] = <<e, 2>>
           /\ (LineOf(e) \o <<NL>>)[3] = NL
<1>1. Fragment(e, 1) \in Frag /\ Fragment(e, 2) \in Frag /\ Fragment(e, 3) \in Frag
  BY DEF Frag, Range3
<1>2. <<e, 1>> \in Frag /\ <<e, 2>> \in Frag /\ NL \in Frag
  BY <1>1 DEF Fragment
<1> DEFINE x == <<e, 1>>
           y == <<e, 2>>
           z == NL
<1>3. LineOf(e) = <<x, y>>
  BY DEF LineOf
<1> HIDE DEF x, y, z
<1>4. x \in Frag /\ y \in Frag /\ z \in Frag
  BY <1>2 DEF x, y, z
<1>5. LET t == <<x, y>> \o <<z>>
      IN  t \in Seq(Frag) /\ Len(t) = 3 /\ t[1] = x /\ t[2] = y /\ t[3] = z
  BY <1>4
<1> QED
  BY <1>3, <1>5 DEF x, y, z

\* The fragments after the first k lines are those of the lines after them.
LEMMA FragmentsAfter ==
    ASSUME NEW lines \in Seq(Line), NEW k \in 0..Len(lines)
    PROVE  SubSeq(Fragments(lines), 3 * k + 1, Len(Fragments(lines)))
               = Fragments(SubSeq(lines, k + 1, Len(lines)))
<1> DEFINE n == Len(lines)
           F == Fragments(lines)
           more == SubSeq(lines, k + 1, n)
           G == Fragments(more)
           t == SubSeq(F, 3 * k + 1, Len(F))
<1>1. F \in Seq(Frag) /\ Len(F) = 3 * n
  BY FragmentsType DEF Frag
<1>2. /\ more \in Seq(Line) /\ Len(more) = n - k
      /\ \A i \in 1..n - k : more[i] = lines[k + i]
  OBVIOUS
<1>3. G \in Seq(Frag) /\ Len(G) = 3 * (n - k)
  <2> HIDE DEF more
  <2> QED
    BY <1>2, FragmentsType DEF Frag
<1>4. /\ t \in Seq(Frag) /\ Len(t) = 3 * (n - k)
      /\ \A f \in 1..3 * (n - k) : t[f] = F[3 * k + f]
  <2> HIDE DEF F
  <2> QED
    BY <1>1
<1>5. ASSUME NEW f \in 1..3 * (n - k)
      PROVE  t[f] = G[f]
  <2>1. PICK q \in Nat, r \in 0..2 : f - 1 = 3 * q + r
    <3>1. f - 1 \in Nat
      OBVIOUS
    <3> QED
      BY <3>1, Thirds
  <2>2. q \in 0..(n - k) - 1 /\ k + q \in 0..n - 1
    BY <2>1
  <2>3. /\ F[3 * (k + q) + 1] = <<lines[(k + q) + 1], 1>>
        /\ F[3 * (k + q) + 2] = <<lines[(k + q) + 1], 2>>
        /\ F[3 * (k + q) + 3] = NL
    BY <2>2, FragmentAt
  <2>4. /\ G[3 * q + 1] = <<more[q + 1], 1>>
        /\ G[3 * q + 2] = <<more[q + 1], 2>>
        /\ G[3 * q + 3] = NL
    <3> HIDE DEF more
    <3> QED
      BY <1>2, <2>2, FragmentAt
  <2>5. more[q + 1] = lines[(k + q) + 1]
    <3>1. q + 1 \in 1..n - k /\ k + (q + 1) = (k + q) + 1
      BY <2>2
    <3> HIDE DEF more
    <3> QED
      BY <1>2, <3>1
  <2>6. t[f] = F[3 * k + f]
    BY <1>4
  <2> HIDE DEF t, F, G, more
  <2>7. CASE r = 0
    <3>1. f = 3 * q + 1 /\ 3 * k + f = 3 * (k + q) + 1
      BY <2>1, <2>7
    <3> QED
      BY <2>3, <2>4, <2>5, <2>6, <3>1
  <2>8. CASE r = 1
    <3>1. f = 3 * q + 2 /\ 3 * k + f = 3 * (k + q) + 2
      BY <2>1, <2>8
    <3> QED
      BY <2>3, <2>4, <2>5, <2>6, <3>1
  <2>9. CASE r = 2
    <3>1. f = 3 * q + 3 /\ 3 * k + f = 3 * (k + q) + 3
      BY <2>1, <2>9
    <3> QED
      BY <2>3, <2>4, <2>5, <2>6, <3>1
  <2> QED
    BY <2>7, <2>8, <2>9
<1> HIDE DEF t, G
<1>6. t = G
  BY <1>3, <1>4, <1>5, SeqEqual
<1> QED
  BY <1>6 DEF t, G

\* Two sequences of fragments one after the other.
LEMMA FragsAppended ==
    ASSUME NEW s \in Seq(Frag), NEW t \in Seq(Frag)
    PROVE  /\ s \o t \in Seq(Frag) /\ Len(s \o t) = Len(s) + Len(t)
           /\ \A x \in 1..Len(s) : (s \o t)[x] = s[x]
           /\ \A j \in 1..Len(t) : (s \o t)[Len(s) + j] = t[j]
OBVIOUS

LEMMA Halves ==
    ASSUME NEW s \in Seq(Frag), NEW a \in 1..Len(s) + 1, NEW m \in Nat,
           a <= m + 1, m <= Len(s)
    PROVE  SubSeq(s, a, m) \o SubSeq(s, m + 1, Len(s)) = SubSeq(s, a, Len(s))
<1> DEFINE x == SubSeq(s, a, m)
           y == SubSeq(s, m + 1, Len(s))
           z == SubSeq(s, a, Len(s))
<1>1. /\ x \in Seq(Frag) /\ Len(x) = m + 1 - a
      /\ \A i \in 1..m + 1 - a : x[i] = s[a + i - 1]
  OBVIOUS
<1>2. /\ y \in Seq(Frag) /\ Len(y) = Len(s) - m
      /\ \A i \in 1..Len(s) - m : y[i] = s[m + i]
  OBVIOUS
<1>3. /\ z \in Seq(Frag) /\ Len(z) = Len(s) + 1 - a
      /\ \A i \in 1..Len(s) + 1 - a : z[i] = s[a + i - 1]
  OBVIOUS
<1> HIDE DEF x, y, z
<1>4. x \o y \in Seq(Frag) /\ Len(x \o y) = Len(z)
  BY <1>1, <1>2, <1>3
<1>5. ASSUME NEW i \in 1..Len(z)
      PROVE  (x \o y)[i] = z[i]
  <2>1. CASE i <= Len(x)
    <3>1. i \in 1..Len(x) /\ i \in 1..m + 1 - a /\ i \in 1..Len(s) + 1 - a
      BY <1>1, <1>3, <2>1
    <3>2. (x \o y)[i] = x[i]
      <4>1. \A k \in 1..Len(x) : (x \o y)[k] = x[k]
        BY <1>1, <1>2, FragsAppended
      <4> QED
        BY <3>1, <4>1
    <3>3. x[i] = s[a + i - 1]
      BY <1>1, <3>1
    <3>4. z[i] = s[a + i - 1]
      BY <1>3, <3>1
    <3> QED
      BY <3>2, <3>3, <3>4
  <2>2. CASE i > Len(x)
    <3>2. /\ i - Len(x) \in 1..Len(s) - m /\ m + (i - Len(x)) = a + i - 1
          /\ Len(x) + (i - Len(x)) = i
      BY <1>1, <1>3, <2>2, SMTT(30)
    <3>1. (x \o y)[i] = y[i - Len(x)]
      <4>1. \A j \in 1..Len(y) : (x \o y)[Len(x) + j] = y[j]
        BY <1>1, <1>2, FragsAppended
      <4> QED
        BY <1>2, <3>2, <4>1
    <3>3. y[i - Len(x)] = s[a + i - 1]
      BY <1>2, <3>2
    <3> QED
      BY <1>3, <3>1, <3>3
  <2>3. i <= Len(x) \/ i > Len(x)
    BY <1>1, <1>3
  <2> QED
    BY <2>1, <2>2, <2>3, Zenon
<1>6. x \o y = z
  BY <1>3, <1>4, <1>5, SeqEqual
<1> QED
  BY <1>6 DEF x, y, z

LEMMA Whole ==
    ASSUME NEW s \in Seq(Frag)
    PROVE  SubSeq(s, 1, Len(s)) = s
<1> DEFINE t == SubSeq(s, 1, Len(s))
<1>1. t \in Seq(Frag) /\ Len(t) = Len(s) /\ \A i \in 1..Len(s) : t[i] = s[i]
  OBVIOUS
<1> HIDE DEF t
<1>2. t = s
  BY <1>1, SeqEqual
<1> QED
  BY <1>2 DEF t

\* One line more in front.
LEMMA FragmentsOfOneMore ==
    ASSUME NEW e \in Line, NEW lines \in Seq(Line)
    PROVE  Fragments(<<e>> \o lines) = (LineOf(e) \o <<NL>>) \o Fragments(lines)
<1> DEFINE more == <<e>> \o lines
           F == Fragments(more)
           x == LineOf(e) \o <<NL>>
           y == SubSeq(F, 1, 3)
<1>1. /\ more \in Seq(Line) /\ Len(more) = Len(lines) + 1 /\ more[1] = e
  OBVIOUS
<1>2. SubSeq(more, 2, Len(more)) = lines
  <2> DEFINE t == SubSeq(more, 2, Len(more))
  <2>1. t \in Seq(Line) /\ Len(t) = Len(lines) /\ \A i \in 1..Len(lines) : t[i] = lines[i]
    OBVIOUS
  <2> HIDE DEF t
  <2>2. t = lines
    BY <2>1, SeqEqual
  <2> QED
    BY <2>2 DEF t
<1> HIDE DEF more
<1>3. F \in Seq(Frag) /\ Len(F) = 3 * Len(more)
  BY <1>1, FragmentsType DEF Frag
<1>4. SubSeq(F, 4, Len(F)) = Fragments(lines)
  <2>1. 1 \in 0..Len(more) /\ 3 * 1 + 1 = 4 /\ 1 + 1 = 2
    BY <1>1
  <2>2. SubSeq(F, 3 * 1 + 1, Len(F)) = Fragments(SubSeq(more, 1 + 1, Len(more)))
    BY <1>1, <2>1, FragmentsAfter
  <2> QED
    BY <1>2, <2>1, <2>2
<1>5. F[1] = <<e, 1>> /\ F[2] = <<e, 2>> /\ F[3] = NL
  <2>1. 0 \in 0..Len(more) - 1 /\ 3 * 0 + 1 = 1 /\ 3 * 0 + 2 = 2 /\ 3 * 0 + 3 = 3
        /\ 0 + 1 = 1
    BY <1>1
  <2>2. /\ F[3 * 0 + 1] = <<more[0 + 1], 1>>
        /\ F[3 * 0 + 2] = <<more[0 + 1], 2>>
        /\ F[3 * 0 + 3] = NL
    BY <1>1, <2>1, FragmentAt
  <2> QED
    BY <1>1, <2>1, <2>2
<1>6. x \in Seq(Frag) /\ Len(x) = 3 /\ x[1] = <<e, 1>> /\ x[2] = <<e, 2>> /\ x[3] = NL
  BY LineOfType
<1> HIDE DEF F, x
<1>7. y \in Seq(Frag) /\ Len(y) = 3 /\ y[1] = F[1] /\ y[2] = F[2] /\ y[3] = F[3]
  BY <1>1, <1>3
<1> HIDE DEF y
<1>8. x = y
  <2>1. ASSUME NEW i \in 1..Len(x)
        PROVE  x[i] = y[i]
    <3>1. i = 1 \/ i = 2 \/ i = 3
      BY <1>6
    <3> QED
      BY <1>5, <1>6, <1>7, <3>1
  <2> QED
    BY <1>6, <1>7, <2>1, SeqEqual
<1>9. SubSeq(F, 1, 3) \o SubSeq(F, 4, Len(F)) = F
  <2>1. 1 \in 1..Len(F) + 1 /\ 3 \in Nat /\ 1 <= 3 + 1 /\ 3 <= Len(F) /\ 3 + 1 = 4
    BY <1>1, <1>3
  <2>2. SubSeq(F, 1, 3) \o SubSeq(F, 3 + 1, Len(F)) = SubSeq(F, 1, Len(F))
    BY <1>3, <2>1, Halves
  <2> QED
    BY <1>3, <2>1, <2>2, Whole
<1> QED
  BY <1>4, <1>8, <1>9 DEF F, x, y, more

\* The broken line is put back whenever it is read.
PutBack(req, q) ==
    IF req.odd = "broken" /\ req.oddAt <= q THEN LineOf(OddLine(req)) \o <<NL>>
    ELSE <<>>

\* The lines in the buffer and on the wire when q lines of the events have been read.
Unread(req, q) ==
    LET E == EventLines(req)
        new == SubSeq(E, q + 1, Len(E))
    IN  IF req.odd = "broken" /\ req.oddAt <= q THEN <<OddLine(req)>> \o new ELSE new

LEMMA OddLineType ==
    ASSUME NEW req \in Exchanges, req.odd # "none"
    PROVE  OddLine(req) \in Line
<1>1. req.odd \in LineKinds /\ NoId \in Nat
  BY ExchangeType DEF LineKinds, NoId
<1> QED
  BY <1>1, LineTypes DEF OddLine

LEMMA PutBackType ==
    ASSUME NEW req \in Exchanges, NEW q \in Nat
    PROVE  PutBack(req, q) \in Seq(Frag)
<1>1. CASE req.odd = "broken" /\ req.oddAt <= q
  BY <1>1, OddLineType, LineOfType DEF PutBack
<1>2. CASE ~(req.odd = "broken" /\ req.oddAt <= q)
  <2>1. PutBack(req, q) = <<>>
    BY <1>2 DEF PutBack
  <2> QED
    BY <2>1
<1> QED
  BY <1>1, <1>2

LEMMA UnreadType ==
    ASSUME NEW req \in Exchanges, NEW q \in 0..Len(EventLines(req))
    PROVE  LET E == EventLines(req)
           IN  /\ Unread(req, q) \in Seq(Line)
               /\ Fragments(Unread(req, q))
                      = PutBack(req, q) \o Fragments(SubSeq(E, q + 1, Len(E)))
<1> DEFINE E == EventLines(req)
           new == SubSeq(E, q + 1, Len(E))
<1>1. E \in Seq(Line)
  BY EventLinesIs
<1>2. new \in Seq(Line)
  <2> HIDE DEF E
  <2> QED
    BY <1>1
<1> HIDE DEF new
<1>3. CASE req.odd = "broken" /\ req.oddAt <= q
  <2>1. OddLine(req) \in Line
    BY <1>3, OddLineType
  <2>2. /\ Unread(req, q) = <<OddLine(req)>> \o new
        /\ PutBack(req, q) = LineOf(OddLine(req)) \o <<NL>>
    BY <1>3 DEF Unread, PutBack, new
  <2>3. /\ <<OddLine(req)>> \o new \in Seq(Line)
        /\ Fragments(<<OddLine(req)>> \o new)
               = (LineOf(OddLine(req)) \o <<NL>>) \o Fragments(new)
    <3>1. <<OddLine(req)>> \o new \in Seq(Line)
      BY <1>2, <2>1
    <3> QED
      BY <1>2, <2>1, <3>1, FragmentsOfOneMore, Zenon
  <2> QED
    BY <2>2, <2>3 DEF new
<1>4. CASE ~(req.odd = "broken" /\ req.oddAt <= q)
  <2>1. Unread(req, q) = new /\ PutBack(req, q) = <<>>
    BY <1>4 DEF Unread, PutBack, new
  <2>2. Fragments(new) \in Seq(Frag)
    BY <1>2, FragmentsType DEF Frag
  <2>3. <<>> \o Fragments(new) = Fragments(new)
    <3> DEFINE G == Fragments(new)
    <3> HIDE DEF G
    <3>1. G \in Seq(Frag) => <<>> \o G = G
      OBVIOUS
    <3> QED
      BY <2>2, <3>1 DEF G
  <2> QED
    BY <1>2, <2>1, <2>3 DEF new
<1> QED
  BY <1>3, <1>4

\* What a chunk adds to the buffer and takes from the wire.
LEMMA Received ==
    ASSUME NEW F \in Seq(Frag), NEW x \in Seq(Frag), NEW w \in Seq(Frag),
           x \o w = F, NEW n \in Nat, n <= Len(w)
    PROVE  /\ Len(x) + n \in 0..Len(F)
           /\ x \o SubSeq(w, 1, n) = SubSeq(F, 1, Len(x) + n)
           /\ SubSeq(w, n + 1, Len(w)) = SubSeq(F, Len(x) + n + 1, Len(F))
<1> DEFINE m == Len(x) + n
           a == SubSeq(w, 1, n)
           b == SubSeq(F, 1, m)
           c == SubSeq(w, n + 1, Len(w))
           d == SubSeq(F, m + 1, Len(F))
<1>1. /\ Len(F) = Len(x) + Len(w)
      /\ \A i \in 1..Len(x) : F[i] = x[i]
      /\ \A j \in 1..Len(w) : F[Len(x) + j] = w[j]
  BY Appended
<1>2. m \in 0..Len(F) /\ Len(x) \in Nat /\ Len(w) \in Nat
  BY <1>1
<1> HIDE DEF m
<1>3. /\ a \in Seq(Frag) /\ Len(a) = n /\ \A i \in 1..n : a[i] = w[i]
  OBVIOUS
<1>4. /\ b \in Seq(Frag) /\ Len(b) = m /\ \A i \in 1..m : b[i] = F[i]
  BY <1>2
<1>5. /\ c \in Seq(Frag) /\ Len(c) = Len(w) - n
      /\ \A i \in 1..Len(w) - n : c[i] = w[n + i]
  OBVIOUS
<1>6. /\ d \in Seq(Frag) /\ Len(d) = Len(F) - m
      /\ \A i \in 1..Len(F) - m : d[i] = F[m + i]
  BY <1>2
<1> HIDE DEF a, b, c, d
<1>7. c = d
  <2>1. Len(c) = Len(d)
    BY <1>1, <1>2, <1>5, <1>6 DEF m
  <2>2. ASSUME NEW i \in 1..Len(c)
        PROVE  c[i] = d[i]
    <3>1. /\ i \in 1..Len(w) - n /\ i \in 1..Len(F) - m /\ n + i \in 1..Len(w)
          /\ m + i = Len(x) + (n + i)
      BY <1>1, <1>2, <1>5, <1>6 DEF m
    <3> QED
      BY <1>1, <1>5, <1>6, <3>1, ZenonT(30)
  <2> QED
    BY <1>5, <1>6, <2>1, <2>2, SeqEqual
<1>8. x \o a = b
  <2>1. /\ x \o a \in Seq(Frag) /\ Len(x \o a) = m
        /\ \A i \in 1..Len(x) : (x \o a)[i] = x[i]
        /\ \A j \in 1..Len(a) : (x \o a)[Len(x) + j] = a[j]
    <3>1. /\ x \o a \in Seq(Frag) /\ Len(x \o a) = Len(x) + Len(a)
          /\ \A i \in 1..Len(x) : (x \o a)[i] = x[i]
          /\ \A j \in 1..Len(a) : (x \o a)[Len(x) + j] = a[j]
      BY <1>3, FragsAppended, Zenon
    <3> QED
      BY <1>3, <3>1 DEF m
  <2> DEFINE y == x \o a
  <2> HIDE DEF y
  <2>2. ASSUME NEW i \in 1..m
        PROVE  y[i] = b[i]
    <3>1. CASE i \in 1..Len(x)
      BY <1>1, <1>4, <2>1, <3>1 DEF y
    <3>2. CASE i \in Len(x) + 1..m
      <4>1. /\ i - Len(x) \in 1..n /\ Len(x) + (i - Len(x)) = i
            /\ i - Len(x) \in 1..Len(w)
        BY <1>2, <3>2 DEF m
      <4>2. y[i] = a[i - Len(x)]
        <5>1. y[Len(x) + (i - Len(x))] = a[i - Len(x)]
          BY <1>3, <2>1, <4>1 DEF y
        <5> QED
          BY <4>1, <5>1
      <4>3. F[i] = w[i - Len(x)]
        <5>1. F[Len(x) + (i - Len(x))] = w[i - Len(x)]
          BY <1>1, <4>1
        <5> QED
          BY <4>1, <5>1
      <4> QED
        BY <1>3, <1>4, <4>1, <4>2, <4>3
    <3>3. i \in 1..Len(x) \/ i \in Len(x) + 1..m
      BY <1>2
    <3> QED
      BY <3>1, <3>2, <3>3
  <2>3. y \in Seq(Frag) /\ Len(y) = Len(b)
    BY <1>4, <2>1 DEF y
  <2>4. y = b
    BY <1>4, <2>2, <2>3, SeqEqual
  <2> QED
    BY <2>4 DEF y
<1>9. Len(x) + n + 1 = m + 1
  BY DEF m
<1> QED
  BY <1>2, <1>7, <1>8, <1>9 DEF a, b, c, d, m

LEMMA BothReceived ==
    ASSUME NEW F \in Seq(Frag), NEW x \in Seq(Frag), NEW w \in Seq(Frag),
           x \o w = F, NEW n \in Nat, n <= Len(w)
    PROVE  x \o SubSeq(w, 1, n) = SubSeq(F, 1, Len(x) + n)
BY Received, SMTT(30)

LEMMA NotReceived ==
    ASSUME NEW F \in Seq(Frag), NEW x \in Seq(Frag), NEW w \in Seq(Frag),
           x \o w = F, NEW n \in Nat, n <= Len(w)
    PROVE  SubSeq(w, n + 1, Len(w)) = SubSeq(F, Len(x) + n + 1, Len(F))
BY Received, SMTT(30)

LEMMA Associative ==
    ASSUME NEW x \in Seq(Frag), NEW y \in Seq(Frag), NEW z \in Seq(Frag)
    PROVE  (x \o y) \o z = x \o (y \o z)
BY SMTT(30)

IsPutBack(req, q) == req.odd = "broken" /\ req.oddAt <= q

\* What the next chunks bring, after the first k complete lines of this one.
LEMMA Kept ==
    ASSUME NEW req \in Exchanges, NEW q \in 0..Len(EventLines(req)),
           NEW m \in 0..Len(Fragments(Unread(req, q))),
           NEW i \in Nat, m \div 3 = i + (IF IsPutBack(req, q) THEN 1 ELSE 0)
    PROVE  LET F == Fragments(Unread(req, q))
               rest == SubSeq(F, 3 * (m \div 3) + 1, m)
           IN  /\ q + i \in 0..Len(EventLines(req))
               /\ rest \in Seq(Frag)
               /\ PutBack(req, q + i) \o rest \in Seq(Frag)
               /\ Len(PutBack(req, q + i) \o rest) >= Len(PutBack(req, q + i))
               /\ (PutBack(req, q + i) \o rest) \o SubSeq(F, m + 1, Len(F))
                      = Fragments(Unread(req, q + i))
<1> DEFINE E == EventLines(req)
           N == Len(E)
           es == Unread(req, q)
           F == Fragments(es)
           k == m \div 3
           p == IF IsPutBack(req, q) THEN 1 ELSE 0
           rest == SubSeq(F, 3 * k + 1, m)
           more == SubSeq(F, m + 1, Len(F))
           back == PutBack(req, q + i)
           left == SubSeq(E, q + i + 1, N)
<1>1. E \in Seq(Line) /\ N \in Nat /\ q \in 0..N
  BY EventLinesIs
<1>2. es \in Seq(Line) /\ F \in Seq(Frag) /\ Len(F) = 3 * Len(es)
  <2>1. es \in Seq(Line)
    BY UnreadType
  <2> HIDE DEF es
  <2> QED
    BY <2>1, FragmentsType DEF Frag
<1>3. k \in 0..Len(es) /\ 3 * k <= m /\ m \in 0..Len(F)
  <2>1. PICK a \in Nat, r \in 0..2 : m = 3 * a + r /\ k = a
    BY <1>2, Thirds
  <2>2. Len(es) \in Nat /\ m \in 0..Len(F)
    BY <1>2
  <2> HIDE DEF F, es, k
  <2>3. 3 * k <= m /\ m <= 3 * Len(es)
    BY <1>2, <2>1, <2>2
  <2>4. k \in Nat /\ k <= Len(es)
    BY <2>1, <2>2, <2>3
  <2> QED
    BY <2>2, <2>3, <2>4
<1>4. k = i + p /\ p \in {0, 1}
  OBVIOUS
<1>5. /\ Len(es) = N - q + p
      /\ \A j \in 1..N - q : es[p + j] = E[q + j]
  <2> DEFINE new == SubSeq(E, q + 1, N)
  <2>1. /\ new \in Seq(Line) /\ Len(new) = N - q
        /\ \A j \in 1..N - q : new[j] = E[q + j]
    <3> HIDE DEF E
    <3> QED
      BY <1>1
  <2>2. CASE IsPutBack(req, q)
    <3>1. es = <<OddLine(req)>> \o new /\ p = 1
      BY <2>2 DEF Unread, IsPutBack
    <3>2. OddLine(req) \in Line
      BY <2>2, OddLineType DEF IsPutBack
    <3> HIDE DEF new, es, p, E
    <3>3. /\ Len(es) = Len(new) + 1
          /\ \A j \in 1..Len(new) : es[1 + j] = new[j]
      BY <2>1, <3>1, <3>2
    <3> QED
      BY <2>1, <3>1, <3>3
  <2>3. CASE ~IsPutBack(req, q)
    <3>1. es = new /\ p = 0
      BY <2>3 DEF Unread, IsPutBack
    <3> HIDE DEF new, es, p, E
    <3> QED
      BY <1>1, <2>1, <3>1
  <2> QED
    BY <2>2, <2>3
<1> HIDE DEF p, k
<1>6. q + i \in 0..N /\ q \in Nat
  <2> HIDE DEF E, es
  <2> QED
    BY <1>1, <1>3, <1>4, <1>5
<1>7. left \in Seq(Line) /\ SubSeq(es, k + 1, Len(es)) = left
  <2>1. /\ left \in Seq(Line) /\ Len(left) = N - (q + i)
        /\ \A j \in 1..N - (q + i) : left[j] = E[q + i + j]
    <3> HIDE DEF E
    <3> QED
      BY <1>1, <1>6
  <2> DEFINE t == SubSeq(es, k + 1, Len(es))
  <2>2. /\ t \in Seq(Line) /\ Len(t) = Len(es) - k
        /\ \A j \in 1..Len(es) - k : t[j] = es[k + j]
    <3> HIDE DEF es
    <3> QED
      BY <1>2, <1>3
  <2> HIDE DEF t, left, E, es
  <2>3. Len(t) = Len(left) /\ Len(left) \in Nat
    BY <1>1, <1>3, <1>4, <1>5, <1>6, <2>1, <2>2
  <2>4. ASSUME NEW j \in 1..Len(t)
        PROVE  t[j] = left[j]
    <3>1. /\ j \in 1..N - (q + i) /\ j \in 1..Len(es) - k
          /\ i + j \in 1..N - q /\ p + (i + j) = k + j
          /\ q + (i + j) = q + i + j
      BY <1>1, <1>3, <1>4, <1>5, <1>6, <2>1, <2>2, <2>3, SMTT(30)
    <3>2. es[p + (i + j)] = E[q + (i + j)]
      BY <1>5, <3>1
    <3> QED
      BY <2>1, <2>2, <3>1, <3>2
  <2>5. t = left
    BY <2>1, <2>2, <2>3, <2>4, SeqEqual
  <2> QED
    BY <2>1, <2>5 DEF t
<1>8. rest \o more = Fragments(left)
  <2>1. 3 * k + 1 \in 1..Len(F) + 1 /\ m \in Nat /\ 3 * k + 1 <= m + 1 /\ m <= Len(F)
    <3>1. Len(F) \in Nat /\ k \in Nat
      BY <1>2, <1>3
    <3> HIDE DEF F
    <3> QED
      BY <1>3, <3>1
  <2>2. rest \o more = SubSeq(F, 3 * k + 1, Len(F))
    <3> HIDE DEF F
    <3> QED
      BY <1>2, <2>1, Halves
  <2>3. SubSeq(F, 3 * k + 1, Len(F)) = Fragments(SubSeq(es, k + 1, Len(es)))
    <3> HIDE DEF es
    <3> QED
      BY <1>2, <1>3, FragmentsAfter
  <2> QED
    BY <1>7, <2>2, <2>3
<1>9. rest \in Seq(Frag) /\ more \in Seq(Frag)
  <2>1. Len(F) \in Nat /\ k \in Nat
    BY <1>2, <1>3
  <2> HIDE DEF F
  <2> QED
    BY <1>2, <1>3, <2>1
<1>10. back \in Seq(Frag)
  BY <1>6, PutBackType
<1>11. Fragments(Unread(req, q + i)) = back \o Fragments(left)
  BY <1>6, UnreadType
<1>12. (back \o rest) \o more = back \o (rest \o more)
  <2> HIDE DEF back, rest, more
  <2> QED
    BY <1>9, <1>10, Associative
<1>13. back \o rest \in Seq(Frag) /\ Len(back \o rest) >= Len(back)
  <2> HIDE DEF back, rest
  <2> QED
    BY <1>9, <1>10
<1> QED
  BY <1>6, <1>8, <1>9, <1>11, <1>12, <1>13 DEF k

-----------------------------------------------------------------------------
(* --------------------------- the reader -------------------------------- *)

Pieces == Nat \X Nat \X Nat
Callbacks == [kind : {"onToken", "onToolUse", "onDone", "onError"}, of : Nat,
              input : Seq(Pieces),
              reason : {"none", "full", "end_turn", "tool_use", "max_tokens"}]
Tools == [id : Nat, index : Nat, args : Seq(Pieces)]
Promises == [text : Seq(Nat), tool : Nat, input : Seq(Pieces),
             result : {"none", "error", "tool_use", "end_turn"}]
Readers == [buf : Seq(Frag), tool : Tools, heard : Seq(Callbacks),
            promise : Promises, over : {"no", "done", "eof", "error", "silent"}]

LEMMA TokenType ==
    ASSUME NEW b \in Nat
    PROVE  Token(b) \in Callbacks /\ Token(b).kind = "onToken" /\ Token(b).of = b
<1>1. <<>> \in Seq(Pieces)
  OBVIOUS
<1> QED
  BY <1>1 DEF Token, Callback, Callbacks

LEMMA ToolUseType ==
    ASSUME NEW b \in Nat, NEW args \in Seq(Pieces)
    PROVE  /\ ToolUse(b, args) \in Callbacks /\ ToolUse(b, args).kind = "onToolUse"
           /\ ToolUse(b, args).of = b /\ ToolUse(b, args).input = Input(args)
<1>1. Input(args) \in Seq(Pieces)
  BY DEF Input
<1> QED
  BY <1>1 DEF ToolUse, Callback, Callbacks

Reasons == {"full", "end_turn", "tool_use", "max_tokens"}

LEMMA SettleTypes ==
    ASSUME NEW reason \in Reasons
    PROVE  /\ Done(reason) \in Callbacks /\ Settles(Done(reason))
           /\ Done(reason).kind = "onDone" /\ Done(reason).reason = reason
           /\ Error \in Callbacks /\ Settles(Error) /\ Error.kind = "onError"
<1>1. <<>> \in Seq(Pieces) /\ NoId \in Nat
  BY DEF NoId
<1> QED
  BY <1>1 DEF Done, Error, Callback, Callbacks, Settles, Reasons

LEMMA ListenIs ==
    ASSUME NEW c \in Promises, NEW callback \in Callbacks
    PROVE  /\ Listen(c, callback) \in Promises
           /\ callback.kind = "onToken" =>
                  /\ Listen(c, callback).text = Append(c.text, callback.of)
                  /\ Listen(c, callback).tool = c.tool
                  /\ Listen(c, callback).result = c.result
           /\ callback.kind = "onToolUse" =>
                  /\ Listen(c, callback).text = c.text
                  /\ Listen(c, callback).tool = callback.of
                  /\ Listen(c, callback).result = c.result
           /\ callback.kind \in {"onDone", "onError"} =>
                  /\ Listen(c, callback).text = c.text
                  /\ Listen(c, callback).tool = c.tool
           /\ callback.kind = "onDone" /\ c.result = "none" =>
                  Listen(c, callback).result =
                      IF callback.reason = "tool_use" \/ c.tool # NoId
                      THEN "tool_use" ELSE "end_turn"
<1>1. CASE callback.kind = "onToken"
  <2>1. Listen(c, callback) = [c EXCEPT !.text = Append(@, callback.of)]
    BY <1>1 DEF Listen
  <2>2. Append(c.text, callback.of) \in Seq(Nat)
    BY DEF Promises, Callbacks
  <2> QED
    BY <1>1, <2>1, <2>2 DEF Promises
<1>2. CASE callback.kind = "onToolUse"
  <2>1. Listen(c, callback) = [c EXCEPT !.tool = callback.of, !.input = callback.input]
    BY <1>2 DEF Listen
  <2> QED
    BY <1>2, <2>1 DEF Promises, Callbacks
<1>3. CASE callback.kind = "onError"
  <2>1. Listen(c, callback) = IF c.result = "none" THEN [c EXCEPT !.result = "error"]
                              ELSE c
    BY <1>3 DEF Listen
  <2> QED
    BY <1>3, <2>1 DEF Promises
<1>4. CASE callback.kind = "onDone"
  <2> DEFINE result == IF callback.reason = "tool_use" \/ c.tool # NoId
                       THEN "tool_use" ELSE "end_turn"
  <2>1. Listen(c, callback) = IF c.result = "none" THEN [c EXCEPT !.result = result]
                              ELSE c
    BY <1>4 DEF Listen
  <2>2. result \in {"tool_use", "end_turn"}
    OBVIOUS
  <2> HIDE DEF result
  <2>3. /\ Listen(c, callback) \in Promises
        /\ Listen(c, callback).text = c.text
        /\ Listen(c, callback).tool = c.tool
        /\ c.result = "none" => Listen(c, callback).result = result
    BY <2>1, <2>2 DEF Promises
  <2> QED
    BY <1>4, <2>3 DEF result
<1>5. callback.kind \in {"onToken", "onToolUse", "onDone", "onError"}
  BY DEF Callbacks
<1> QED
  BY <1>1, <1>2, <1>3, <1>4, <1>5

LEMMA CallIs ==
    ASSUME NEW s \in Readers, NEW callback \in Callbacks
    PROVE  /\ Call(s, callback) \in Readers
           /\ Call(s, callback).heard = Append(s.heard, callback)
           /\ Call(s, callback).promise = Listen(s.promise, callback)
           /\ Call(s, callback).buf = s.buf
           /\ Call(s, callback).tool = s.tool
           /\ Call(s, callback).over = s.over
<1>1. Append(s.heard, callback) \in Seq(Callbacks)
  BY DEF Readers
<1>2. Listen(s.promise, callback) \in Promises
  <2>1. s.promise \in Promises
    BY DEF Readers
  <2> QED
    BY <2>1, ListenIs
<1> QED
  BY <1>1, <1>2 DEF Readers, Call

LEMMA HeardAppend ==
    ASSUME NEW h \in Seq(Callbacks), NEW callback \in Callbacks
    PROVE  /\ Append(h, callback) \in Seq(Callbacks)
           /\ Len(Append(h, callback)) = Len(h) + 1
           /\ \A x \in 1..Len(h) : Append(h, callback)[x] = h[x]
           /\ Append(h, callback)[Len(h) + 1] = callback
OBVIOUS

\* t is the elements of X in increasing order.
Lists(t, X) ==
    /\ \A x \in 1..Len(t) : t[x] \in X
    /\ \A b \in X : \E x \in 1..Len(t) : t[x] = b
    /\ \A x, y \in 1..Len(t) : x < y => t[x] < t[y]

LEMMA ListsMore ==
    ASSUME NEW t \in Seq(Nat), NEW X \in SUBSET Nat, Lists(t, X),
           NEW b \in Nat, \A a \in X : a < b
    PROVE  Lists(Append(t, b), X \cup {b})
<1> DEFINE u == Append(t, b)
           n == Len(t)
<1>1. /\ n \in Nat /\ Len(u) = n + 1
      /\ \A x \in 1..n : u[x] = t[x]
      /\ u[n + 1] = b
  OBVIOUS
<1> HIDE DEF u, n
<1>2. \A x \in 1..Len(u) : x \in 1..n \/ x = n + 1
  BY <1>1
<1>3. \A x \in 1..Len(u) : u[x] \in X \cup {b}
  BY <1>1, <1>2 DEF Lists, n
<1>4. ASSUME NEW a \in X \cup {b}
      PROVE  \E x \in 1..Len(u) : u[x] = a
  <2>1. CASE a = b
    <3>1. n + 1 \in 1..Len(u)
      BY <1>1
    <3> QED
      BY <1>1, <2>1, <3>1
  <2>2. CASE a \in X
    <3>1. PICK x \in 1..n : t[x] = a
      BY <2>2 DEF Lists, n
    <3>2. x \in 1..Len(u) /\ u[x] = a
      BY <1>1, <3>1
    <3> QED
      BY <3>2
  <2> QED
    BY <2>1, <2>2
<1>5. ASSUME NEW x \in 1..Len(u), NEW y \in 1..Len(u), x < y
      PROVE  u[x] < u[y]
  <2>1. x \in 1..n /\ u[x] = t[x] /\ t[x] \in X
    BY <1>1, <1>5 DEF Lists, n
  <2>2. CASE y \in 1..n
    BY <1>1, <1>5, <2>1, <2>2 DEF Lists, n
  <2>3. CASE y = n + 1
    BY <1>1, <2>1, <2>3
  <2> QED
    BY <1>2, <2>2, <2>3
<1> QED
  BY <1>3, <1>4, <1>5 DEF Lists, u

\* The callbacks of a kind in h are about the elements of X, in increasing order.
Mentions(h, kind, X) ==
    /\ \A x \in 1..Len(h) : h[x].kind = kind => h[x].of \in X
    /\ \A b \in X : \E x \in 1..Len(h) : h[x].kind = kind /\ h[x].of = b
    /\ \A x, y \in 1..Len(h) :
          h[x].kind = kind /\ h[y].kind = kind /\ x < y => h[x].of < h[y].of

LEMMA MentionsMore ==
    ASSUME NEW h \in Seq(Callbacks), NEW X \in SUBSET Nat,
           NEW c \in Callbacks, NEW kind, Mentions(h, kind, X),
           c.kind = kind, \A a \in X : a < c.of
    PROVE  Mentions(Append(h, c), kind, X \cup {c.of})
<1> DEFINE u == Append(h, c)
           n == Len(h)
<1>1. /\ n \in Nat /\ Len(u) = n + 1
      /\ \A x \in 1..n : u[x] = h[x]
      /\ u[n + 1] = c
  BY HeardAppend
<1>0. c.of \in Nat
  BY DEF Callbacks
<1> HIDE DEF u, n
<1>2. \A x \in 1..Len(u) : x \in 1..n \/ x = n + 1
  BY <1>1
<1>3. \A x \in 1..Len(u) : u[x].kind = kind => u[x].of \in X \cup {c.of}
  BY <1>1, <1>2 DEF Mentions, n
<1>4. ASSUME NEW a \in X \cup {c.of}
      PROVE  \E x \in 1..Len(u) : u[x].kind = kind /\ u[x].of = a
  <2>1. CASE a = c.of
    <3>1. n + 1 \in 1..Len(u)
      BY <1>1
    <3> QED
      BY <1>1, <2>1, <3>1
  <2>2. CASE a \in X
    <3>1. PICK x \in 1..n : h[x].kind = kind /\ h[x].of = a
      BY <2>2 DEF Mentions, n
    <3>2. x \in 1..Len(u) /\ u[x] = h[x]
      BY <1>1
    <3> QED
      BY <3>1, <3>2
  <2> QED
    BY <2>1, <2>2
<1>5. ASSUME NEW x \in 1..Len(u), NEW y \in 1..Len(u), x < y,
             u[x].kind = kind, u[y].kind = kind
      PROVE  u[x].of < u[y].of
  <2>1. x \in 1..n /\ u[x] = h[x] /\ h[x].of \in X
    BY <1>1, <1>5 DEF Mentions, n
  <2>2. CASE y \in 1..n
    BY <1>1, <1>5, <2>1, <2>2 DEF Mentions, n
  <2>3. CASE y = n + 1
    BY <1>1, <2>1, <2>3
  <2> QED
    BY <1>2, <2>2, <2>3
<1> QED
  BY <1>3, <1>4, <1>5 DEF Mentions, u

LEMMA MentionsOther ==
    ASSUME NEW h \in Seq(Callbacks), NEW X \in SUBSET Nat,
           NEW c \in Callbacks, NEW kind, Mentions(h, kind, X), c.kind # kind
    PROVE  Mentions(Append(h, c), kind, X)
<1> DEFINE u == Append(h, c)
           n == Len(h)
<1>1. /\ n \in Nat /\ Len(u) = n + 1
      /\ \A x \in 1..n : u[x] = h[x]
      /\ u[n + 1] = c
  BY HeardAppend
<1> HIDE DEF u, n
<1>2. \A x \in 1..Len(u) : u[x].kind = kind => x \in 1..n
  BY <1>1
<1>3. \A x \in 1..Len(u) : u[x].kind = kind => u[x].of \in X
  BY <1>1, <1>2 DEF Mentions, n
<1>4. ASSUME NEW a \in X
      PROVE  \E x \in 1..Len(u) : u[x].kind = kind /\ u[x].of = a
  <2>1. PICK x \in 1..n : h[x].kind = kind /\ h[x].of = a
    BY DEF Mentions, n
  <2>2. x \in 1..Len(u) /\ u[x] = h[x]
    BY <1>1
  <2> QED
    BY <2>1, <2>2
<1>5. ASSUME NEW x \in 1..Len(u), NEW y \in 1..Len(u), x < y,
             u[x].kind = kind, u[y].kind = kind
      PROVE  u[x].of < u[y].of
  <2>1. x \in 1..n /\ u[x] = h[x] /\ y \in 1..n /\ u[y] = h[y]
    BY <1>1, <1>2, <1>5
  <2> QED
    BY <1>5, <2>1 DEF Mentions, n
<1> QED
  BY <1>3, <1>4, <1>5 DEF Mentions, u

-----------------------------------------------------------------------------
(* --------------------- what the callbacks were told --------------------- *)

Upto(req, kind, i) == {b \in Blocks(req, kind) : b <= i}

\* A tool call's input as the model wrote it, or none when it was cut short.
WholeInput(req, b) ==
    IF IsCut(req, b) THEN <<>>
    ELSE [k \in 1..req.answer[b].pieces |-> Piece(b, k, req.answer[b].pieces)]
Intact(req, h) ==
    \A x \in 1..Len(h) :
        h[x].kind = "onToolUse" => h[x].input = WholeInput(req, h[x].of)

LastOf(b, X) == IF X = {} THEN b = NoId ELSE b \in X /\ \A a \in X : a <= b

\* The callbacks were told the texts up to block i and the tool calls up to block j.
Told(req, s, i, j) ==
    /\ \A x \in 1..Len(s.heard) : s.heard[x].kind \in {"onToken", "onToolUse"}
    /\ Mentions(s.heard, "onToken", Upto(req, "text", i))
    /\ Mentions(s.heard, "onToolUse", Upto(req, "tool", j))
    /\ Intact(req, s.heard)
    /\ Lists(s.promise.text, Upto(req, "text", i))
    /\ LastOf(s.promise.tool, Upto(req, "tool", j))
    /\ s.promise.result = "none"

LEMMA UptoType ==
    ASSUME NEW req \in Exchanges, NEW i \in Nat
    PROVE  /\ \A kind \in {"text", "tool"} :
                 /\ Upto(req, kind, i) \in SUBSET Nat
                 /\ Blocks(req, kind) \subseteq 1..Len(req.answer)
                 /\ i + 1 \notin Blocks(req, kind) =>
                        Upto(req, kind, i + 1) = Upto(req, kind, i)
                 /\ Upto(req, kind, 0) = {}
                 /\ Upto(req, kind, Len(req.answer)) = Blocks(req, kind)
           /\ Len(req.answer) \in Nat
<1>1. Len(req.answer) \in Nat /\ DOMAIN req.answer = 1..Len(req.answer)
  BY ExchangeType
<1>2. \A kind \in {"text", "tool"} : Blocks(req, kind) \subseteq 1..Len(req.answer)
  BY <1>1 DEF Blocks
<1>3. ASSUME NEW kind \in {"text", "tool"}
      PROVE  /\ Upto(req, kind, i) \in SUBSET Nat
             /\ i + 1 \notin Blocks(req, kind) =>
                    Upto(req, kind, i + 1) = Upto(req, kind, i)
             /\ Upto(req, kind, 0) = {}
             /\ Upto(req, kind, Len(req.answer)) = Blocks(req, kind)
  <2> DEFINE n == Len(req.answer)
             X == Blocks(req, kind)
  <2>1. n \in Nat /\ X \subseteq 1..n
    BY <1>1, <1>2
  <2> HIDE DEF n, X
  <2>2. \A b \in X : b \in Nat /\ b # 0 /\ b <= n
    BY <2>1
  <2>3. /\ {b \in X : b <= i} \in SUBSET Nat
        /\ i + 1 \notin X => {b \in X : b <= i + 1} = {b \in X : b <= i}
        /\ {b \in X : b <= 0} = {}
        /\ {b \in X : b <= n} = X
    BY <2>2
  <2> QED
    BY <2>3 DEF Upto, X, n
<1> QED
  BY <1>1, <1>2, <1>3

\* One block more.
LEMMA UptoMore ==
    ASSUME NEW req \in Exchanges, NEW kind \in {"text", "tool"},
           NEW b \in Blocks(req, kind)
    PROVE  /\ b \in Nat /\ b - 1 \in Nat
           /\ Upto(req, kind, b) = Upto(req, kind, b - 1) \cup {b}
           /\ \A a \in Upto(req, kind, b - 1) : a < b
<1> DEFINE X == Blocks(req, kind)
           n == Len(req.answer)
<1>1. n \in Nat /\ X \subseteq 1..n
  BY UptoType
<1> HIDE DEF n, X
<1>2. \A a \in X : a \in Nat /\ a # 0
  BY <1>1
<1>3. b \in X
  BY DEF X
<1>4. /\ b \in Nat /\ b - 1 \in Nat
      /\ {a \in X : a <= b} = {a \in X : a <= b - 1} \cup {b}
      /\ \A a \in {c \in X : c <= b - 1} : a < b
  BY <1>2, <1>3
<1> QED
  BY <1>4 DEF Upto, X

LEMMA ToldSame ==
    ASSUME NEW req, NEW s \in Readers, NEW t \in Readers,
           t.heard = s.heard, t.promise = s.promise,
           NEW i, NEW j, NEW k, NEW l, Told(req, s, i, j),
           Upto(req, "text", i) = Upto(req, "text", k),
           Upto(req, "tool", j) = Upto(req, "tool", l)
    PROVE  Told(req, t, k, l)
BY DEF Told

LEMMA ToldText ==
    ASSUME NEW req \in Exchanges, NEW s \in Readers, NEW b \in Blocks(req, "text"),
           NEW j \in Nat, Told(req, s, b - 1, j)
    PROVE  /\ Call(s, Token(b)) \in Readers
           /\ Told(req, Call(s, Token(b)), b, j)
<1> DEFINE c == Token(b)
           t == Call(s, c)
           X == Upto(req, "text", b - 1)
           Y == Upto(req, "tool", j)
           h == s.heard
           u == Append(h, c)
<1>1. /\ b \in Nat /\ b - 1 \in Nat /\ X \in SUBSET Nat /\ Y \in SUBSET Nat
      /\ Upto(req, "text", b) = X \cup {b}
      /\ \A a \in X : a < b
  BY UptoMore, UptoType
<1>2. c \in Callbacks /\ c.kind = "onToken" /\ c.of = b
  BY <1>1, TokenType
<1> HIDE DEF c
<1>3. t \in Readers /\ t.heard = u /\ t.promise = Listen(s.promise, c)
  BY <1>2, CallIs
<1>4. s.promise \in Promises /\ h \in Seq(Callbacks) /\ s.promise.text \in Seq(Nat)
  BY DEF Readers, Promises
<1>5. /\ t.promise.text = Append(s.promise.text, b)
      /\ t.promise.tool = s.promise.tool /\ t.promise.result = s.promise.result
  <2>1. Listen(s.promise, c).text = Append(s.promise.text, c.of)
    BY <1>2, <1>4, ListenIs
  <2>2. /\ Listen(s.promise, c).tool = s.promise.tool
        /\ Listen(s.promise, c).result = s.promise.result
    BY <1>2, <1>4, ListenIs
  <2> QED
    BY <1>2, <1>3, <2>1, <2>2
<1> HIDE DEF t, X, Y, h
<1>6. Told(req, s, b - 1, j)
  OBVIOUS
<1>7. Lists(t.promise.text, X \cup {b})
  BY <1>1, <1>4, <1>5, <1>6, ListsMore DEF Told, X
<1>8. Mentions(u, "onToken", X \cup {b})
  <2>1. Mentions(h, "onToken", X)
    BY <1>6 DEF Told, X, h
  <2> QED
    BY <1>1, <1>2, <1>4, <2>1, MentionsMore
<1>9. Mentions(u, "onToolUse", Y)
  <2>1. Mentions(h, "onToolUse", Y) /\ c.kind # "onToolUse"
    BY <1>2, <1>6 DEF Told, Y, h
  <2> QED
    BY <1>1, <1>2, <1>4, <2>1, MentionsOther
<1>10. /\ \A x \in 1..Len(u) : u[x].kind \in {"onToken", "onToolUse"}
       /\ Intact(req, u)
  <2>1. /\ Len(h) \in Nat /\ Len(u) = Len(h) + 1
        /\ \A x \in 1..Len(h) : u[x] = h[x]
        /\ u[Len(h) + 1] = c
    BY <1>2, <1>4, HeardAppend
  <2>2. \A x \in 1..Len(h) : /\ h[x].kind \in {"onToken", "onToolUse"}
                             /\ h[x].kind = "onToolUse" =>
                                    h[x].input = WholeInput(req, h[x].of)
    BY <1>6 DEF Told, Intact, h
  <2> HIDE DEF u
  <2>3. \A x \in 1..Len(u) : x \in 1..Len(h) \/ x = Len(h) + 1
    BY <2>1
  <2> QED
    BY <1>2, <2>1, <2>2, <2>3 DEF Intact
<1> QED
  BY <1>1, <1>3, <1>5, <1>6, <1>7, <1>8, <1>9, <1>10 DEF Told, Y, t, c

LEMMA ToldTool ==
    ASSUME NEW req \in Exchanges, NEW s \in Readers, NEW b \in Blocks(req, "tool"),
           NEW i \in Nat, Told(req, s, i, b - 1),
           NEW args \in Seq(Pieces), Input(args) = WholeInput(req, b)
    PROVE  /\ Call(s, ToolUse(b, args)) \in Readers
           /\ Told(req, Call(s, ToolUse(b, args)), i, b)
<1> DEFINE c == ToolUse(b, args)
           t == Call(s, c)
           X == Upto(req, "text", i)
           Y == Upto(req, "tool", b - 1)
           h == s.heard
           u == Append(h, c)
<1>1. /\ b \in Nat /\ b - 1 \in Nat /\ X \in SUBSET Nat /\ Y \in SUBSET Nat
      /\ Upto(req, "tool", b) = Y \cup {b}
      /\ \A a \in Y : a < b
  BY UptoMore, UptoType
<1>2. /\ c \in Callbacks /\ c.kind = "onToolUse" /\ c.of = b
      /\ c.input = WholeInput(req, b)
  BY <1>1, ToolUseType
<1> HIDE DEF c
<1>3. t \in Readers /\ t.heard = u /\ t.promise = Listen(s.promise, c)
  BY <1>2, CallIs
<1>4. s.promise \in Promises /\ h \in Seq(Callbacks)
  BY DEF Readers
<1>5. /\ t.promise.text = s.promise.text
      /\ t.promise.tool = b /\ t.promise.result = s.promise.result
  BY <1>2, <1>3, <1>4, ListenIs
<1> HIDE DEF t, X, Y, h
<1>6. Told(req, s, i, b - 1)
  OBVIOUS
<1>7. LastOf(t.promise.tool, Y \cup {b})
  BY <1>1, <1>5 DEF LastOf
<1>8. Mentions(u, "onToolUse", Y \cup {b})
  <2>1. Mentions(h, "onToolUse", Y)
    BY <1>6 DEF Told, Y, h
  <2> QED
    BY <1>1, <1>2, <1>4, <2>1, MentionsMore
<1>9. Mentions(u, "onToken", X)
  <2>1. Mentions(h, "onToken", X) /\ c.kind # "onToken"
    BY <1>2, <1>6 DEF Told, X, h
  <2> QED
    BY <1>1, <1>2, <1>4, <2>1, MentionsOther
<1>10. /\ \A x \in 1..Len(u) : u[x].kind \in {"onToken", "onToolUse"}
       /\ Intact(req, u)
  <2>1. /\ Len(h) \in Nat /\ Len(u) = Len(h) + 1
        /\ \A x \in 1..Len(h) : u[x] = h[x]
        /\ u[Len(h) + 1] = c
    BY <1>2, <1>4, HeardAppend
  <2>2. \A x \in 1..Len(h) : /\ h[x].kind \in {"onToken", "onToolUse"}
                             /\ h[x].kind = "onToolUse" =>
                                    h[x].input = WholeInput(req, h[x].of)
    BY <1>6 DEF Told, Intact, h
  <2> HIDE DEF u
  <2>3. \A x \in 1..Len(u) : x \in 1..Len(h) \/ x = Len(h) + 1
    BY <2>1
  <2> QED
    BY <1>2, <2>1, <2>2, <2>3 DEF Intact
<1> QED
  BY <1>1, <1>3, <1>5, <1>6, <1>7, <1>8, <1>9, <1>10 DEF Told, X, t, c

-----------------------------------------------------------------------------
(* ------------------------ how a stream ends ----------------------------- *)

InOrder(req, h) ==
    /\ \E i \in Nat : Mentions(h, "onToken", Upto(req, "text", i))
    /\ \E j \in Nat : Mentions(h, "onToolUse", Upto(req, "tool", j))
    /\ Intact(req, h)
Once(h) == \A x \in 1..Len(h) : Settles(h[x]) => x = Len(h)
HasWhole(req, c) ==
    /\ Lists(c.text, Blocks(req, "text"))
    /\ c.result = IF Blocks(req, "tool") = {} THEN "end_turn" ELSE "tool_use"
    /\ Blocks(req, "tool") # {} => LastOf(c.tool, Blocks(req, "tool"))

Ended(req, s) ==
    /\ s.over # "no"
    /\ InOrder(req, s.heard)
    /\ Once(s.heard)
    /\ s.over = "done" /\ ~req.cut => HasWhole(req, s.promise)

LEMMA ToldInOrder ==
    ASSUME NEW req, NEW s \in Readers, NEW i \in Nat, NEW j \in Nat, Told(req, s, i, j)
    PROVE  InOrder(req, s.heard) /\ Once(s.heard)
BY DEF Told, InOrder, Once, Settles

LEMMA ToldThenSettled ==
    ASSUME NEW req \in Exchanges, NEW s \in Readers, NEW i \in Nat, NEW j \in Nat,
           Told(req, s, i, j), NEW c \in Callbacks, Settles(c)
    PROVE  InOrder(req, Append(s.heard, c)) /\ Once(Append(s.heard, c))
<1> DEFINE X == Upto(req, "text", i)
           Y == Upto(req, "tool", j)
           h == s.heard
           u == Append(h, c)
<1>1. X \in SUBSET Nat /\ Y \in SUBSET Nat
  BY UptoType
<1>2. c.kind # "onToken" /\ c.kind # "onToolUse"
  BY DEF Settles
<1>3. h \in Seq(Callbacks)
  BY DEF Readers
<1>4. Told(req, s, i, j)
  OBVIOUS
<1>5. Mentions(h, "onToken", X) /\ Mentions(h, "onToolUse", Y)
  BY <1>4 DEF Told
<1>6. Mentions(u, "onToken", X) /\ Mentions(u, "onToolUse", Y)
  <2> HIDE DEF X, Y, h
  <2> QED
    BY <1>1, <1>2, <1>3, <1>5, MentionsOther
<1>7. Intact(req, u) /\ Once(u)
  <2>1. /\ Len(h) \in Nat /\ Len(u) = Len(h) + 1
        /\ \A x \in 1..Len(h) : u[x] = h[x]
        /\ u[Len(h) + 1] = c
    BY <1>3, HeardAppend
  <2>2. \A x \in 1..Len(h) : /\ h[x].kind \in {"onToken", "onToolUse"}
                             /\ h[x].kind = "onToolUse" =>
                                    h[x].input = WholeInput(req, h[x].of)
    BY <1>4 DEF Told, Intact
  <2> HIDE DEF u, h
  <2>3. \A x \in 1..Len(u) : x \in 1..Len(h) \/ x = Len(h) + 1
    BY <2>1
  <2>4. Intact(req, u)
    BY <1>2, <2>1, <2>2, <2>3 DEF Intact
  <2>5. Once(u)
    BY <2>1, <2>2, <2>3 DEF Once, Settles
  <2> QED
    BY <2>4, <2>5
<1> QED
  BY <1>6, <1>7 DEF InOrder

\* The model's own ending.
LEMMA ToldThenDone ==
    ASSUME NEW req \in Exchanges, NEW s \in Readers, NEW i \in Nat, NEW j \in Nat,
           Told(req, s, i, j), s.over = "no", NEW reason \in Reasons,
           ~req.cut =>
               /\ Upto(req, "text", i) = Blocks(req, "text")
               /\ Upto(req, "tool", j) = Blocks(req, "tool")
               /\ reason = "tool_use" => Blocks(req, "tool") # {}
    PROVE  /\ Finish(s, reason) \in Readers
           /\ Ended(req, Finish(s, reason))
           /\ Finish(s, reason).buf = s.buf
<1> DEFINE c == Done(reason)
           t == Finish(s, reason)
<1>1. /\ c \in Callbacks /\ Settles(c)
      /\ c.kind = "onDone" /\ c.reason = reason
  BY SettleTypes
<1>2. Told(req, s, i, j)
  OBVIOUS
<1>3. /\ t \in Readers /\ t.heard = Append(s.heard, c) /\ t.over = "done"
      /\ t.promise = Listen(s.promise, c) /\ t.buf = s.buf
  <2> DEFINE r == Call(s, c)
  <2>1. /\ r \in Readers /\ r.heard = Append(s.heard, c)
        /\ r.promise = Listen(s.promise, c) /\ r.buf = s.buf
    BY <1>1, CallIs
  <2>2. t = [r EXCEPT !.over = "done"]
    BY DEF Finish
  <2> HIDE DEF r, c, t
  <2> QED
    BY <2>1, <2>2 DEF Readers
<1> HIDE DEF c, t
<1>4. s.promise \in Promises
  BY DEF Readers
<1>5. s.promise.result = "none"
  BY <1>2 DEF Told
<1>6. /\ t.promise.text = s.promise.text /\ t.promise.tool = s.promise.tool
      /\ t.promise.result = IF reason = "tool_use" \/ s.promise.tool # NoId
                            THEN "tool_use" ELSE "end_turn"
  BY <1>1, <1>3, <1>4, <1>5, ListenIs
<1>7. InOrder(req, t.heard) /\ Once(t.heard)
  BY <1>1, <1>2, <1>3, ToldThenSettled
<1>8. ASSUME ~req.cut
      PROVE  HasWhole(req, t.promise)
  <2>1. /\ Lists(s.promise.text, Blocks(req, "text"))
        /\ LastOf(s.promise.tool, Blocks(req, "tool"))
    BY <1>2, <1>8 DEF Told
  <2>2. \A b \in Blocks(req, "tool") : b # NoId
    <3>1. Blocks(req, "tool") \subseteq 1..Len(req.answer) /\ Len(req.answer) \in Nat
      BY UptoType
    <3> QED
      BY <3>1 DEF NoId
  <2>3. s.promise.tool # NoId <=> Blocks(req, "tool") # {}
    BY <2>1, <2>2 DEF LastOf
  <2> QED
    BY <1>6, <1>8, <2>1, <2>3 DEF HasWhole
<1> QED
  BY <1>3, <1>7, <1>8 DEF Ended, t

-----------------------------------------------------------------------------
(* --------------------------- the handlers ------------------------------- *)

Args(req, b, k) == [x \in 1..k |-> Piece(b, x, req.answer[b].pieces)]

LEMMA ArgsAre ==
    ASSUME NEW req \in Exchanges, NEW b \in Blocks(req, "tool"), NEW k \in Nat
    PROVE  /\ Args(req, b, k) \in Seq(Pieces)
           /\ Append(Args(req, b, k), Piece(b, k + 1, req.answer[b].pieces))
                  = Args(req, b, k + 1)
           /\ Piece(b, k + 1, req.answer[b].pieces) \in Pieces
           /\ Args(req, b, 0) = <<>>
<1> DEFINE n == req.answer[b].pieces
           piece(x) == Piece(b, x, n)
<1>1. b \in Nat /\ n \in Nat
  BY SentType
<1>2. \A x \in Nat : piece(x) \in Pieces
  BY <1>1 DEF Piece, Pieces
<1> HIDE DEF piece
<1>3. \A j \in Nat : [x \in 1..j |-> piece(x)] \in Seq(Pieces)
  BY <1>2
<1>4. Append([x \in 1..k |-> piece(x)], piece(k + 1)) = [x \in 1..k + 1 |-> piece(x)]
  <2> DEFINE s == [x \in 1..k |-> piece(x)]
             t == [x \in 1..k + 1 |-> piece(x)]
             u == Append(s, piece(k + 1))
  <2>1. s \in Seq(Pieces) /\ Len(s) = k /\ \A x \in 1..k : s[x] = piece(x)
    BY <1>3
  <2>2. t \in Seq(Pieces) /\ Len(t) = k + 1 /\ \A x \in 1..k + 1 : t[x] = piece(x)
    BY <1>3
  <2>3. piece(k + 1) \in Pieces
    BY <1>2
  <2> HIDE DEF s, t
  <2>4. u \in Seq(Pieces) /\ Len(u) = k + 1 /\ \A x \in 1..k + 1 : u[x] = piece(x)
    BY <2>1, <2>3
  <2> HIDE DEF u
  <2>5. u = t
    BY <2>2, <2>4, SeqEqual
  <2> QED
    BY <2>5 DEF s, t, u
<1>5. \A j \in Nat : Args(req, b, j) = [x \in 1..j |-> piece(x)]
  BY DEF Args, piece
<1>6. [x \in 1..0 |-> piece(x)] = <<>>
  OBVIOUS
<1>7. piece(k + 1) \in Pieces /\ k + 1 \in Nat
  BY <1>2
<1> QED
  BY <1>3, <1>4, <1>5, <1>6, <1>7 DEF piece

\* Everything that was sent, put together.
LEMMA InputOfSent ==
    ASSUME NEW req \in Exchanges, NEW b \in Blocks(req, "tool")
    PROVE  Input(Args(req, b, Sent(req, b))) = WholeInput(req, b)
<1> DEFINE n == req.answer[b].pieces
           k == Sent(req, b)
           a == Args(req, b, k)
<1>1. /\ b \in Nat /\ n \in Nat /\ k \in Nat
      /\ IsCut(req, b) => k = n - 1
      /\ ~IsCut(req, b) => k = n
  BY SentType
<1>2. /\ DOMAIN a = 1..k /\ Len(a) = k
      /\ \A x \in 1..k : a[x] = Piece(b, x, n)
  BY <1>1 DEF Args
<1> HIDE DEF n, k
<1>3. CASE ~IsCut(req, b)
  <2>1. \A x \in DOMAIN a : a[x] = Piece(a[1][1], x, Len(a))
    <3> SUFFICES ASSUME NEW x \in 1..k
                 PROVE  a[x] = Piece(a[1][1], x, Len(a))
      BY <1>2
    <3>1. 1 \in 1..k
      BY <1>1
    <3>2. a[1][1] = b
      BY <1>2, <3>1 DEF Piece
    <3> QED
      BY <1>1, <1>2, <1>3, <3>2
  <2>2. Input(a) = a
    BY <2>1 DEF Input
  <2>3. a = WholeInput(req, b)
    BY <1>1, <1>3 DEF Args, WholeInput, n
  <2> QED
    BY <2>2, <2>3 DEF k
<1>4. CASE IsCut(req, b)
  <2>1. WholeInput(req, b) = <<>>
    BY <1>4 DEF WholeInput
  <2>2. CASE k = 0
    <3>1. a = <<>>
      BY <2>2, ArgsAre
    <3> QED
      BY <2>1, <3>1 DEF Input, k
  <2>3. CASE k # 0
    <3>1. 1 \in DOMAIN a /\ a[1] = Piece(b, 1, n) /\ Len(a) = n - 1 /\ n # n - 1
      BY <1>1, <1>2, <1>4, <2>3
    <3>2. a[1][3] = n
      BY <3>1 DEF Piece
    <3>3. Piece(a[1][1], 1, Len(a))[3] = n - 1
      BY <3>1 DEF Piece
    <3>4. a[1] # Piece(a[1][1], 1, Len(a))
      BY <3>1, <3>2, <3>3
    <3> QED
      BY <2>1, <3>1, <3>4 DEF Input, k
  <2> QED
    BY <2>2, <2>3
<1> QED
  BY <1>3, <1>4

LEMMA SetTool ==
    ASSUME NEW s \in Readers, NEW held \in Tools
    PROVE  LET t == [s EXCEPT !.tool = held]
           IN  /\ t \in Readers /\ t.tool = held /\ t.heard = s.heard
               /\ t.promise = s.promise /\ t.buf = s.buf /\ t.over = s.over
BY DEF Readers

LEMMA AddPiece ==
    ASSUME NEW s \in Readers, NEW piece \in Pieces
    PROVE  LET t == [s EXCEPT !.tool.args = Append(@, piece)]
           IN  /\ t \in Readers /\ t.heard = s.heard
               /\ t.promise = s.promise /\ t.buf = s.buf /\ t.over = s.over
               /\ t.tool = [id |-> s.tool.id, index |-> s.tool.index,
                            args |-> Append(s.tool.args, piece)]
<1>1. s.tool \in Tools /\ Append(s.tool.args, piece) \in Seq(Pieces)
  BY DEF Readers, Tools
<1> QED
  BY <1>1 DEF Readers, Tools

LEMMA SetOver ==
    ASSUME NEW s \in Readers, NEW over1 \in {"no", "done", "eof", "error", "silent"}
    PROVE  LET t == [s EXCEPT !.over = over1]
           IN  /\ t \in Readers /\ t.tool = s.tool /\ t.heard = s.heard
               /\ t.promise = s.promise /\ t.buf = s.buf /\ t.over = over1
BY DEF Readers

LEMMA AnthropicEvents ==
    ASSUME NEW s, NEW e
    PROVE  /\ e.kind = "start" /\ e.id # NoId => OnAnthropicChat(s, e)
                  = [s EXCEPT !.tool = [NoTool EXCEPT !.id = e.id]]
           /\ e.kind = "start" /\ e.id = NoId => OnAnthropicChat(s, e) = s
           /\ e.kind = "text" => OnAnthropicChat(s, e) = Call(s, Token(e.id))
           /\ e.kind = "piece" => OnAnthropicChat(s, e)
                  = [s EXCEPT !.tool.args = Append(@, e.piece)]
           /\ e.kind = "stop" => OnAnthropicChat(s, e) = StopBlock(s)
           /\ e.kind = "message_stop" => OnAnthropicChat(s, e) = Finish(s, "end_turn")
           /\ e.kind = "error" => OnAnthropicChat(s, e)
                  = [Call(s, Error) EXCEPT !.over = "error"]
BY DEF OnAnthropicChat

LEMMA OpenAIEvents ==
    ASSUME NEW s, NEW e
    PROVE  /\ e.kind = "text" => OnOpenAIChat(s, e) = Call(s, Token(e.id))
           /\ e.kind = "call" => OnOpenAIChat(s, e) = OnCall(s, e)
           /\ e.kind = "finish" => OnOpenAIChat(s, e) = Finish(s, "end_turn")
           /\ e.kind = "tool_calls" =>
                  OnOpenAIChat(s, e) = Finish(FlushTool(s), "tool_use")
           /\ e.kind = "length" => OnOpenAIChat(s, e) = Finish(s, "max_tokens")
           /\ e.kind = "error" => OnOpenAIChat(s, e) = s
BY DEF OnOpenAIChat

LEMMA CompletionEvents ==
    ASSUME NEW s, NEW e, NEW ending \in {"message_stop", "[DONE]"}
    PROVE  /\ e.kind = "text" => OnCompletion(s, e, ending) = Call(s, Token(e.id))
           /\ e.kind = ending => OnCompletion(s, e, ending) = Finish(s, "full")
           /\ e.kind \notin {"text", ending} => OnCompletion(s, e, ending) = s
BY DEF OnCompletion

LEMMA EventFields ==
    ASSUME NEW kind, NEW id, NEW piece
    PROVE  /\ Event(kind, id, piece).kind = kind
           /\ Event(kind, id, piece).id = id
           /\ Event(kind, id, piece).piece = piece
BY DEF Event

-----------------------------------------------------------------------------
(* ------------------- between the lines of an answer --------------------- *)

\* The texts told after j lines of block i + 1.
TextsTo(req, i, j) ==
    IF i + 1 \in Blocks(req, "text") /\ j >= (IF req.api = "anthropic" THEN 2 ELSE 1)
    THEN i + 1 ELSE i

InCompletion(req, i, j, s) == Told(req, s, TextsTo(req, i, j), i)

\* A tool call is collected from its start to its end.
InAnthropicChat(req, i, j, s) ==
    LET inTool == i + 1 \in Blocks(req, "tool")
        lines == Sent(req, i + 1) + 2
    IN  /\ Told(req, s, TextsTo(req, i, j), IF inTool /\ j = lines THEN i + 1 ELSE i)
        /\ s.tool = IF inTool /\ j > 0 /\ j < lines
                    THEN [id |-> i + 1, index |-> NoId, args |-> Args(req, i + 1, j - 1)]
                    ELSE NoTool

\* A tool call is kept until the next one starts.
Started(req, i, j) ==
    Upto(req, "tool", IF i + 1 \in Blocks(req, "tool") /\ j > 0 THEN i + 1 ELSE i)
InOpenAIChat(req, i, j, s) ==
    IF Started(req, i, j) = {}
    THEN s.tool = NoTool /\ Told(req, s, TextsTo(req, i, j), i)
    ELSE \E b \in Started(req, i, j) :
            /\ \A a \in Started(req, i, j) : a <= b
            /\ s.tool = [id |-> b, index |-> b,
                         args |-> Args(req, b, IF b = i + 1 THEN j - 1 ELSE Sent(req, b))]
            /\ Told(req, s, TextsTo(req, i, j), b - 1)

Within(req, i, j, s) ==
    /\ s \in Readers /\ s.over = "no"
    /\ req.purpose = "completion" => InCompletion(req, i, j, s)
    /\ req.purpose = "chat" /\ req.api = "anthropic" => InAnthropicChat(req, i, j, s)
    /\ req.purpose = "chat" /\ req.api = "openai" => InOpenAIChat(req, i, j, s)

LEMMA NextBlock ==
    ASSUME NEW req \in Exchanges, NEW i \in Nat, i < Len(req.answer)
    PROVE  /\ i + 1 \in DOMAIN req.answer
           /\ \/ i + 1 \in Blocks(req, "text") /\ i + 1 \notin Blocks(req, "tool")
              \/ i + 1 \in Blocks(req, "tool") /\ i + 1 \notin Blocks(req, "text")
<1>1. i + 1 \in DOMAIN req.answer
  BY ExchangeType
<1>2. i + 1 \in Blocks(req, "text") \/ i + 1 \in Blocks(req, "tool")
  BY <1>1, BlockLinesType
<1> QED
  BY <1>1, <1>2 DEF Blocks

LEMMA NoTools ==
    ASSUME NEW req \in Exchanges, req.purpose = "completion", NEW i, NEW j
    PROVE  Upto(req, "tool", i) = Upto(req, "tool", j)
BY ExchangeType DEF Upto

LEMMA CompletionStep ==
    ASSUME NEW req \in Exchanges, req.purpose = "completion",
           NEW i \in Nat, i < Len(req.answer),
           NEW j \in Nat, j < Len(BlockLines(req, i + 1)),
           NEW s \in Readers, InCompletion(req, i, j, s)
    PROVE  LET t == OnEvent(req, s, BlockLines(req, i + 1)[j + 1])
           IN  /\ t \in Readers /\ t.over = s.over /\ t.buf = s.buf
               /\ InCompletion(req, i, j + 1, t)
<1> DEFINE b == i + 1
           e == BlockLines(req, b)[j + 1]
           t == OnEvent(req, s, e)
           ending == IF req.api = "anthropic" THEN "message_stop" ELSE "[DONE]"
           n == Len(BlockLines(req, b))
<1> SUFFICES /\ t \in Readers /\ t.over = s.over /\ t.buf = s.buf
             /\ InCompletion(req, i, j + 1, t)
  OBVIOUS
<1>0. j \in Nat /\ j < n
  OBVIOUS
<1>1. b \in Blocks(req, "text") /\ b \in Nat /\ b - 1 = i
  BY NextBlock, ExchangeType
<1>2. req.api \in {"anthropic", "openai"}
  BY ExchangeType
<1>3. t = OnCompletion(s, e, ending) /\ ending \in {"message_stop", "[DONE]"}
  BY <1>2 DEF OnEvent
<1>4. Told(req, s, TextsTo(req, i, j), i)
  BY DEF InCompletion
<1> HIDE DEF ending
<1>5. ASSUME e = Event("text", b, NoPiece), TextsTo(req, i, j) = b - 1,
             TextsTo(req, i, j + 1) = b
      PROVE  /\ t \in Readers /\ t.over = s.over /\ t.buf = s.buf
             /\ InCompletion(req, i, j + 1, t)
  <2>1. t = Call(s, Token(b))
    BY <1>3, <1>5, CompletionEvents, EventFields
  <2>2. t \in Readers /\ Told(req, t, b, i)
    BY <1>1, <1>4, <1>5, <2>1, ToldText
  <2>3. t.over = s.over /\ t.buf = s.buf
    BY <1>1, <2>1, CallIs, TokenType
  <2> QED
    BY <1>5, <2>2, <2>3 DEF InCompletion
<1>6. ASSUME e.kind \in {"start", "stop"}, TextsTo(req, i, j + 1) = TextsTo(req, i, j)
      PROVE  /\ t \in Readers /\ t.over = s.over /\ t.buf = s.buf
             /\ InCompletion(req, i, j + 1, t)
  <2>1. t = s
    BY <1>3, <1>6, CompletionEvents
  <2> QED
    BY <1>4, <1>6, <2>1 DEF InCompletion
<1>7. CASE req.api = "anthropic"
  <2>1. /\ Len(BlockLines(req, b)) = 3
        /\ BlockLines(req, b)[1] = Event("start", NoId, NoPiece)
        /\ BlockLines(req, b)[2] = Event("text", b, NoPiece)
        /\ BlockLines(req, b)[3] = Event("stop", NoId, NoPiece)
    BY <1>1, <1>7, AnthropicText
  <2>2. j = 0 \/ j = 1 \/ j = 2
    <3>1. n = 3
      BY <2>1
    <3> HIDE DEF n
    <3> QED
      BY <1>0, <3>1
  <2>3. CASE j = 0
    <3>1. e.kind = "start" /\ TextsTo(req, i, j + 1) = TextsTo(req, i, j)
      BY <1>7, <2>1, <2>3, EventFields DEF TextsTo
    <3> HIDE DEF e, t
    <3> QED
      BY <1>6, <3>1
  <2>4. CASE j = 1
    <3>1. /\ e = Event("text", b, NoPiece) /\ TextsTo(req, i, j) = b - 1
          /\ TextsTo(req, i, j + 1) = b
      BY <1>1, <1>7, <2>1, <2>4 DEF TextsTo
    <3> HIDE DEF e, t
    <3> QED
      BY <1>5, <3>1
  <2>5. CASE j = 2
    <3>1. e.kind = "stop" /\ TextsTo(req, i, j + 1) = TextsTo(req, i, j)
      BY <1>7, <2>1, <2>5, EventFields DEF TextsTo
    <3> HIDE DEF e, t
    <3> QED
      BY <1>6, <3>1
  <2> QED
    BY <2>2, <2>3, <2>4, <2>5
<1>8. CASE req.api = "openai"
  <2>1. Len(BlockLines(req, b)) = 1 /\ BlockLines(req, b)[1] = Event("text", b, NoPiece)
    BY <1>1, <1>8, OpenAIText
  <2>2. j = 0
    <3>1. n = 1
      BY <2>1
    <3> HIDE DEF n
    <3> QED
      BY <1>0, <3>1
  <2>3. /\ e = Event("text", b, NoPiece) /\ TextsTo(req, i, j) = b - 1
        /\ TextsTo(req, i, j + 1) = b
    BY <1>1, <1>8, <2>1, <2>2 DEF TextsTo
  <2> HIDE DEF e, t
  <2> QED
    BY <1>5, <2>3
<1> QED
  BY <1>2, <1>7, <1>8

LEMMA NoToolType ==
    NoTool \in Tools /\ NoTool.id = NoId
<1>1. <<>> \in Seq(Pieces)
  OBVIOUS
<1> QED
  BY <1>1 DEF NoTool, Tools, NoId

LEMMA AnthropicTextStep ==
    ASSUME NEW req \in Exchanges, req.api = "anthropic",
           NEW i \in Nat, i + 1 \in Blocks(req, "text"),
           i + 1 \notin Blocks(req, "tool"),
           NEW j \in Nat, j < Len(BlockLines(req, i + 1)),
           NEW s \in Readers, InAnthropicChat(req, i, j, s)
    PROVE  LET t == OnAnthropicChat(s, BlockLines(req, i + 1)[j + 1])
           IN  /\ t \in Readers /\ t.over = s.over /\ t.buf = s.buf
               /\ InAnthropicChat(req, i, j + 1, t)
<1> DEFINE b == i + 1
           e == BlockLines(req, b)[j + 1]
           t == OnAnthropicChat(s, e)
           n == Len(BlockLines(req, b))
<1> SUFFICES /\ t \in Readers /\ t.over = s.over /\ t.buf = s.buf
             /\ InAnthropicChat(req, i, j + 1, t)
  OBVIOUS
<1>0. j \in Nat /\ j < n /\ b \in Nat /\ b - 1 = i
  OBVIOUS
<1>1. /\ n = 3
      /\ BlockLines(req, b)[1] = Event("start", NoId, NoPiece)
      /\ BlockLines(req, b)[2] = Event("text", b, NoPiece)
      /\ BlockLines(req, b)[3] = Event("stop", NoId, NoPiece)
  BY AnthropicText
<1>2. j = 0 \/ j = 1 \/ j = 2
  <2> HIDE DEF n
  <2> QED
    BY <1>0, <1>1
<1>3. Told(req, s, TextsTo(req, i, j), i) /\ s.tool = NoTool
  BY DEF InAnthropicChat
<1>4. ASSUME t = s, TextsTo(req, i, j + 1) = TextsTo(req, i, j)
      PROVE  InAnthropicChat(req, i, j + 1, t)
  <2> HIDE DEF t
  <2> QED
    BY <1>3, <1>4 DEF InAnthropicChat
<1>5. CASE j = 0
  <2>1. e.kind = "start" /\ e.id = NoId
    BY <1>1, <1>5, EventFields
  <2>2. TextsTo(req, i, j + 1) = TextsTo(req, i, j)
    BY <1>5 DEF TextsTo
  <2> HIDE DEF e
  <2>3. t = s
    BY <2>1, AnthropicEvents
  <2> HIDE DEF t
  <2> QED
    BY <1>4, <2>2, <2>3
<1>6. CASE j = 1
  <2>1. e.kind = "text" /\ e.id = b
    BY <1>1, <1>6, EventFields
  <2>2. TextsTo(req, i, j) = b - 1 /\ TextsTo(req, i, j + 1) = b
    BY <1>0, <1>6 DEF TextsTo
  <2> HIDE DEF e
  <2>3. t = Call(s, Token(b))
    BY <2>1, AnthropicEvents
  <2>4. Told(req, s, b - 1, i)
    BY <1>3, <2>2
  <2> HIDE DEF t
  <2>5. t \in Readers /\ Told(req, t, b, i)
    BY <2>3, <2>4, ToldText
  <2>6. t.over = s.over /\ t.buf = s.buf /\ t.tool = s.tool
    BY <1>0, <2>3, CallIs, TokenType, ZenonT(30)
  <2>7. InAnthropicChat(req, i, j + 1, t)
    BY <1>3, <2>2, <2>5, <2>6 DEF InAnthropicChat
  <2> QED
    BY <2>5, <2>6, <2>7
<1>7. CASE j = 2
  <2>1. e.kind = "stop"
    BY <1>1, <1>7, EventFields
  <2>2. TextsTo(req, i, j + 1) = TextsTo(req, i, j)
    BY <1>7 DEF TextsTo
  <2> HIDE DEF e
  <2>3. t = StopBlock(s)
    BY <2>1, AnthropicEvents
  <2>4. t = s
    BY <1>3, <2>3, NoToolType DEF StopBlock
  <2> HIDE DEF t
  <2> QED
    BY <1>4, <2>2, <2>4
<1> QED
  BY <1>2, <1>5, <1>6, <1>7

LEMMA HeldType ==
    ASSUME NEW b \in Nat, NEW index \in Nat, NEW args \in Seq(Pieces)
    PROVE  /\ [id |-> b, index |-> index, args |-> args] \in Tools
BY DEF Tools

LEMMA AnthropicToolStep ==
    ASSUME NEW req \in Exchanges, req.api = "anthropic",
           NEW i \in Nat, i + 1 \in Blocks(req, "tool"),
           i + 1 \notin Blocks(req, "text"),
           NEW j \in Nat, j < Len(BlockLines(req, i + 1)),
           NEW s \in Readers, InAnthropicChat(req, i, j, s)
    PROVE  LET t == OnAnthropicChat(s, BlockLines(req, i + 1)[j + 1])
           IN  /\ t \in Readers /\ t.over = s.over /\ t.buf = s.buf
               /\ InAnthropicChat(req, i, j + 1, t)
<1> DEFINE b == i + 1
           e == BlockLines(req, b)[j + 1]
           t == OnAnthropicChat(s, e)
           n == Len(BlockLines(req, b))
           k == Sent(req, b)
<1> SUFFICES /\ t \in Readers /\ t.over = s.over /\ t.buf = s.buf
             /\ InAnthropicChat(req, i, j + 1, t)
  OBVIOUS
<1>0. j \in Nat /\ j < n /\ b \in Nat /\ b - 1 = i /\ b # NoId
  BY DEF NoId
<1>1. /\ n = k + 2
      /\ BlockLines(req, b)[1] = Event("start", b, NoPiece)
      /\ \A x \in 1..k : BlockLines(req, b)[x + 1]
             = PieceLine("piece", NoId, b, x, req.answer[b].pieces)
      /\ BlockLines(req, b)[k + 2] = Event("stop", NoId, NoPiece)
  BY AnthropicTool
<1>2. k \in Nat
  BY SentType
<1>3. \A x : TextsTo(req, i, x) = i
  BY DEF TextsTo
<1>4. /\ Told(req, s, i, i)
      /\ s.tool = IF j > 0
                  THEN [id |-> b, index |-> NoId, args |-> Args(req, b, j - 1)]
                  ELSE NoTool
  <2>1. j < k + 2
    <3> HIDE DEF n, k
    <3> QED
      BY <1>0, <1>1
  <2>2. InAnthropicChat(req, i, j, s)
    OBVIOUS
  <2> QED
    BY <1>2, <1>3, <2>1, <2>2 DEF InAnthropicChat
<1>5. CASE j = 0
  <2> DEFINE held == [NoTool EXCEPT !.id = b]
  <2>1. e.kind = "start" /\ e.id = b
    BY <1>1, <1>5, EventFields
  <2> HIDE DEF e
  <2>2. t = [s EXCEPT !.tool = held]
    BY <1>0, <2>1, AnthropicEvents
  <2>3. /\ held = [id |-> b, index |-> NoId, args |-> <<>>]
        /\ held \in Tools
    <3>1. <<>> \in Seq(Pieces)
      OBVIOUS
    <3>2. held = [id |-> b, index |-> NoId, args |-> <<>>]
      BY DEF NoTool
    <3>3. NoId \in Nat
      BY DEF NoId
    <3> HIDE DEF held
    <3> QED
      BY <1>0, <3>1, <3>2, <3>3, HeldType
  <2> HIDE DEF t, held
  <2>4. /\ t \in Readers /\ t.tool = held /\ t.heard = s.heard
        /\ t.promise = s.promise /\ t.buf = s.buf /\ t.over = s.over
    BY <2>2, <2>3, SetTool
  <2>5. Told(req, t, i, i)
    BY <1>4, <2>4, ToldSame
  <2>6. Args(req, b, 0) = <<>> /\ j + 1 > 0 /\ (j + 1) - 1 = 0 /\ j + 1 < k + 2
    BY <1>2, <1>5, ArgsAre
  <2>8. t.tool = [id |-> b, index |-> NoId, args |-> Args(req, b, (j + 1) - 1)]
    BY <2>3, <2>4, <2>6
  <2>7. InAnthropicChat(req, i, j + 1, t)
    BY <1>3, <2>5, <2>6, <2>8 DEF InAnthropicChat
  <2> QED
    BY <2>4, <2>7
<1>6. CASE j \in 1..k
  <2> DEFINE piece == Piece(b, j, req.answer[b].pieces)
  <2>1. e = PieceLine("piece", NoId, b, j, req.answer[b].pieces)
    BY <1>1, <1>6
  <2>2. e.kind = "piece" /\ e.piece = piece
    BY <2>1, EventFields DEF PieceLine
  <2> HIDE DEF e
  <2>3. t = [s EXCEPT !.tool.args = Append(@, piece)]
    BY <2>2, AnthropicEvents
  <2>4. /\ j - 1 \in Nat /\ (j - 1) + 1 = j /\ (j + 1) - 1 = j
        /\ j > 0 /\ j + 1 > 0 /\ j + 1 < k + 2
    BY <1>2, <1>6
  <2>5. /\ Append(Args(req, b, j - 1), piece) = Args(req, b, j)
        /\ piece \in Pieces
    <3>1. /\ Append(Args(req, b, j - 1), Piece(b, (j - 1) + 1, req.answer[b].pieces))
                = Args(req, b, (j - 1) + 1)
          /\ Piece(b, (j - 1) + 1, req.answer[b].pieces) \in Pieces
      BY <2>4, ArgsAre
    <3> QED
      BY <2>4, <3>1
  <2> HIDE DEF t, piece
  <2>6. /\ t \in Readers /\ t.heard = s.heard
        /\ t.promise = s.promise /\ t.buf = s.buf /\ t.over = s.over
        /\ t.tool = [id |-> s.tool.id, index |-> s.tool.index,
                     args |-> Append(s.tool.args, piece)]
    BY <2>3, <2>5, AddPiece
  <2>7. Told(req, t, i, i)
    BY <1>4, <2>6, ToldSame
  <2>8. t.tool = [id |-> b, index |-> NoId, args |-> Args(req, b, j)]
    <3>1. s.tool = [id |-> b, index |-> NoId, args |-> Args(req, b, j - 1)]
      BY <1>4, <2>4
    <3>2. s.tool.id = b /\ s.tool.index = NoId /\ s.tool.args = Args(req, b, j - 1)
      BY <3>1
    <3>3. Append(s.tool.args, piece) = Args(req, b, j)
      BY <2>5, <3>2
    <3> QED
      BY <2>6, <3>2, <3>3
  <2>9. InAnthropicChat(req, i, j + 1, t)
    BY <1>3, <2>4, <2>7, <2>8 DEF InAnthropicChat
  <2> QED
    BY <2>6, <2>9
<1>7. CASE j = k + 1
  <2> DEFINE args == Args(req, b, k)
             r == Call(s, ToolUse(b, args))
  <2>1. e.kind = "stop"
    <3>1. j + 1 = k + 2
      BY <1>2, <1>7
    <3> QED
      BY <1>1, <3>1, EventFields
  <2> HIDE DEF e
  <2>2. t = StopBlock(s)
    BY <2>1, AnthropicEvents
  <2>3. s.tool.id = b /\ s.tool.args = args
    <3>1. j > 0 /\ j - 1 = k
      BY <1>2, <1>7
    <3> QED
      BY <1>4, <3>1
  <2>4. t = [r EXCEPT !.tool = NoTool]
    BY <1>0, <2>2, <2>3 DEF StopBlock
  <2>5. args \in Seq(Pieces) /\ Input(args) = WholeInput(req, b)
    BY <1>2, ArgsAre, InputOfSent
  <2>6. Told(req, s, i, b - 1)
    BY <1>0, <1>4
  <2> HIDE DEF args, t
  <2>7. r \in Readers /\ Told(req, r, i, b)
    BY <2>5, <2>6, ToldTool
  <2>8. r.over = s.over /\ r.buf = s.buf
    BY <1>0, <2>5, CallIs, ToolUseType
  <2> HIDE DEF r
  <2>9. /\ t \in Readers /\ t.tool = NoTool /\ t.heard = r.heard
        /\ t.promise = r.promise /\ t.buf = r.buf /\ t.over = r.over
    BY <2>4, <2>7, NoToolType, SetTool
  <2>10. Told(req, t, i, b)
    BY <2>7, <2>9, ToldSame
  <2>11. j + 1 = k + 2
    BY <1>2, <1>7
  <2>12. InAnthropicChat(req, i, j + 1, t)
    BY <1>2, <1>3, <2>9, <2>10, <2>11 DEF InAnthropicChat
  <2> QED
    BY <2>8, <2>9, <2>12
<1>8. j = 0 \/ j \in 1..k \/ j = k + 1
  <2> HIDE DEF n, k
  <2> QED
    BY <1>0, <1>1, <1>2
<1> QED
  BY <1>5, <1>6, <1>7, <1>8

LEMMA LastStarted ==
    ASSUME NEW req \in Exchanges, NEW i \in Nat, NEW b \in Upto(req, "tool", i),
           \A a \in Upto(req, "tool", i) : a <= b
    PROVE  /\ b \in Blocks(req, "tool") /\ b \in Nat \ {0} /\ b <= i
           /\ Upto(req, "tool", i) = Upto(req, "tool", b)
<1>1. b \in Blocks(req, "tool") /\ b <= i
  BY DEF Upto
<1>2. b \in Nat /\ b # 0
  BY <1>1, SentType
<1>3. \A a \in Blocks(req, "tool") : a \in Nat
  BY SentType
<1>4. Upto(req, "tool", i) = Upto(req, "tool", b)
  <2>1. ASSUME NEW a \in Blocks(req, "tool")
        PROVE  a <= i <=> a <= b
    <3>1. a \in Nat
      BY <1>3
    <3>2. a <= i => a <= b
      BY DEF Upto
    <3> QED
      BY <1>1, <1>2, <3>1, <3>2
  <2> QED
    BY <2>1 DEF Upto
<1> QED
  BY <1>1, <1>2, <1>4

\* What FlushTool does with a tool call that has come to its end.
LEMMA Flushed ==
    ASSUME NEW req \in Exchanges, NEW s \in Readers, NEW b \in Blocks(req, "tool"),
           NEW i \in Nat, Told(req, s, i, b - 1),
           s.tool = [id |-> b, index |-> b, args |-> Args(req, b, Sent(req, b))]
    PROVE  /\ FlushTool(s) \in Readers /\ Told(req, FlushTool(s), i, b)
           /\ FlushTool(s).over = s.over /\ FlushTool(s).buf = s.buf
<1> DEFINE args == Args(req, b, Sent(req, b))
<1>1. b \in Nat /\ b # NoId /\ Sent(req, b) \in Nat
  BY SentType DEF NoId
<1>2. args \in Seq(Pieces) /\ Input(args) = WholeInput(req, b)
  BY <1>1, ArgsAre, InputOfSent
<1>3. FlushTool(s) = Call(s, ToolUse(b, args))
  BY <1>1 DEF FlushTool
<1> HIDE DEF args
<1>4. FlushTool(s) \in Readers /\ Told(req, FlushTool(s), i, b)
  BY <1>2, <1>3, ToldTool
<1>5. FlushTool(s).over = s.over /\ FlushTool(s).buf = s.buf
  <2>1. ToolUse(b, args) \in Callbacks
    BY <1>1, <1>2, ToolUseType
  <2> QED
    BY <1>3, <2>1, CallIs
<1> QED
  BY <1>4, <1>5

LEMMA OpenAITextStep ==
    ASSUME NEW req \in Exchanges, req.api = "openai",
           NEW i \in Nat, i + 1 \in Blocks(req, "text"),
           i + 1 \notin Blocks(req, "tool"),
           NEW j \in Nat, j < Len(BlockLines(req, i + 1)),
           NEW s \in Readers, InOpenAIChat(req, i, j, s)
    PROVE  LET t == OnOpenAIChat(s, BlockLines(req, i + 1)[j + 1])
           IN  /\ t \in Readers /\ t.over = s.over /\ t.buf = s.buf
               /\ InOpenAIChat(req, i, j + 1, t)
<1> DEFINE b == i + 1
           e == BlockLines(req, b)[j + 1]
           t == OnOpenAIChat(s, e)
           n == Len(BlockLines(req, b))
           X == Upto(req, "tool", i)
<1> SUFFICES /\ t \in Readers /\ t.over = s.over /\ t.buf = s.buf
             /\ InOpenAIChat(req, i, j + 1, t)
  OBVIOUS
<1>0. j \in Nat /\ j < n /\ b \in Nat /\ b - 1 = i /\ b \in Blocks(req, "text")
  OBVIOUS
<1>1. n = 1 /\ BlockLines(req, b)[1] = Event("text", b, NoPiece)
  BY OpenAIText
<1>2. j = 0
  <2> HIDE DEF n
  <2> QED
    BY <1>0, <1>1
<1>3. e.kind = "text" /\ e.id = b
  BY <1>1, <1>2, EventFields
<1>4. TextsTo(req, i, j) = b - 1 /\ TextsTo(req, i, j + 1) = b
  BY <1>0, <1>2 DEF TextsTo
<1>5. Started(req, i, j) = X /\ Started(req, i, j + 1) = X
  BY DEF Started
<1>6. /\ X = {} => s.tool = NoTool /\ Told(req, s, b - 1, i)
      /\ X # {} => \E c \in X :
            /\ \A a \in X : a <= c
            /\ s.tool = [id |-> c, index |-> c, args |-> Args(req, c, Sent(req, c))]
            /\ Told(req, s, b - 1, c - 1)
  <2>1. InOpenAIChat(req, i, j, s)
    OBVIOUS
  <2>2. \A c \in X : c # b
    BY <1>0 DEF Upto
  <2> HIDE DEF X
  <2> QED
    BY <1>4, <1>5, <2>1, <2>2 DEF InOpenAIChat
<1> HIDE DEF e
<1>7. t = Call(s, Token(b))
  BY <1>3, OpenAIEvents
<1> HIDE DEF t
<1>8. /\ t \in Readers /\ t.over = s.over /\ t.buf = s.buf /\ t.tool = s.tool
  BY <1>0, <1>7, CallIs, TokenType, ZenonT(30)
<1>9. \A u \in Nat : Told(req, s, b - 1, u) => Told(req, t, b, u)
  BY <1>0, <1>7, ToldText
<1>10. CASE X = {}
  <2>1. t.tool = NoTool /\ Told(req, t, b, i)
    BY <1>6, <1>8, <1>9, <1>10
  <2> QED
    BY <1>4, <1>5, <1>8, <1>10, <2>1 DEF InOpenAIChat
<1>11. CASE X # {}
  <2>1. PICK c \in X :
            /\ \A a \in X : a <= c
            /\ s.tool = [id |-> c, index |-> c, args |-> Args(req, c, Sent(req, c))]
            /\ Told(req, s, b - 1, c - 1)
    BY <1>6, <1>11
  <2>2. c - 1 \in Nat /\ c # b
    BY <1>0, <2>1, LastStarted
  <2>3. Told(req, t, b, c - 1)
    BY <1>9, <2>1, <2>2
  <2>4. t.tool = [id |-> c, index |-> c,
                  args |-> Args(req, c, IF c = i + 1 THEN (j + 1) - 1 ELSE Sent(req, c))]
    BY <1>8, <2>1, <2>2
  <2> HIDE DEF X
  <2>5. InOpenAIChat(req, i, j + 1, t)
    BY <1>4, <1>5, <1>11, <2>1, <2>3, <2>4 DEF InOpenAIChat
  <2> QED
    BY <1>8, <2>5
<1> QED
  BY <1>10, <1>11

LEMMA CallEvents ==
    ASSUME NEW s, NEW e
    PROVE  /\ e.id # s.tool.index /\ e.piece = NoPiece =>
                  OnCall(s, e) = [FlushTool(s) EXCEPT
                      !.tool = [id |-> e.id, index |-> e.id, args |-> <<>>]]
           /\ e.id = s.tool.index /\ e.piece # NoPiece =>
                  OnCall(s, e) = [s EXCEPT !.tool.args = Append(@, e.piece)]
BY DEF OnCall

\* A new tool call hands over the one before.
LEMMA OpenAIToolStarts ==
    ASSUME NEW req \in Exchanges, req.api = "openai",
           NEW i \in Nat, i + 1 \in Blocks(req, "tool"),
           i + 1 \notin Blocks(req, "text"),
           NEW s \in Readers, InOpenAIChat(req, i, 0, s)
    PROVE  LET t == OnOpenAIChat(s, BlockLines(req, i + 1)[1])
           IN  /\ t \in Readers /\ t.over = s.over /\ t.buf = s.buf
               /\ InOpenAIChat(req, i, 1, t)
<1> DEFINE b == i + 1
           e == BlockLines(req, b)[1]
           t == OnOpenAIChat(s, e)
           X == Upto(req, "tool", i)
           held == [id |-> b, index |-> b, args |-> <<>>]
           r == FlushTool(s)
<1> SUFFICES /\ t \in Readers /\ t.over = s.over /\ t.buf = s.buf
             /\ InOpenAIChat(req, i, 1, t)
  OBVIOUS
<1>0. b \in Nat /\ b - 1 = i /\ b \in Blocks(req, "tool") /\ b # NoId
  BY DEF NoId
<1>1. e.kind = "call" /\ e.id = b /\ e.piece = NoPiece
  BY OpenAITool, EventFields
<1>2. \A x : TextsTo(req, i, x) = i
  BY DEF TextsTo
<1>3. /\ Started(req, i, 0) = X
      /\ Started(req, i, 1) = X \cup {b}
      /\ \A a \in X : a <= b
  <2>1. Upto(req, "tool", b) = Upto(req, "tool", b - 1) \cup {b}
    BY UptoMore
  <2>2. \A a \in X : a \in Nat /\ a < b
    BY <1>0, UptoMore, UptoType
  <2> QED
    BY <1>0, <2>1, <2>2 DEF Started
<1>4. /\ r \in Readers /\ r.over = s.over /\ r.buf = s.buf /\ Told(req, r, i, i)
      /\ s.tool.index # b
  <2>1. InOpenAIChat(req, i, 0, s)
    OBVIOUS
  <2>2. CASE X = {}
    <3>1. s.tool = NoTool /\ Told(req, s, i, i)
      BY <1>2, <1>3, <2>1, <2>2 DEF InOpenAIChat
    <3>2. r = s /\ s.tool.index # b
      BY <1>0, <3>1 DEF FlushTool, NoTool
    <3> QED
      BY <3>1, <3>2
  <2>3. CASE X # {}
    <3>1. PICK c \in X :
            /\ \A a \in X : a <= c
            /\ s.tool = [id |-> c, index |-> c,
                         args |-> Args(req, c, IF c = i + 1 THEN 0 - 1 ELSE Sent(req, c))]
            /\ Told(req, s, i, c - 1)
      <4> HIDE DEF X
      <4> QED
        BY <1>2, <1>3, <2>1, <2>3 DEF InOpenAIChat
    <3>2. /\ c \in Blocks(req, "tool") /\ c \in Nat \ {0} /\ c <= i
          /\ X = Upto(req, "tool", c)
      BY <3>1, LastStarted
    <3>3. s.tool = [id |-> c, index |-> c, args |-> Args(req, c, Sent(req, c))]
      BY <3>1, <3>2
    <3> HIDE DEF r
    <3>4. r \in Readers /\ Told(req, r, i, c) /\ r.over = s.over /\ r.buf = s.buf
      BY <3>1, <3>2, <3>3, Flushed DEF r
    <3>5. Told(req, r, i, i)
      BY <3>2, <3>4, ToldSame
    <3> QED
      BY <1>0, <3>2, <3>3, <3>4, <3>5
  <2> QED
    BY <2>2, <2>3
<1> HIDE DEF e, r, X
<1>5. t = [r EXCEPT !.tool = held]
  BY <1>1, <1>4, OpenAIEvents, CallEvents DEF r
<1>6. held \in Tools /\ held = [id |-> b, index |-> b, args |-> Args(req, b, 1 - 1)]
  <2>1. <<>> \in Seq(Pieces)
    OBVIOUS
  <2>2. Args(req, b, 0) = <<>> /\ 1 - 1 = 0
    BY <1>0, ArgsAre
  <2> QED
    BY <1>0, <2>1, <2>2, HeldType
<1> HIDE DEF t, held
<1>7. /\ t \in Readers /\ t.tool = held /\ t.heard = r.heard
      /\ t.promise = r.promise /\ t.buf = r.buf /\ t.over = r.over
  BY <1>4, <1>5, <1>6, SetTool
<1>8. Told(req, t, i, b - 1)
  BY <1>0, <1>4, <1>7, ToldSame
<1>9. InOpenAIChat(req, i, 1, t)
  <2>1. b \in Started(req, i, 1) /\ \A a \in Started(req, i, 1) : a <= b
    BY <1>0, <1>3
  <2>2. t.tool = [id |-> b, index |-> b,
                  args |-> Args(req, b, IF b = i + 1 THEN 1 - 1 ELSE Sent(req, b))]
    BY <1>6, <1>7
  <2>3. Told(req, t, TextsTo(req, i, 1), b - 1)
    BY <1>2, <1>8
  <2>4. Started(req, i, 1) # {}
    BY <2>1
  <2> QED
    BY <2>1, <2>2, <2>3, <2>4 DEF InOpenAIChat
<1> QED
  BY <1>4, <1>7, <1>9

LEMMA OpenAIToolContinues ==
    ASSUME NEW req \in Exchanges, req.api = "openai",
           NEW i \in Nat, i + 1 \in Blocks(req, "tool"),
           i + 1 \notin Blocks(req, "text"),
           NEW j \in 1..Sent(req, i + 1),
           NEW s \in Readers, InOpenAIChat(req, i, j, s)
    PROVE  LET t == OnOpenAIChat(s, BlockLines(req, i + 1)[j + 1])
           IN  /\ t \in Readers /\ t.over = s.over /\ t.buf = s.buf
               /\ InOpenAIChat(req, i, j + 1, t)
<1> DEFINE b == i + 1
           e == BlockLines(req, b)[j + 1]
           t == OnOpenAIChat(s, e)
           X == Upto(req, "tool", b)
           piece == Piece(b, j, req.answer[b].pieces)
<1> SUFFICES /\ t \in Readers /\ t.over = s.over /\ t.buf = s.buf
             /\ InOpenAIChat(req, i, j + 1, t)
  OBVIOUS
<1>0. /\ b \in Nat /\ b - 1 = i /\ b \in Blocks(req, "tool") /\ b # NoId
      /\ Sent(req, b) \in Nat /\ j \in Nat /\ j > 0 /\ j - 1 \in Nat
      /\ (j - 1) + 1 = j /\ (j + 1) - 1 = j /\ j + 1 > 0
  BY SentType DEF NoId
<1>1. e.kind = "call" /\ e.id = b /\ e.piece = piece
  BY OpenAITool, EventFields DEF PieceLine
<1>2. piece # NoPiece
  BY <1>0 DEF Piece, NoPiece
<1>3. \A x : TextsTo(req, i, x) = i
  BY DEF TextsTo
<1>4. /\ Started(req, i, j) = X /\ Started(req, i, j + 1) = X
      /\ b \in X /\ \A a \in X : a <= b
  BY <1>0 DEF Started, Upto
<1>5. /\ s.tool = [id |-> b, index |-> b, args |-> Args(req, b, j - 1)]
      /\ Told(req, s, i, b - 1)
  <2>1. InOpenAIChat(req, i, j, s) /\ X # {}
    BY <1>4
  <2> HIDE DEF X
  <2>2. PICK c \in X :
            /\ \A a \in X : a <= c
            /\ s.tool = [id |-> c, index |-> c,
                         args |-> Args(req, c, IF c = i + 1 THEN j - 1 ELSE Sent(req, c))]
            /\ Told(req, s, i, c - 1)
    BY <1>3, <1>4, <2>1 DEF InOpenAIChat
  <2>3. c \in Nat
    BY SentType DEF X, Upto
  <2>4. c = b
    BY <1>0, <1>4, <2>2, <2>3
  <2> QED
    BY <2>2, <2>4
<1>6. /\ Append(Args(req, b, j - 1), piece) = Args(req, b, j) /\ piece \in Pieces
  <2>1. /\ Append(Args(req, b, j - 1), Piece(b, (j - 1) + 1, req.answer[b].pieces))
                = Args(req, b, (j - 1) + 1)
        /\ Piece(b, (j - 1) + 1, req.answer[b].pieces) \in Pieces
    BY <1>0, ArgsAre
  <2> QED
    BY <1>0, <2>1
<1> HIDE DEF e, X, piece
<1>7. t = [s EXCEPT !.tool.args = Append(@, piece)]
  <2>1. e.id = s.tool.index
    BY <1>1, <1>5
  <2> QED
    BY <1>1, <1>2, <2>1, OpenAIEvents, CallEvents
<1> HIDE DEF t
<1>8. /\ t \in Readers /\ t.heard = s.heard
      /\ t.promise = s.promise /\ t.buf = s.buf /\ t.over = s.over
      /\ t.tool = [id |-> s.tool.id, index |-> s.tool.index,
                   args |-> Append(s.tool.args, piece)]
  BY <1>6, <1>7, AddPiece
<1>9. Told(req, t, i, b - 1)
  BY <1>5, <1>8, ToldSame
<1>10. t.tool = [id |-> b, index |-> b,
                 args |-> Args(req, b, IF b = i + 1 THEN (j + 1) - 1 ELSE Sent(req, b))]
  <2>1. s.tool = [id |-> b, index |-> b, args |-> Args(req, b, j - 1)]
    BY <1>0, <1>5
  <2>2. s.tool.id = b /\ s.tool.index = b /\ s.tool.args = Args(req, b, j - 1)
    BY <2>1
  <2>3. Append(s.tool.args, piece) = Args(req, b, j)
    BY <1>6, <2>2
  <2>4. t.tool = [id |-> b, index |-> b, args |-> Args(req, b, j)]
    BY <1>8, <2>2, <2>3
  <2> QED
    BY <1>0, <2>4
<1>11. InOpenAIChat(req, i, j + 1, t)
  <2>1. Told(req, t, TextsTo(req, i, j + 1), b - 1)
    BY <1>3, <1>9
  <2>2. Started(req, i, j + 1) # {}
    BY <1>4
  <2> QED
    BY <1>4, <1>10, <2>1, <2>2 DEF InOpenAIChat
<1> QED
  BY <1>8, <1>11

\* One line of a block.
LEMMA BlockStep ==
    ASSUME NEW req \in Exchanges, NEW i \in Nat, i < Len(req.answer),
           NEW j \in Nat, j < Len(BlockLines(req, i + 1)),
           NEW s, Within(req, i, j, s)
    PROVE  LET t == OnEvent(req, s, BlockLines(req, i + 1)[j + 1])
           IN  Within(req, i, j + 1, t) /\ t.buf = s.buf
<1> DEFINE e == BlockLines(req, i + 1)[j + 1]
           t == OnEvent(req, s, e)
<1> SUFFICES Within(req, i, j + 1, t) /\ t.buf = s.buf
  OBVIOUS
<1>1. /\ \/ i + 1 \in Blocks(req, "text") /\ i + 1 \notin Blocks(req, "tool")
         \/ i + 1 \in Blocks(req, "tool") /\ i + 1 \notin Blocks(req, "text")
  BY NextBlock
<1>2. /\ req.api \in {"anthropic", "openai"} /\ req.purpose \in {"chat", "completion"}
  BY ExchangeType
<1>3. s \in Readers /\ s.over = "no"
  BY DEF Within
<1>4. CASE req.purpose = "completion"
  <2>1. InCompletion(req, i, j, s)
    BY <1>4 DEF Within
  <2>2. /\ t \in Readers /\ t.over = s.over /\ t.buf = s.buf
        /\ InCompletion(req, i, j + 1, t)
    BY <1>3, <1>4, <2>1, CompletionStep
  <2> HIDE DEF t
  <2> QED
    BY <1>3, <1>4, <2>2 DEF Within
<1>5. CASE req.purpose = "chat" /\ req.api = "anthropic"
  <2>1. InAnthropicChat(req, i, j, s)
    BY <1>5 DEF Within
  <2>2. t = OnAnthropicChat(s, e)
    BY <1>5 DEF OnEvent
  <2>3. /\ t \in Readers /\ t.over = s.over /\ t.buf = s.buf
        /\ InAnthropicChat(req, i, j + 1, t)
    BY <1>1, <1>3, <1>5, <2>1, <2>2, AnthropicTextStep, AnthropicToolStep
  <2> HIDE DEF t
  <2> QED
    BY <1>3, <1>5, <2>3 DEF Within
<1>6. CASE req.purpose = "chat" /\ req.api = "openai"
  <2>1. InOpenAIChat(req, i, j, s)
    BY <1>6 DEF Within
  <2>2. t = OnOpenAIChat(s, e)
    BY <1>6 DEF OnEvent
  <2>3. /\ t \in Readers /\ t.over = s.over /\ t.buf = s.buf
        /\ InOpenAIChat(req, i, j + 1, t)
    <3>1. CASE i + 1 \in Blocks(req, "text") /\ i + 1 \notin Blocks(req, "tool")
      BY <1>3, <1>6, <2>1, <2>2, <3>1, OpenAITextStep
    <3>2. CASE i + 1 \in Blocks(req, "tool") /\ i + 1 \notin Blocks(req, "text") /\ j = 0
      <4>1. j + 1 = 1
        BY <3>2
      <4> QED
        BY <1>3, <1>6, <2>1, <2>2, <3>2, <4>1, OpenAIToolStarts
    <3>3. CASE i + 1 \in Blocks(req, "tool") /\ i + 1 \notin Blocks(req, "text") /\ j # 0
      <4>1. Len(BlockLines(req, i + 1)) = Sent(req, i + 1) + 1 /\ Sent(req, i + 1) \in Nat
        BY <1>6, <3>3, OpenAITool, SentType
      <4>2. j \in 1..Sent(req, i + 1)
        <5> DEFINE n == Len(BlockLines(req, i + 1))
        <5>1. j < n /\ n = Sent(req, i + 1) + 1
          BY <4>1
        <5> HIDE DEF n
        <5> QED
          BY <3>3, <4>1, <5>1
      <4> QED
        BY <1>3, <1>6, <2>1, <2>2, <3>3, <4>2, OpenAIToolContinues
    <3> QED
      BY <1>1, <3>1, <3>2, <3>3
  <2> HIDE DEF t
  <2> QED
    BY <1>3, <1>6, <2>3 DEF Within
<1> QED
  BY <1>2, <1>4, <1>5, <1>6

\* The end of a block is the start of the next.
LEMMA BlockEnds ==
    ASSUME NEW req \in Exchanges, NEW i \in Nat, i < Len(req.answer),
           NEW s, Within(req, i, Len(BlockLines(req, i + 1)), s)
    PROVE  Within(req, i + 1, 0, s)
<1> DEFINE b == i + 1
           n == Len(BlockLines(req, b))
           T == TextsTo(req, i, n)
<1>0. s \in Readers /\ s.over = "no" /\ b \in Nat
  BY DEF Within
<1>1. /\ \/ b \in Blocks(req, "text") /\ b \notin Blocks(req, "tool")
         \/ b \in Blocks(req, "tool") /\ b \notin Blocks(req, "text")
  BY NextBlock
<1>2. req.api \in {"anthropic", "openai"} /\ req.purpose \in {"chat", "completion"}
  BY ExchangeType
<1>3. /\ b \in Blocks(req, "text") /\ req.api = "anthropic" => n = 3
      /\ b \in Blocks(req, "text") /\ req.api = "openai" => n = 1
      /\ b \in Blocks(req, "tool") => Sent(req, b) \in Nat
      /\ b \in Blocks(req, "tool") /\ req.api = "anthropic" => n = Sent(req, b) + 2
      /\ b \in Blocks(req, "tool") /\ req.api = "openai" => n = Sent(req, b) + 1
  BY AnthropicText, AnthropicTool, OpenAIText, OpenAITool, SentType
<1> HIDE DEF n
<1>4. /\ TextsTo(req, b, 0) = b
      /\ Upto(req, "text", T) = Upto(req, "text", b)
  <2>1. CASE b \in Blocks(req, "text")
    <3>1. T = b
      BY <1>2, <1>3, <2>1 DEF TextsTo
    <3> QED
      BY <1>2, <3>1 DEF TextsTo
  <2>2. CASE b \notin Blocks(req, "text")
    <3>1. T = i
      BY <2>2 DEF TextsTo
    <3>2. Upto(req, "text", b) = Upto(req, "text", i)
      BY <2>2, UptoType
    <3> QED
      BY <1>2, <3>1, <3>2 DEF TextsTo
  <2> QED
    BY <2>1, <2>2
<1>5. b \notin Blocks(req, "tool") => Upto(req, "tool", b) = Upto(req, "tool", i)
  BY UptoType
<1>6. \A u, v : /\ Told(req, s, T, u)
                /\ Upto(req, "tool", u) = Upto(req, "tool", v)
                => Told(req, s, b, v)
  BY <1>0, <1>4, ToldSame
<1> HIDE DEF T
<1>7. CASE req.purpose = "completion"
  <2>1. Told(req, s, T, i)
    BY <1>7 DEF Within, InCompletion, T, n
  <2>2. Upto(req, "tool", i) = Upto(req, "tool", b)
    BY <1>7, NoTools
  <2>3. Told(req, s, TextsTo(req, b, 0), b)
    BY <1>4, <1>6, <2>1, <2>2
  <2> QED
    BY <1>0, <1>7, <2>3 DEF Within, InCompletion
<1>8. CASE req.purpose = "chat" /\ req.api = "anthropic"
  <2>1. InAnthropicChat(req, i, n, s)
    BY <1>8 DEF Within, n
  <2>2. s.tool = NoTool
    BY <1>3, <1>8, <2>1 DEF InAnthropicChat
  <2>3. Told(req, s, T, IF b \in Blocks(req, "tool") THEN b ELSE i)
    BY <1>3, <1>8, <2>1 DEF InAnthropicChat, T
  <2>4. Told(req, s, TextsTo(req, b, 0), b)
    BY <1>4, <1>5, <1>6, <2>3
  <2>5. InAnthropicChat(req, b, 0, s)
    <3>1. b + 1 \in Blocks(req, "tool") => Sent(req, b + 1) \in Nat
      BY SentType
    <3> QED
      BY <2>2, <2>4, <3>1 DEF InAnthropicChat
  <2> QED
    BY <1>0, <1>8, <2>5 DEF Within
<1>9. CASE req.purpose = "chat" /\ req.api = "openai"
  <2> DEFINE X == Upto(req, "tool", b)
  <2>1. InOpenAIChat(req, i, n, s)
    BY <1>9 DEF Within, n
  <2>2. Started(req, i, n) = X /\ Started(req, b, 0) = X
    BY <1>0, <1>3, <1>5, <1>9 DEF Started
  <2>3. CASE X = {}
    <3>1. s.tool = NoTool /\ Told(req, s, T, i)
      BY <2>1, <2>2, <2>3 DEF InOpenAIChat, T
    <3>2. b \notin Blocks(req, "tool")
      BY <1>0, <2>3 DEF Upto
    <3>3. Told(req, s, b, b)
      BY <1>5, <1>6, <3>1, <3>2
    <3>4. InOpenAIChat(req, b, 0, s)
      BY <1>4, <2>2, <2>3, <3>1, <3>3 DEF InOpenAIChat
    <3> QED
      BY <1>0, <1>9, <3>4 DEF Within
  <2>4. CASE X # {}
    <3> HIDE DEF X
    <3>1. PICK c \in X :
              /\ \A a \in X : a <= c
              /\ s.tool = [id |-> c, index |-> c,
                           args |-> Args(req, c, IF c = i + 1 THEN n - 1 ELSE Sent(req, c))]
              /\ Told(req, s, T, c - 1)
      BY <2>1, <2>2, <2>4 DEF InOpenAIChat, T
    <3>2. c \in Blocks(req, "tool") /\ c \in Nat /\ c <= b
      BY <1>0, <3>1, LastStarted DEF X
    <3>3. (IF c = i + 1 THEN n - 1 ELSE Sent(req, c)) = Sent(req, c)
      BY <1>3, <1>9, <3>2
    <3>4. Told(req, s, b, c - 1)
      BY <1>6, <3>1
    <3>5. s.tool = [id |-> c, index |-> c,
                    args |-> Args(req, c, IF c = b + 1 THEN 0 - 1 ELSE Sent(req, c))]
      BY <1>0, <3>1, <3>2, <3>3
    <3>6. InOpenAIChat(req, b, 0, s)
      BY <1>4, <2>2, <2>4, <3>1, <3>4, <3>5 DEF InOpenAIChat
    <3> QED
      BY <1>0, <1>9, <3>6 DEF Within
  <2> QED
    BY <2>3, <2>4
<1> QED
  BY <1>2, <1>7, <1>8, <1>9

LEMMA AfterLast ==
    ASSUME NEW req \in Exchanges
    PROVE  LET n == Len(req.answer)
           IN  /\ n \in Nat /\ n + 1 \notin Blocks(req, "text")
               /\ n + 1 \notin Blocks(req, "tool")
               /\ TextsTo(req, n, 0) = n
               /\ Upto(req, "text", n) = Blocks(req, "text")
               /\ Upto(req, "tool", n) = Blocks(req, "tool")
<1> DEFINE n == Len(req.answer)
<1>1. n \in Nat
  BY ExchangeType
<1>2. /\ Upto(req, "text", n) = Blocks(req, "text")
      /\ Upto(req, "tool", n) = Blocks(req, "tool")
      /\ Blocks(req, "text") \subseteq 1..n /\ Blocks(req, "tool") \subseteq 1..n
  BY <1>1, UptoType
<1> HIDE DEF n
<1>3. n + 1 \notin Blocks(req, "text") /\ n + 1 \notin Blocks(req, "tool")
  BY <1>1, <1>2
<1>4. TextsTo(req, n, 0) = n
  BY <1>3 DEF TextsTo
<1> QED
  BY <1>1, <1>2, <1>3, <1>4 DEF n

LEMMA AnthropicEnds ==
    ASSUME NEW req \in Exchanges, req.purpose = "chat", req.api = "anthropic",
           NEW s, Within(req, Len(req.answer), 0, s)
    PROVE  LET t == OnEvent(req, s, Ending(req)[1])
           IN  t \in Readers /\ Ended(req, t) /\ t.buf = s.buf
<1> DEFINE n == Len(req.answer)
           e == Ending(req)[1]
<1>1. /\ n \in Nat /\ n + 1 \notin Blocks(req, "tool")
      /\ TextsTo(req, n, 0) = n
      /\ Upto(req, "text", n) = Blocks(req, "text")
      /\ Upto(req, "tool", n) = Blocks(req, "tool")
  BY AfterLast
<1>2. /\ s \in Readers /\ s.over = "no"
      /\ InAnthropicChat(req, n, 0, s)
  BY DEF Within
<1> HIDE DEF n
<1>3. Told(req, s, n, n)
  BY <1>1, <1>2 DEF InAnthropicChat
<1>4. OnEvent(req, s, e) = Finish(s, "end_turn")
  <2>1. e.kind = "message_stop"
    BY EndingIs, EventFields
  <2> HIDE DEF e
  <2>2. OnAnthropicChat(s, e) = Finish(s, "end_turn")
    BY <2>1, AnthropicEvents
  <2> QED
    BY <2>2 DEF OnEvent
<1>5. "end_turn" \in Reasons /\ "end_turn" # "tool_use"
  BY DEF Reasons
<1>6. /\ Finish(s, "end_turn") \in Readers
      /\ Ended(req, Finish(s, "end_turn"))
      /\ Finish(s, "end_turn").buf = s.buf
  BY <1>1, <1>2, <1>3, <1>5, ToldThenDone
<1> QED
  BY <1>4, <1>6

\* The chat's reader finishes at finish_reason, the completion's at [DONE].
LEMMA OpenAIEnds ==
    ASSUME NEW req \in Exchanges, req.purpose = "chat", req.api = "openai",
           NEW s, Within(req, Len(req.answer), 0, s)
    PROVE  LET t == OnEvent(req, s, Ending(req)[1])
           IN  t \in Readers /\ Ended(req, t) /\ t.buf = s.buf
<1> DEFINE n == Len(req.answer)
           e == Ending(req)[1]
           t == OnEvent(req, s, e)
           X == Blocks(req, "tool")
<1> SUFFICES t \in Readers /\ Ended(req, t) /\ t.buf = s.buf
  OBVIOUS
<1>1. /\ n \in Nat /\ n + 1 \notin X
      /\ TextsTo(req, n, 0) = n
      /\ Upto(req, "text", n) = Blocks(req, "text")
      /\ Upto(req, "tool", n) = X
  BY AfterLast
<1>2. /\ s \in Readers /\ s.over = "no"
      /\ InOpenAIChat(req, n, 0, s)
  BY DEF Within
<1>3. /\ e.kind = IF req.cut THEN "length" ELSE IF HasTool(req) THEN "tool_calls" ELSE "finish"
      /\ HasTool(req) <=> X # {}
      /\ req.cut => X # {}
  <2>1. e.kind = IF req.cut THEN "length" ELSE IF HasTool(req) THEN "tool_calls" ELSE "finish"
    BY EndingIs, EventFields
  <2>2. HasTool(req) <=> X # {}
    BY DEF HasTool, Blocks
  <2>3. req.cut => X # {}
    BY ExchangeType
  <2> QED
    BY <2>1, <2>2, <2>3
<1>4. t = OnOpenAIChat(s, e)
  BY DEF OnEvent
<1>5. Started(req, n, 0) = X
  BY <1>1 DEF Started
<1>6. {"end_turn", "tool_use", "max_tokens"} \subseteq Reasons
  BY DEF Reasons
<1> HIDE DEF n, e, t
<1>7. CASE X = {}
  <2>1. Told(req, s, n, n)
    BY <1>1, <1>2, <1>5, <1>7 DEF InOpenAIChat
  <2>2. t = Finish(s, "end_turn")
    BY <1>3, <1>4, <1>7, OpenAIEvents
  <2>3. "end_turn" # "tool_use" /\ "end_turn" \in Reasons
    BY <1>6
  <2> HIDE DEF X
  <2> QED
    BY <1>1, <1>2, <2>1, <2>2, <2>3, ToldThenDone DEF X
<1>8. CASE X # {}
  <2>1. PICK c \in X :
            /\ \A a \in X : a <= c
            /\ s.tool = [id |-> c, index |-> c,
                         args |-> Args(req, c, IF c = n + 1 THEN 0 - 1 ELSE Sent(req, c))]
            /\ Told(req, s, n, c - 1)
    <3> HIDE DEF X
    <3> QED
      BY <1>1, <1>2, <1>5, <1>8 DEF InOpenAIChat
  <2>2. /\ c \in Nat /\ c - 1 \in Nat
        /\ Upto(req, "tool", c) = X
    BY <1>1, <2>1, LastStarted
  <2>3. s.tool = [id |-> c, index |-> c, args |-> Args(req, c, Sent(req, c))]
    BY <1>1, <2>1
  <2>4. CASE req.cut
    <3>1. t = Finish(s, "max_tokens")
      BY <1>3, <1>4, <2>4, OpenAIEvents
    <3>2. "max_tokens" \in Reasons
      BY <1>6
    <3> QED
      BY <1>1, <1>2, <2>1, <2>2, <2>4, <3>1, <3>2, ToldThenDone
  <2>5. CASE ~req.cut
    <3> DEFINE r == FlushTool(s)
    <3>1. t = Finish(r, "tool_use")
      BY <1>3, <1>4, <1>8, <2>5, OpenAIEvents
    <3>2. r \in Readers /\ Told(req, r, n, c) /\ r.over = s.over /\ r.buf = s.buf
      BY <1>1, <1>2, <2>1, <2>3, Flushed
    <3>3. "tool_use" \in Reasons
      BY <1>6
    <3> HIDE DEF r
    <3>4. /\ Finish(r, "tool_use") \in Readers
          /\ Ended(req, Finish(r, "tool_use"))
          /\ Finish(r, "tool_use").buf = r.buf
      BY <1>1, <1>2, <1>8, <2>2, <3>2, <3>3, ToldThenDone
    <3> QED
      BY <3>1, <3>2, <3>4
  <2> QED
    BY <2>4, <2>5
<1> QED
  BY <1>7, <1>8

LEMMA CompletionEnds ==
    ASSUME NEW req \in Exchanges, req.purpose = "completion",
           NEW s, Within(req, Len(req.answer), 0, s),
           NEW j \in Nat, j < Len(Ending(req))
    PROVE  LET t == OnEvent(req, s, Ending(req)[j + 1])
           IN  \/ t \in Readers /\ Ended(req, t) /\ t.buf = s.buf
               \/ t = s /\ j + 1 < Len(Ending(req))
<1> DEFINE n == Len(req.answer)
           m == Len(Ending(req))
           e == Ending(req)[j + 1]
           t == OnEvent(req, s, e)
           ending == IF req.api = "anthropic" THEN "message_stop" ELSE "[DONE]"
<1> SUFFICES \/ t \in Readers /\ Ended(req, t) /\ t.buf = s.buf
             \/ t = s /\ j + 1 < m
  OBVIOUS
<1>0. j \in Nat /\ j < m /\ req.api \in {"anthropic", "openai"}
  BY ExchangeType
<1>1. /\ n \in Nat /\ TextsTo(req, n, 0) = n
      /\ Upto(req, "text", n) = Blocks(req, "text")
      /\ Upto(req, "tool", n) = Blocks(req, "tool")
  BY AfterLast
<1>2. /\ s \in Readers /\ s.over = "no"
      /\ Told(req, s, n, n)
  BY <1>1 DEF Within, InCompletion
<1>3. t = OnCompletion(s, e, ending) /\ ending \in {"message_stop", "[DONE]"}
  BY <1>0 DEF OnEvent
<1>4. ASSUME e.kind = ending
      PROVE  t \in Readers /\ Ended(req, t) /\ t.buf = s.buf
  <2>1. "full" \in Reasons /\ "full" # "tool_use"
    BY DEF Reasons
  <2> HIDE DEF n, e, ending
  <2>2. t = Finish(s, "full")
    BY <1>3, <1>4, CompletionEvents
  <2> HIDE DEF t
  <2>3. /\ Finish(s, "full") \in Readers /\ Ended(req, Finish(s, "full"))
        /\ Finish(s, "full").buf = s.buf
    BY <1>1, <1>2, <2>1, ToldThenDone
  <2> QED
    BY <2>2, <2>3
<1>5. CASE req.api = "anthropic"
  <2>1. m = 1 /\ Ending(req)[1].kind = "message_stop"
    BY <1>5, EndingIs, EventFields
  <2>2. j = 0
    <3> HIDE DEF m
    <3> QED
      BY <1>0, <2>1
  <2>3. e.kind = ending
    BY <1>5, <2>1, <2>2
  <2> HIDE DEF e, t, ending
  <2> QED
    BY <1>4, <2>3
<1>6. CASE req.api = "openai"
  <2>1. /\ m = 2 /\ Ending(req)[2].kind = "[DONE]"
        /\ Ending(req)[1].kind = IF req.cut THEN "length"
                                 ELSE IF HasTool(req) THEN "tool_calls" ELSE "finish"
    BY <1>6, EndingIs, EventFields
  <2>2. j = 0 \/ j = 1
    <3> HIDE DEF m
    <3> QED
      BY <1>0, <2>1
  <2>3. CASE j = 1
    <3>1. e.kind = ending
      BY <1>6, <2>1, <2>3
    <3> HIDE DEF e, t, ending
    <3> QED
      BY <1>4, <3>1
  <2>4. CASE j = 0
    <3>1. e.kind \in {"length", "tool_calls", "finish"} /\ ending = "[DONE]"
      BY <1>6, <2>1, <2>4
    <3> HIDE DEF e, ending
    <3>2. t = s
      BY <1>3, <3>1, CompletionEvents
    <3>3. j + 1 < m
      BY <2>1, <2>4
    <3> QED
      BY <3>2, <3>3
  <2> QED
    BY <2>2, <2>3, <2>4
<1> QED
  BY <1>0, <1>5, <1>6

\* l lines of the body have been read, and the server's ending is to come.
Going(req, l, s) ==
    LET n == Len(req.answer)
        L == Starts(req)
    IN  \/ \E i \in 0..n : \E j \in Nat :
              /\ i < n /\ j < Len(BlockLines(req, i + 1)) /\ l = L[i] + j
              /\ Within(req, i, j, s)
        \/ \E j \in Nat :
              /\ j < Len(Ending(req)) /\ l = L[n] + j
              /\ j > 0 => req.purpose = "completion"
              /\ Within(req, n, 0, s)

LEMMA Entered ==
    ASSUME NEW req \in Exchanges, NEW i \in 0..Len(req.answer), NEW s,
           Within(req, i, 0, s)
    PROVE  Going(req, Starts(req)[i], s)
<1> DEFINE n == Len(req.answer)
           L == Starts(req)
           l == L[i]
<1>1. n \in Nat /\ L \in [0..n -> Nat] /\ i \in 0..n
  BY StartsIs, ExchangeType DEF Layout
<1>2. l = l + 0 /\ l \in Nat
  BY <1>1
<1> HIDE DEF L, l
<1>3. CASE i < n
  <2>1. i + 1 \in DOMAIN req.answer
    BY <1>1, <1>3, ExchangeType
  <2>2. 0 < Len(BlockLines(req, i + 1))
    <3> DEFINE m == Len(BlockLines(req, i + 1))
    <3>1. m \in Nat \ {0}
      BY <2>1, BlockLinesType
    <3> HIDE DEF m
    <3>2. 0 < m
      BY <3>1
    <3> QED
      BY <3>2 DEF m
  <2>3. \E j \in Nat : /\ i < n /\ j < Len(BlockLines(req, i + 1)) /\ l = L[i] + j
                       /\ Within(req, i, j, s)
    BY <1>2, <1>3, <2>2 DEF l
  <2>4. Going(req, l, s)
    BY <1>1, <2>3 DEF Going, L
  <2> QED
    BY <2>4 DEF l, L
<1>4. CASE i = n
  <2>1. 0 < Len(Ending(req))
    BY EndingIs, ExchangeType
  <2>2. \E j \in Nat : /\ j < Len(Ending(req)) /\ l = L[n] + j
                       /\ j > 0 => req.purpose = "completion"
                       /\ Within(req, n, 0, s)
    BY <1>2, <1>4, <2>1 DEF l
  <2>3. Going(req, l, s)
    BY <2>2 DEF Going, L
  <2> QED
    BY <2>3 DEF l, L
<1> QED
  BY <1>1, <1>3, <1>4

Plain == LineKinds \ {"noise", "broken", "error"}

LEMMA PlainBlock ==
    ASSUME NEW req \in Exchanges, NEW b \in DOMAIN req.answer,
           NEW j \in 1..Len(BlockLines(req, b))
    PROVE  BlockLines(req, b)[j].kind \in Plain
<1> DEFINE n == Len(BlockLines(req, b))
           e == BlockLines(req, b)[j]
<1>0. n \in Nat /\ j \in 1..n
  BY BlockLinesType
<1>1. req.api \in {"anthropic", "openai"}
  BY ExchangeType
<1>2. {"start", "text", "piece", "stop", "call"} \subseteq Plain
  BY DEF Plain, LineKinds
<1>3. CASE b \in Blocks(req, "text") /\ req.api = "anthropic"
  <2>1. /\ n = 3 /\ BlockLines(req, b)[1].kind = "start"
        /\ BlockLines(req, b)[2].kind = "text" /\ BlockLines(req, b)[3].kind = "stop"
    BY <1>3, AnthropicText, EventFields
  <2>2. j = 1 \/ j = 2 \/ j = 3
    <3> HIDE DEF n
    <3> QED
      BY <1>0, <2>1
  <2> QED
    BY <1>2, <2>1, <2>2
<1>4. CASE b \in Blocks(req, "text") /\ req.api = "openai"
  <2>1. n = 1 /\ BlockLines(req, b)[1].kind = "text"
    BY <1>4, OpenAIText, EventFields
  <2>2. j = 1
    <3> HIDE DEF n
    <3> QED
      BY <1>0, <2>1
  <2> QED
    BY <1>2, <2>1, <2>2
<1>5. CASE b \in Blocks(req, "tool") /\ req.api = "anthropic"
  <2> DEFINE k == Sent(req, b)
  <2>1. k \in Nat /\ n = k + 2
    BY <1>5, AnthropicTool, SentType
  <2>2. /\ BlockLines(req, b)[1].kind = "start"
        /\ BlockLines(req, b)[k + 2].kind = "stop"
        /\ \A x \in 1..k : BlockLines(req, b)[x + 1].kind = "piece"
    BY <1>5, AnthropicTool, EventFields DEF PieceLine
  <2>3. j = 1 \/ j = k + 2 \/ (j - 1 \in 1..k /\ (j - 1) + 1 = j)
    <3> HIDE DEF n, k
    <3> QED
      BY <1>0, <2>1
  <2> HIDE DEF k
  <2> QED
    BY <1>2, <2>2, <2>3
<1>6. CASE b \in Blocks(req, "tool") /\ req.api = "openai"
  <2> DEFINE k == Sent(req, b)
  <2>1. k \in Nat /\ n = k + 1
    BY <1>6, OpenAITool, SentType
  <2>2. /\ BlockLines(req, b)[1].kind = "call"
        /\ \A x \in 1..k : BlockLines(req, b)[x + 1].kind = "call"
    BY <1>6, OpenAITool, EventFields DEF PieceLine
  <2>3. j = 1 \/ (j - 1 \in 1..k /\ (j - 1) + 1 = j)
    <3> HIDE DEF n, k
    <3> QED
      BY <1>0, <2>1
  <2> HIDE DEF k
  <2> QED
    BY <1>2, <2>2, <2>3
<1> QED
  BY <1>1, <1>3, <1>4, <1>5, <1>6, BlockLinesType

LEMMA PlainEnding ==
    ASSUME NEW req \in Exchanges, NEW j \in 1..Len(Ending(req))
    PROVE  Ending(req)[j].kind \in Plain
<1> DEFINE n == Len(Ending(req))
<1>0. n \in Nat /\ j \in 1..n
  BY EndingIs
<1>1. req.api \in {"anthropic", "openai"}
  BY ExchangeType
<1>2. {"message_stop", "length", "tool_calls", "finish", "[DONE]"} \subseteq Plain
  BY DEF Plain, LineKinds
<1>3. CASE req.api = "anthropic"
  <2>1. n = 1 /\ Ending(req)[1].kind = "message_stop"
    BY <1>3, EndingIs, EventFields
  <2>2. j = 1
    <3> HIDE DEF n
    <3> QED
      BY <1>0, <2>1
  <2> QED
    BY <1>2, <2>1, <2>2
<1>4. CASE req.api = "openai"
  <2>1. /\ n = 2 /\ Ending(req)[2].kind = "[DONE]"
        /\ Ending(req)[1].kind \in {"length", "tool_calls", "finish"}
    BY <1>4, EndingIs, EventFields
  <2>2. j = 1 \/ j = 2
    <3> HIDE DEF n
    <3> QED
      BY <1>0, <2>1
  <2> QED
    BY <1>2, <2>1, <2>2
<1> QED
  BY <1>1, <1>3, <1>4

LEMMA BodyStep ==
    ASSUME NEW req \in Exchanges, NEW l \in Nat, NEW s, Going(req, l, s)
    PROVE  /\ l + 1 \in 1..Len(Body(req))
           /\ Body(req)[l + 1].kind \in Plain
           /\ LET t == OnEvent(req, s, Body(req)[l + 1])
              IN  /\ t \in Readers /\ t.buf = s.buf
                  /\ (t.over = "no" /\ Going(req, l + 1, t)) \/ Ended(req, t)
<1> DEFINE n == Len(req.answer)
           L == Starts(req)
           B == Body(req)
           t == OnEvent(req, s, B[l + 1])
<1> SUFFICES /\ l + 1 \in 1..Len(B)
             /\ B[l + 1].kind \in Plain
             /\ t \in Readers /\ t.buf = s.buf
             /\ (t.over = "no" /\ Going(req, l + 1, t)) \/ Ended(req, t)
  OBVIOUS
<1>0. Layout(req, L)
  BY StartsIs
<1>1. n \in Nat /\ \A i \in 0..n : L[i] \in Nat
  <2>1. n \in Nat /\ L \in [0..n -> Nat]
    BY <1>0, ExchangeType DEF Layout
  <2> HIDE DEF L, n
  <2> QED
    BY <2>1
<1>10. Len(B) = L[n] + Len(Ending(req))
  BY <1>0 DEF Layout
<1>11. \A i \in 0..n : i < n => L[i + 1] = L[i] + Len(BlockLines(req, i + 1))
  BY <1>0 DEF Layout
<1>12. \A i \in 0..n : i < n => \A j \in 1..Len(BlockLines(req, i + 1)) :
                  B[L[i] + j] = BlockLines(req, i + 1)[j]
  BY <1>0 DEF Layout
<1>13. \A j \in 1..Len(Ending(req)) : B[L[n] + j] = Ending(req)[j]
  BY <1>0 DEF Layout
<1>2. \A x \in 0..n : x < n => Len(BlockLines(req, x + 1)) \in Nat
  <2> SUFFICES ASSUME NEW x \in 0..n, x < n
               PROVE  Len(BlockLines(req, x + 1)) \in Nat
    OBVIOUS
  <2>1. x + 1 \in DOMAIN req.answer
    BY <1>1, ExchangeType
  <2> QED
    BY <2>1, BlockLinesType
<1>3. Len(Ending(req)) \in Nat
  BY EndingIs
<1>4. \A u, i, j : Within(req, i, j, u) => u \in Readers /\ u.over = "no"
  BY DEF Within
<1> HIDE DEF L, B, n
<1>5. \A i \in 0..n : L[i] <= L[n]
  <2> DEFINE P == {d \in Nat : d <= n => L[n - d] <= L[n]}
  <2>1. 0 \in P
    <3>1. n - 0 = n
      BY <1>1
    <3> QED
      BY <1>1, <3>1
  <2>2. ASSUME NEW d \in P
        PROVE  d + 1 \in P
    <3> SUFFICES ASSUME d + 1 <= n
                 PROVE  L[n - (d + 1)] <= L[n]
      OBVIOUS
    <3> DEFINE x == n - (d + 1)
               m == Len(BlockLines(req, x + 1))
    <3>1. x \in 0..n /\ x < n /\ x + 1 = n - d /\ L[n - d] <= L[n]
      BY <1>1
    <3>2. L[x + 1] = L[x] + m /\ m \in Nat
      BY <1>2, <1>11, <3>1
    <3>3. L[x] \in Nat /\ L[x + 1] \in Nat /\ L[n] \in Nat
      BY <1>1, <3>1
    <3> HIDE DEF x, m
    <3>4. L[x] <= L[n]
      BY <3>1, <3>2, <3>3
    <3> QED
      BY <3>4 DEF x
  <2>3. P \in SUBSET Nat
    OBVIOUS
  <2>4. P = Nat
    <3> HIDE DEF P
    <3>1. \A d \in P : d + 1 \in P
      BY <2>2
    <3> QED
      BY <2>1, <2>3, <3>1, NumbersInduction
  <2> SUFFICES ASSUME NEW i \in 0..n
               PROVE  L[i] <= L[n]
    OBVIOUS
  <2>5. n - i \in P /\ n - i <= n /\ n - (n - i) = i
    <3> HIDE DEF P
    <3>1. n - i \in Nat /\ n - i <= n /\ n - (n - i) = i
      BY <1>1
    <3> QED
      BY <2>4, <3>1
  <2> QED
    BY <2>5
<1>6. ASSUME NEW i \in 0..n, NEW j \in Nat, i < n,
             j < Len(BlockLines(req, i + 1)), l = L[i] + j, Within(req, i, j, s)
      PROVE  /\ l + 1 \in 1..Len(B)
             /\ B[l + 1].kind \in Plain
             /\ t \in Readers /\ t.buf = s.buf
             /\ t.over = "no" /\ Going(req, l + 1, t)
  <2> DEFINE m == Len(BlockLines(req, i + 1))
  <2>1. /\ m \in Nat /\ L[i] \in Nat /\ L[i + 1] \in Nat /\ L[i + 1] = L[i] + m
        /\ L[i + 1] <= L[n] /\ L[n] \in Nat /\ j < m
        /\ i \in Nat /\ i + 1 \in 0..n
    <3>1. i \in Nat /\ i + 1 \in 0..n /\ n \in 0..n
      BY <1>1, <1>6
    <3>2. L[i] \in Nat /\ L[i + 1] \in Nat /\ L[n] \in Nat /\ L[i + 1] <= L[n]
      BY <1>1, <1>5, <3>1
    <3>3. m \in Nat /\ L[i + 1] = L[i] + m /\ j < m
      BY <1>2, <1>6, <1>11
    <3> QED
      BY <3>1, <3>2, <3>3
  <2> HIDE DEF m
  <2>2. l + 1 \in 1..Len(B) /\ l + 1 = L[i] + (j + 1) /\ j + 1 \in 1..m
    <3>1. l \in Nat /\ Len(B) \in Nat /\ L[n] <= Len(B)
      BY <1>3, <1>10, <2>1
    <3>2. l = L[i] + j
      BY <1>6
    <3> DEFINE a == L[i]
               c == L[i + 1]
               d == L[n]
               len == Len(B)
    <3>3. /\ a \in Nat /\ m \in Nat /\ c = a + m /\ c <= d /\ d \in Nat /\ j < m
          /\ len \in Nat /\ d <= len /\ l = a + j
      BY <2>1, <3>1, <3>2
    <3> HIDE DEF a, c, d, len
    <3>4. l + 1 \in 1..len /\ l + 1 = a + (j + 1) /\ j + 1 \in 1..m
      BY <1>6, <3>3, SMTT(30)
    <3> QED
      BY <3>4 DEF a, len
  <2>3. B[l + 1] = BlockLines(req, i + 1)[j + 1]
    <3>1. B[L[i] + (j + 1)] = BlockLines(req, i + 1)[j + 1]
      BY <1>6, <1>12, <2>2 DEF m
    <3> QED
      BY <2>2, <3>1
  <2>8. B[l + 1].kind \in Plain
    <3>1. i + 1 \in DOMAIN req.answer
      BY <1>1, <1>6, ExchangeType DEF n
    <3> QED
      BY <2>2, <2>3, <3>1, PlainBlock DEF m
  <2>4. Within(req, i, j + 1, t) /\ t.buf = s.buf
    <3>1. i \in Nat /\ i < Len(req.answer) /\ j < Len(BlockLines(req, i + 1))
      BY <1>6, <2>1 DEF n
    <3>2. LET u == OnEvent(req, s, BlockLines(req, i + 1)[j + 1])
          IN  Within(req, i, j + 1, u) /\ u.buf = s.buf
      BY <1>6, <3>1, BlockStep
    <3> QED
      BY <2>3, <3>2
  <2> HIDE DEF t
  <2>5. t \in Readers /\ t.over = "no"
    BY <1>4, <2>4
  <2>6. CASE j + 1 = m
    <3>1. Within(req, i + 1, 0, t)
      BY <1>6, <2>1, <2>4, <2>6, BlockEnds DEF m, n
    <3>2. Going(req, L[i + 1], t)
      BY <2>1, <3>1, Entered DEF L, n
    <3>3. l + 1 = L[i + 1]
      BY <2>1, <2>2, <2>6
    <3> QED
      BY <2>2, <2>4, <2>5, <2>8, <3>2, <3>3
  <2>7. CASE j + 1 # m
    <3>1. j + 1 \in Nat /\ j + 1 < m
      BY <2>1, <2>7
    <3>2. Going(req, l + 1, t)
      BY <1>6, <2>2, <2>4, <3>1 DEF Going, L, m, n
    <3> QED
      BY <2>2, <2>4, <2>5, <2>8, <3>2
  <2> QED
    BY <2>6, <2>7
<1>7. ASSUME NEW j \in Nat, j < Len(Ending(req)), l = L[n] + j,
             j > 0 => req.purpose = "completion", Within(req, n, 0, s)
      PROVE  /\ l + 1 \in 1..Len(B)
             /\ B[l + 1].kind \in Plain
             /\ t \in Readers /\ t.buf = s.buf
             /\ (t.over = "no" /\ Going(req, l + 1, t)) \/ Ended(req, t)
  <2> DEFINE m == Len(Ending(req))
  <2>1. m \in Nat /\ L[n] \in Nat /\ Len(B) = L[n] + m /\ j < m
    <3>1. n \in 0..n
      BY <1>1
    <3> QED
      BY <1>1, <1>3, <1>7, <1>10, <3>1
  <2> HIDE DEF m
  <2>2. l + 1 \in 1..Len(B) /\ l + 1 = L[n] + (j + 1) /\ j + 1 \in 1..m
    <3>1. l = L[n] + j
      BY <1>7
    <3> QED
      BY <2>1, <3>1, SMTT(30)
  <2>3. B[l + 1] = Ending(req)[j + 1]
    <3>1. B[L[n] + (j + 1)] = Ending(req)[j + 1]
      BY <1>13, <2>2 DEF m
    <3> QED
      BY <2>2, <3>1
  <2>8. B[l + 1].kind \in Plain
    BY <2>2, <2>3, PlainEnding DEF m
  <2>4. CASE req.purpose = "completion"
    <3>1. \/ t \in Readers /\ Ended(req, t) /\ t.buf = s.buf
          \/ t = s /\ j + 1 < m
      <4>1. Within(req, Len(req.answer), 0, s) /\ j < Len(Ending(req))
        BY <1>7 DEF n
      <4>2. t = OnEvent(req, s, Ending(req)[j + 1])
        BY <2>3
      <4> HIDE DEF t
      <4> QED
        BY <2>4, <4>1, <4>2, CompletionEnds DEF m
    <3> HIDE DEF t
    <3>2. ASSUME t = s, j + 1 < m
          PROVE  t \in Readers /\ t.buf = s.buf /\ t.over = "no" /\ Going(req, l + 1, t)
      <4>1. t \in Readers /\ t.over = "no"
        BY <1>4, <1>7, <3>2
      <4>2. j + 1 \in Nat /\ Within(req, n, 0, t)
        BY <1>7, <3>2
      <4>3. Going(req, l + 1, t)
        BY <2>2, <2>4, <3>2, <4>2 DEF Going, L, m, n
      <4> QED
        BY <3>2, <4>1, <4>3
    <3> QED
      BY <2>2, <2>8, <3>1, <3>2
  <2>5. CASE req.purpose # "completion"
    <3>1. req.purpose = "chat" /\ req.api \in {"anthropic", "openai"}
      BY <2>5, ExchangeType
    <3>2. j = 0 /\ j + 1 = 1
      BY <1>7, <2>5
    <3>3. t \in Readers /\ Ended(req, t) /\ t.buf = s.buf
      BY <1>7, <2>3, <3>1, <3>2, AnthropicEnds, OpenAIEnds DEF n
    <3> QED
      BY <2>2, <2>8, <3>3
  <2> QED
    BY <2>4, <2>5
<1>8. \/ \E i \in 0..n : \E j \in Nat :
            /\ i < n /\ j < Len(BlockLines(req, i + 1)) /\ l = L[i] + j
            /\ Within(req, i, j, s)
      \/ \E j \in Nat :
            /\ j < Len(Ending(req)) /\ l = L[n] + j
            /\ j > 0 => req.purpose = "completion"
            /\ Within(req, n, 0, s)
  BY DEF Going, L, n
<1> HIDE DEF t, n
<1> QED
  BY <1>6, <1>7, <1>8

\* What is left of the line under way has no part in what was told.
LEMMA WithinSame ==
    ASSUME NEW req, NEW i, NEW j, NEW s, Within(req, i, j, s),
           NEW t \in Readers, t.over = s.over, t.tool = s.tool,
           t.heard = s.heard, t.promise = s.promise
    PROVE  Within(req, i, j, t)
<1>1. ASSUME NEW k, NEW l, Told(req, s, k, l)
      PROVE  Told(req, t, k, l)
  BY <1>1 DEF Told
<1>2. s \in Readers /\ s.over = "no"
  BY DEF Within
<1>3. req.purpose = "completion" => InCompletion(req, i, j, t)
  BY <1>1 DEF Within, InCompletion
<1>4. req.purpose = "chat" /\ req.api = "anthropic" => InAnthropicChat(req, i, j, t)
  BY <1>1 DEF Within, InAnthropicChat
<1>5. req.purpose = "chat" /\ req.api = "openai" => InOpenAIChat(req, i, j, t)
  <2>1. CASE Started(req, i, j) = {}
    BY <1>1, <2>1 DEF Within, InOpenAIChat
  <2>2. CASE Started(req, i, j) # {}
    BY <1>1, <2>2 DEF Within, InOpenAIChat
  <2> QED
    BY <2>1, <2>2
<1> QED
  BY <1>2, <1>3, <1>4, <1>5 DEF Within

LEMMA GoingSame ==
    ASSUME NEW req, NEW l, NEW s, Going(req, l, s),
           NEW t \in Readers, t.over = s.over, t.tool = s.tool,
           t.heard = s.heard, t.promise = s.promise
    PROVE  Going(req, l, t)
<1>1. ASSUME NEW i, NEW j, Within(req, i, j, s)
      PROVE  Within(req, i, j, t)
  BY <1>1, WithinSame
<1> QED
  BY <1>1 DEF Going

\* Whatever is under way, the blocks before it were told.
LEMMA WithinTold ==
    ASSUME NEW req \in Exchanges, NEW i \in Nat, NEW j \in Nat, NEW s,
           Within(req, i, j, s)
    PROVE  s \in Readers /\ s.over = "no"
           /\ \E k, l \in Nat : Told(req, s, k, l)
<1>1. TextsTo(req, i, j) \in Nat
  BY DEF TextsTo
<1>2. req.purpose \in {"chat", "completion"} /\ req.api \in {"anthropic", "openai"}
  BY ExchangeType
<1>3. CASE req.purpose = "completion"
  BY <1>1, <1>3 DEF Within, InCompletion
<1>4. CASE req.purpose = "chat" /\ req.api = "anthropic"
  <2>1. PICK l \in {i, i + 1} : Told(req, s, TextsTo(req, i, j), l)
    BY <1>4 DEF Within, InAnthropicChat
  <2> QED
    BY <1>1, <2>1 DEF Within
<1>5. CASE req.purpose = "chat" /\ req.api = "openai"
  <2>1. CASE Started(req, i, j) = {}
    BY <1>1, <1>5, <2>1 DEF Within, InOpenAIChat
  <2>2. CASE Started(req, i, j) # {}
    <3>1. PICK b \in Started(req, i, j) : Told(req, s, TextsTo(req, i, j), b - 1)
      BY <1>5, <2>2 DEF Within, InOpenAIChat
    <3>2. b \in Blocks(req, "tool")
      BY <3>1 DEF Started, Upto
    <3>3. b - 1 \in Nat
      BY <3>2, UptoMore
    <3> QED
      BY <1>1, <3>1, <3>3 DEF Within
  <2> QED
    BY <2>1, <2>2
<1> QED
  BY <1>2, <1>3, <1>4, <1>5

LEMMA GoingTold ==
    ASSUME NEW req \in Exchanges, NEW l, NEW s, Going(req, l, s)
    PROVE  s \in Readers /\ s.over = "no"
           /\ \E i, j \in Nat : Told(req, s, i, j)
<1>1. Len(req.answer) \in Nat
  BY UptoType
<1>2. PICK i \in Nat, j \in Nat : Within(req, i, j, s)
  <2>1. CASE \E i \in 0..Len(req.answer) : \E j \in Nat : Within(req, i, j, s)
    BY <1>1, <2>1
  <2>2. CASE Within(req, Len(req.answer), 0, s)
    BY <1>1, <2>2
  <2> QED
    BY <2>1, <2>2 DEF Going
<1> QED
  BY <1>2, WithinTold

-----------------------------------------------------------------------------
(* ----------------------------- the lines ------------------------------- *)

LEMMA LineIs ==
    ASSUME NEW e
    PROVE  /\ IsData(LineOf(e)) <=> e.kind # "noise"
           /\ Parses(LineOf(e)) <=> e.kind # "broken"
           /\ Head(LineOf(e))[1] = e
<1>1. LineOf(e) # <<>> /\ Head(LineOf(e)) = <<e, 1>>
  BY DEF LineOf
<1>2. Head(LineOf(e))[1] = e /\ Head(LineOf(e))[2] = 1
  BY <1>1
<1>3. IsData(LineOf(e)) <=> e.kind # "noise"
  BY <1>1, <1>2 DEF IsData
<1>4. LineOf(e) = << <<e, 1>>, <<e, 2>> >>
  BY DEF LineOf
<1>5. Parses(LineOf(e)) <=> e.kind # "broken"
  BY <1>2, <1>4 DEF Parses
<1> QED
  BY <1>2, <1>3, <1>5

LEMMA OnLineOver ==
    ASSUME NEW req, NEW s, NEW line, s.over # "no"
    PROVE  OnLine(req, s, line) = s
BY DEF OnLine

LEMMA OnLineNoise ==
    ASSUME NEW req, NEW s, NEW e, e.kind = "noise"
    PROVE  OnLine(req, s, LineOf(e)) = s
BY LineIs DEF OnLine

LEMMA OnLineEvent ==
    ASSUME NEW req, NEW s, s.over = "no", NEW e, e.kind \notin {"noise", "broken"}
    PROVE  OnLine(req, s, LineOf(e)) = OnEvent(req, s, e)
<1>1. IsData(LineOf(e)) /\ Parses(LineOf(e)) /\ Head(LineOf(e))[1] = e
  BY LineIs
<1> QED
  BY <1>1 DEF OnLine

LEMMA SetBuf ==
    ASSUME NEW s \in Readers, NEW b \in Seq(Frag)
    PROVE  LET t == [s EXCEPT !.buf = b]
           IN  /\ t \in Readers /\ t.tool = s.tool /\ t.heard = s.heard
               /\ t.promise = s.promise /\ t.buf = b /\ t.over = s.over
BY DEF Readers

LEMMA OnLineBroken ==
    ASSUME NEW req, NEW s \in Readers, s.over = "no", NEW e \in Line, e.kind = "broken"
    PROVE  LET t == OnLine(req, s, LineOf(e))
           IN  /\ t \in Readers /\ t.tool = s.tool /\ t.heard = s.heard
               /\ t.promise = s.promise /\ t.over = s.over
               /\ t.buf = (LineOf(e) \o <<NL>>) \o s.buf
<1> DEFINE line == LineOf(e)
           t == OnLine(req, s, line)
           again == (line \o <<NL>>) \o s.buf
<1>1. IsData(line) /\ ~Parses(line)
  BY LineIs
<1>2. again \in Seq(Frag)
  <2>1. line \o <<NL>> \in Seq(Frag) /\ s.buf \in Seq(Frag)
    BY LineOfType DEF Readers
  <2> HIDE DEF line
  <2> QED
    BY <2>1
<1> HIDE DEF line
<1>3. t = [s EXCEPT !.buf = again]
  BY <1>1 DEF OnLine
<1> HIDE DEF t, again
<1>4. /\ t \in Readers /\ t.tool = s.tool /\ t.heard = s.heard
      /\ t.promise = s.promise /\ t.buf = again /\ t.over = s.over
  BY <1>2, <1>3, SetBuf
<1> QED
  BY <1>4 DEF t, again, line

LEMMA NothingBefore ==
    ASSUME NEW rest \in Seq(Frag)
    PROVE  <<>> \o rest = rest
OBVIOUS

\* The reader after the first q lines of the events.
Reached(req, q, s) ==
    /\ s \in Readers
    /\ (s.over = "no" /\ Going(req, BodyLines(req, q), s)) \/ Ended(req, s)

\* It keeps what follows them, after the broken line it put back.
Keeps(req, q, rest, s) ==
    Reached(req, q, s) /\ (s.over = "no" => s.buf = PutBack(req, q) \o rest)

\* An error event in the middle ends a chat of Anthropic's, and nothing else.
LEMMA ErrorStep ==
    ASSUME NEW req \in Exchanges, NEW l, NEW s, Going(req, l, s),
           NEW e, e.kind = "error"
    PROVE  LET t == OnEvent(req, s, e)
           IN  t = s \/ (t \in Readers /\ Ended(req, t))
<1>0. req.purpose \in {"chat", "completion"} /\ req.api \in {"anthropic", "openai"}
  BY ExchangeType
<1>1. CASE req.purpose = "completion"
  <2>1. PICK ending \in {"message_stop", "[DONE]"} :
            OnEvent(req, s, e) = OnCompletion(s, e, ending)
    BY <1>0, <1>1 DEF OnEvent
  <2>2. e.kind \notin {"text", ending}
    BY <2>1
  <2>3. OnCompletion(s, e, ending) = s
    BY <2>2, CompletionEvents
  <2> QED
    BY <2>1, <2>3
<1>2. CASE req.purpose = "chat" /\ req.api = "openai"
  BY <1>2, OpenAIEvents DEF OnEvent
<1>3. CASE req.purpose = "chat" /\ req.api = "anthropic"
  <2>1. s \in Readers
    BY GoingTold
  <2>2. PICK i \in Nat, j \in Nat : Told(req, s, i, j)
    BY GoingTold
  <2>3. "full" \in Reasons
    BY DEF Reasons
  <2>4. Error \in Callbacks /\ Settles(Error)
    BY <2>3, SettleTypes
  <2> DEFINE c == Call(s, Error)
             t == [c EXCEPT !.over = "error"]
  <2>5. c \in Readers /\ c.heard = Append(s.heard, Error)
    BY <2>1, <2>4, CallIs
  <2> HIDE DEF c
  <2>6. t \in Readers /\ t.heard = c.heard /\ t.over = "error"
    BY <2>5, SetOver
  <2>7. InOrder(req, Append(s.heard, Error)) /\ Once(Append(s.heard, Error))
    BY <2>1, <2>2, <2>4, ToldThenSettled
  <2>8. Ended(req, t)
    BY <2>5, <2>6, <2>7 DEF Ended
  <2>9. OnEvent(req, s, e) = t
    BY <1>3, AnthropicEvents DEF OnEvent, c
  <2> QED
    BY <2>6, <2>8, <2>9
<1> QED
  BY <1>0, <1>1, <1>2, <1>3

LEMMA LineStep ==
    ASSUME NEW req \in Exchanges, NEW q \in Nat, q < Len(EventLines(req)),
           NEW s, NEW rest \in Seq(Frag), Keeps(req, q, rest, s)
    PROVE  Keeps(req, q + 1, rest, OnLine(req, s, LineOf(EventLines(req)[q + 1])))
<1> DEFINE E == EventLines(req)
           e == E[q + 1]
<1> HIDE DEF e
<1> DEFINE t == OnLine(req, s, LineOf(e))
<1> SUFFICES /\ Reached(req, q + 1, t)
             /\ t.over = "no" => t.buf = PutBack(req, q + 1) \o rest
  BY DEF e, Keeps
<1>0. Reached(req, q, s) /\ (s.over = "no" => s.buf = PutBack(req, q) \o rest)
  BY DEF Keeps
<1>1. s \in Readers
  BY <1>0 DEF Reached
<1>2. req.odd \in {"none", "noise", "broken", "error"}
  BY ExchangeType
<1>3. CASE s.over # "no"
  <2>1. t = s
    BY <1>3, OnLineOver
  <2>2. Ended(req, s)
    BY <1>0, <1>3 DEF Reached
  <2> HIDE DEF t
  <2> QED
    BY <1>1, <1>3, <2>1, <2>2 DEF Reached
<1>4. CASE s.over = "no"
  <2>1. Going(req, BodyLines(req, q), s)
    BY <1>0, <1>4 DEF Reached, Ended
  <2>2. E \in Seq(Line) /\ Len(E) \in Nat /\ q + 1 \in 1..Len(E)
    <3>1. E \in Seq(Line)
      BY EventLinesIs
    <3> HIDE DEF E
    <3> QED
      BY <3>1 DEF E
  <2>3. e = IF IsOdd(req, q + 1) THEN OddLine(req)
            ELSE Body(req)[BodyLines(req, q + 1)]
    BY <2>2, EventLinesIs DEF e
  <2>4. CASE IsOdd(req, q + 1)
    <3>1. req.odd # "none" /\ req.oddAt = q + 1
      BY <2>4 DEF IsOdd
    <3>2. BodyLines(req, q + 1) = BodyLines(req, q)
      BY <3>1 DEF BodyLines
    <3>3. PutBack(req, q) = <<>>
      BY <3>1 DEF PutBack
    <3>4. e.kind = req.odd
      BY <2>3, <2>4, EventFields DEF OddLine
    <3>5. s.buf = rest
      BY <1>0, <1>4, <3>3, NothingBefore
    <3>6. ASSUME t = s, req.odd # "broken"
          PROVE  /\ Reached(req, q + 1, t)
                 /\ t.over = "no" => t.buf = PutBack(req, q + 1) \o rest
      <4>1. PutBack(req, q + 1) = <<>>
        BY <3>6 DEF PutBack
      <4> HIDE DEF t
      <4> QED
        BY <1>1, <1>4, <2>1, <3>2, <3>5, <3>6, <4>1, NothingBefore DEF Reached
    <3>7. CASE req.odd = "noise"
      <4>1. t = s
        BY <3>4, <3>7, OnLineNoise
      <4> QED
        BY <3>6, <3>7, <4>1
    <3>8. CASE req.odd = "broken"
      <4> DEFINE again == LineOf(e) \o <<NL>>
      <4>2. e = OddLine(req) /\ e \in Line
        BY <2>3, <2>4, <3>1, OddLineType
      <4>7. /\ t \in Readers /\ t.tool = s.tool /\ t.heard = s.heard
            /\ t.promise = s.promise /\ t.buf = again \o s.buf /\ t.over = s.over
        <5>0. e \in Line /\ e.kind = "broken"
          BY <3>4, <3>8, <4>2
        <5>1. LET u == OnLine(req, s, LineOf(e))
              IN  /\ u \in Readers /\ u.tool = s.tool /\ u.heard = s.heard
                  /\ u.promise = s.promise /\ u.over = s.over
                  /\ u.buf = (LineOf(e) \o <<NL>>) \o s.buf
          BY <1>1, <1>4, <5>0, OnLineBroken, ZenonT(30)
        <5> QED
          BY <5>1
      <4>3. PutBack(req, q + 1) = again
        BY <3>1, <3>8, <4>2 DEF PutBack
      <4> HIDE DEF again, t
      <4>8. Going(req, BodyLines(req, q + 1), t)
        BY <2>1, <3>2, <4>7, GoingSame
      <4> QED
        BY <1>4, <3>5, <4>3, <4>7, <4>8 DEF Reached
    <3>9. CASE req.odd = "error"
      <4>1. t = OnEvent(req, s, e)
        BY <1>4, <3>4, <3>9, OnLineEvent
      <4>2. t = s \/ (t \in Readers /\ Ended(req, t))
        <5>1. LET u == OnEvent(req, s, e) IN u = s \/ (u \in Readers /\ Ended(req, u))
          BY <2>1, <3>4, <3>9, ErrorStep
        <5> QED
          BY <4>1, <5>1
      <4>3. CASE t = s
        BY <3>6, <3>9, <4>3
      <4>4. CASE t \in Readers /\ Ended(req, t)
        <5> HIDE DEF t
        <5> QED
          BY <4>4 DEF Reached, Ended
      <4> QED
        BY <4>2, <4>3, <4>4
    <3> QED
      BY <1>2, <3>1, <3>7, <3>8, <3>9
  <2>5. CASE ~IsOdd(req, q + 1)
    <3>0. req.odd # "none" => req.oddAt \in Nat
      BY ExchangeType
    <3>1. BodyLines(req, q + 1) = BodyLines(req, q) + 1 /\ BodyLines(req, q) \in Nat
      <4>1. BodyLines(req, q + 1) = BodyLines(req, q) + 1
        BY <2>5, <3>0 DEF BodyLines, IsOdd
      <4>2. BodyLines(req, q) \in Nat
        BY <3>0, ExchangeType DEF BodyLines
      <4> QED
        BY <4>1, <4>2
    <3>2. PutBack(req, q + 1) = PutBack(req, q)
      BY <2>5, <3>0 DEF PutBack, IsOdd
    <3> DEFINE l == BodyLines(req, q)
    <3>3. e = Body(req)[l + 1]
      BY <2>3, <2>5, <3>1
    <3> HIDE DEF l
    <3>4. Body(req)[l + 1].kind \in Plain
      BY <2>1, <3>1, BodyStep DEF l
    <3>5. LET u == OnEvent(req, s, Body(req)[l + 1])
          IN  /\ u \in Readers /\ u.buf = s.buf
              /\ (u.over = "no" /\ Going(req, l + 1, u)) \/ Ended(req, u)
      BY <2>1, <3>1, BodyStep DEF l
    <3>6. e.kind \notin {"noise", "broken"}
      BY <3>3, <3>4 DEF Plain
    <3>7. t = OnEvent(req, s, Body(req)[l + 1])
      BY <1>4, <3>3, <3>6, OnLineEvent
    <3> HIDE DEF t
    <3>8. /\ t \in Readers /\ t.buf = s.buf
          /\ (t.over = "no" /\ Going(req, l + 1, t)) \/ Ended(req, t)
      BY <3>5, <3>7
    <3>9. Reached(req, q + 1, t)
      BY <3>1, <3>8 DEF Reached, l
    <3> QED
      BY <1>0, <1>4, <3>2, <3>8, <3>9
  <2> QED
    BY <2>4, <2>5
<1> QED
  BY <1>3, <1>4

-----------------------------------------------------------------------------
(* ----------------------------- the chunks ------------------------------ *)

Afters(req, s, split, n, g) ==
    g = [k \in 0..n |-> IF k = 0 THEN [s EXCEPT !.buf = split.rest]
                        ELSE OnLine(req, g[k - 1], split.lines[k])]

LEMMA AftersExists ==
    ASSUME NEW req, NEW s, NEW split, NEW n \in Nat
    PROVE  \E g : Afters(req, s, split, n, g)
<1> DEFINE body(g, k) == IF k = 0 THEN [s EXCEPT !.buf = split.rest]
                         ELSE OnLine(req, g[k - 1], split.lines[k])
           P == {k \in Nat : \E g : g = [m \in 0..k |-> body(g, m)]}
<1>1. 0 \in P
  <2> DEFINE h == [m \in 0..0 |-> [s EXCEPT !.buf = split.rest]]
  <2>1. h = [m \in 0..0 |-> body(h, m)]
    OBVIOUS
  <2>2. \E g : g = [m \in 0..0 |-> body(g, m)]
    <3> HIDE DEF h
    <3> QED
      BY <2>1
  <2> QED
    BY <2>2
<1>2. ASSUME NEW k \in P
      PROVE  k + 1 \in P
  <2>1. PICK g : g = [m \in 0..k |-> body(g, m)]
    OBVIOUS
  <2>2. \A m \in 0..k : g[m] = body(g, m)
    <3> HIDE DEF body
    <3> QED
      BY <2>1
  <2> DEFINE h == [m \in 0..k + 1 |-> IF m <= k THEN g[m] ELSE body(g, k + 1)]
  <2>3. \A m \in 0..k + 1 : h[m] = body(h, m)
    <3> SUFFICES ASSUME NEW m \in 0..k + 1
                 PROVE  h[m] = body(h, m)
      OBVIOUS
    <3>1. m # 0 => m - 1 \in 0..k /\ h[m - 1] = g[m - 1]
      OBVIOUS
    <3>2. h[m] = body(g, m)
      <4>1. CASE m <= k
        BY <2>2, <4>1
      <4>2. CASE m = k + 1
        BY <4>2
      <4> QED
        BY <4>1, <4>2
    <3> QED
      BY <3>1, <3>2
  <2>4. h = [m \in 0..k + 1 |-> body(h, m)]
    BY <2>3
  <2>5. \E f : f = [m \in 0..k + 1 |-> body(f, m)]
    <3> HIDE DEF h
    <3> QED
      BY <2>4
  <2> HIDE DEF body
  <2> QED
    BY <2>5
<1>3. n \in P
  <2>1. P \in SUBSET Nat
    OBVIOUS
  <2> HIDE DEF P
  <2>2. \A k \in P : k + 1 \in P
    BY <1>2
  <2>3. P = Nat
    BY <1>1, <2>1, <2>2, NumbersInduction
  <2> QED
    BY <2>3
<1> QED
  BY <1>3 DEF Afters

\* The loop over the lines of a chunk, step by step.
Looped(req, s, split, n, g) ==
    /\ g[0] = [s EXCEPT !.buf = split.rest]
    /\ \A k \in 1..n : g[k] = OnLine(req, g[k - 1], split.lines[k])

LEMMA OnChunkSteps ==
    ASSUME NEW req, NEW s, NEW chunk, NEW split, split = Scan(s.buf \o chunk),
           NEW n \in Nat, n = Len(split.lines)
    PROVE  \E g : OnChunk(req, s, chunk) = g[n] /\ Looped(req, s, split, n, g)
<1> DEFINE g == CHOOSE g : Afters(req, s, split, n, g)
<1>1. Afters(req, s, split, n, g)
  BY AftersExists
<1>2. OnChunk(req, s, chunk) = g[n]
  BY DEF OnChunk, Split, Afters
<1> HIDE DEF g
<1> DEFINE body(k) == IF k = 0 THEN [s EXCEPT !.buf = split.rest]
                      ELSE OnLine(req, g[k - 1], split.lines[k])
<1>3. \A k \in 0..n : g[k] = body(k)
  <2>1. g = [k \in 0..n |-> body(k)]
    BY <1>1 DEF Afters
  <2> HIDE DEF body
  <2> QED
    BY <2>1
<1>4. Looped(req, s, split, n, g)
  BY <1>3 DEF Looped
<1> QED
  BY <1>2, <1>4

LEMMA UnreadAt ==
    ASSUME NEW req \in Exchanges, NEW q \in 0..Len(EventLines(req))
    PROVE  LET E == EventLines(req)
               p == IF IsPutBack(req, q) THEN 1 ELSE 0
           IN  /\ Len(Unread(req, q)) = Len(E) - q + p
               /\ \A j \in 1..Len(E) - q : Unread(req, q)[p + j] = E[q + j]
               /\ p = 1 => Unread(req, q)[1] = OddLine(req)
<1> DEFINE E == EventLines(req)
           N == Len(E)
           new == SubSeq(E, q + 1, N)
           es == Unread(req, q)
           p == IF IsPutBack(req, q) THEN 1 ELSE 0
           odd == OddLine(req)
<1> SUFFICES /\ Len(es) = N - q + p
             /\ \A j \in 1..N - q : es[p + j] = E[q + j]
             /\ p = 1 => es[1] = odd
  OBVIOUS
<1>1. E \in Seq(Line) /\ N \in Nat /\ q \in 0..N
  BY EventLinesIs
<1>2. es = IF IsPutBack(req, q) THEN <<odd>> \o new ELSE new
  BY DEF Unread, IsPutBack
<1>3. IsPutBack(req, q) => odd \in Line
  BY OddLineType DEF IsPutBack
<1> HIDE DEF E, es, odd
<1>4. /\ new \in Seq(Line) /\ Len(new) = N - q
      /\ \A j \in 1..N - q : new[j] = E[q + j]
  BY <1>1
<1>5. N - q \in Nat
  BY <1>1
<1> DEFINE d == N - q
<1> HIDE DEF new, d
<1>6. CASE IsPutBack(req, q)
  <2>1. /\ Len(<<odd>> \o new) = 1 + Len(new) /\ (<<odd>> \o new)[1] = odd
        /\ \A j \in 1..Len(new) : (<<odd>> \o new)[1 + j] = new[j]
    <3>1. new \in Seq(Line) /\ odd \in Line
      BY <1>3, <1>4, <1>6
    <3> QED
      BY <3>1
  <2> QED
    BY <1>2, <1>4, <1>5, <1>6, <2>1
<1>7. CASE ~IsPutBack(req, q)
  BY <1>2, <1>4, <1>5, <1>7
<1> QED
  BY <1>6, <1>7

\* g goes through the n lines of the events that follow the first q.
GoesThrough(req, q, n, p, g) ==
    \A j \in 1..n : g[p + j] = OnLine(req, g[p + j - 1], LineOf(EventLines(req)[q + j]))

LEMMA LinesStep ==
    ASSUME NEW req \in Exchanges, NEW q \in Nat, NEW n \in Nat,
           q + n <= Len(EventLines(req)), NEW p \in Nat, NEW g,
           NEW rest \in Seq(Frag), Keeps(req, q, rest, g[p]),
           GoesThrough(req, q, n, p, g)
    PROVE  Keeps(req, q + n, rest, g[p + n])
<1> DEFINE E == EventLines(req)
           Q(j) == Keeps(req, q + j, rest, g[p + j])
           P == {j \in Nat : j <= n => Q(j)}
<1>0. Len(E) \in Nat
  <2>1. E \in Seq(Line)
    BY EventLinesIs
  <2> HIDE DEF E
  <2> QED
    BY <2>1
<1>1. 0 \in P
  <2>1. q + 0 = q /\ p + 0 = p
    OBVIOUS
  <2> QED
    BY <2>1
<1>2. ASSUME NEW j \in P
      PROVE  j + 1 \in P
  <2>0. j \in Nat /\ j + 1 \in Nat /\ (j + 1 <= n => j <= n)
    OBVIOUS
  <2>a. j <= n => Q(j)
    OBVIOUS
  <2> SUFFICES ASSUME j + 1 <= n
               PROVE  Q(j + 1)
    <3> HIDE DEF Q
    <3> QED
      BY <2>0
  <2> DEFINE a == q + j
             u == g[p + j]
             v == g[p + (j + 1)]
  <2>1. j \in Nat /\ Q(j)
    <3> HIDE DEF Q
    <3> QED
      BY <2>0, <2>a
  <2>2. a \in Nat /\ a < Len(E) /\ q + (j + 1) = a + 1 /\ j + 1 \in 1..n
    <3> HIDE DEF E
    <3> QED
      BY <1>0, <2>1 DEF E
  <2>3. v = OnLine(req, u, LineOf(E[a + 1]))
    <3>1. p + (j + 1) - 1 = p + j
      BY <2>1
    <3> QED
      BY <2>2, <3>1 DEF GoesThrough
  <2>4. Keeps(req, a, rest, u)
    BY <2>1
  <2> HIDE DEF a, u, v
  <2>5. Keeps(req, a + 1, rest, v)
    BY <2>2, <2>3, <2>4, LineStep
  <2> QED
    BY <2>2, <2>5 DEF v
<1>3. n \in P
  <2>1. P \in SUBSET Nat
    OBVIOUS
  <2> HIDE DEF P
  <2>2. \A j \in P : j + 1 \in P
    BY <1>2
  <2>3. P = Nat
    BY <1>1, <2>1, <2>2, NumbersInduction
  <2> QED
    BY <2>3
<1> QED
  BY <1>3

\* A broken line is put back again.
LEMMA PutBackAgain ==
    ASSUME NEW req \in Exchanges, NEW q \in Nat, IsPutBack(req, q),
           NEW s, Reached(req, q, s), s.over = "no", NEW rest \in Seq(Frag),
           s.buf = rest
    PROVE  Keeps(req, q, rest, OnLine(req, s, LineOf(OddLine(req))))
<1> DEFINE e == OddLine(req)
           t == OnLine(req, s, LineOf(e))
           again == LineOf(e) \o <<NL>>
<1> SUFFICES Keeps(req, q, rest, t)
  OBVIOUS
<1>1. e.kind = "broken"
  BY EventFields DEF OddLine, IsPutBack
<1>2. e \in Line
  BY OddLineType DEF IsPutBack
<1>3. PutBack(req, q) = again
  BY DEF PutBack, IsPutBack
<1>4. s \in Readers /\ Going(req, BodyLines(req, q), s)
  BY DEF Reached, Ended
<1> HIDE DEF e
<1>9. /\ t \in Readers /\ t.tool = s.tool /\ t.heard = s.heard
      /\ t.promise = s.promise /\ t.buf = again \o s.buf /\ t.over = s.over
  <2>1. LET u == OnLine(req, s, LineOf(e))
        IN  /\ u \in Readers /\ u.tool = s.tool /\ u.heard = s.heard
            /\ u.promise = s.promise /\ u.over = s.over
            /\ u.buf = (LineOf(e) \o <<NL>>) \o s.buf
    BY <1>1, <1>2, <1>4, OnLineBroken
  <2> QED
    BY <2>1
<1> HIDE DEF again, t
<1>10. Going(req, BodyLines(req, q), t)
  BY <1>4, <1>9, GoingSame
<1> QED
  BY <1>3, <1>9, <1>10 DEF Reached, Keeps

\* The reader went over i more lines and keeps what follows them.
Advanced(req, q, m, i, t) ==
    /\ m \div 3 = i + (IF IsPutBack(req, q) THEN 1 ELSE 0)
    /\ Keeps(req, q + i, SubSeq(Fragments(Unread(req, q)), 3 * (m \div 3) + 1, m), t)

\* Wherever the network cut the stream, a chunk takes the reader over the
\* lines that are now complete, and the rest of the line under way is kept.
LEMMA ChunkStep ==
    ASSUME NEW req \in Exchanges, NEW q \in 0..Len(EventLines(req)),
           NEW s, Reached(req, q, s), s.over = "no",
           NEW m \in 0..Len(Fragments(Unread(req, q))),
           Len(PutBack(req, q)) <= m,
           NEW chunk, s.buf \o chunk = SubSeq(Fragments(Unread(req, q)), 1, m)
    PROVE  \E i \in Nat : Advanced(req, q, m, i, OnChunk(req, s, chunk))
<1> DEFINE E == EventLines(req)
           N == Len(E)
           es == Unread(req, q)
           F == Fragments(es)
           k == m \div 3
           p == IF IsPutBack(req, q) THEN 1 ELSE 0
           rest == SubSeq(F, 3 * k + 1, m)
           t == OnChunk(req, s, chunk)
           split == ScanTo(es, m)
<1>1. E \in Seq(Line) /\ N \in Nat /\ q \in 0..N
  BY EventLinesIs
<1>2. es \in Seq(Line) /\ F \in Seq(Frag) /\ Len(F) = 3 * Len(es)
  <2>1. es \in Seq(Line)
    BY UnreadType
  <2> HIDE DEF es
  <2> QED
    BY <2>1, FragmentsType DEF Frag
<1>3. /\ Len(es) = N - q + p
      /\ \A j \in 1..N - q : es[p + j] = E[q + j]
      /\ p = 1 => es[1] = OddLine(req)
  BY UnreadAt
<1>4. k \in Nat /\ 3 * k <= m /\ m <= 3 * k + 2
  <2>0. m \in Nat
    BY <1>2
  <2>1. PICK a \in Nat, r \in 0..2 : m = 3 * a + r /\ k = a
    BY <2>0, Thirds
  <2> HIDE DEF k
  <2> QED
    BY <2>1
<1>5. k >= p
  <2>1. CASE IsPutBack(req, q)
    <3>1. Len(PutBack(req, q)) = 3
      <4>1. OddLine(req) \in Line
        BY <2>1, OddLineType DEF IsPutBack
      <4> QED
        BY <2>1, <4>1, LineOfType DEF PutBack, IsPutBack
    <3>2. m \in Nat /\ 3 <= m
      BY <1>2, <3>1
    <3> HIDE DEF k
    <3> QED
      BY <1>4, <3>2
  <2>2. CASE ~IsPutBack(req, q)
    BY <1>4, <2>2
  <2> QED
    BY <2>1, <2>2
<1> DEFINE i == k - p
<1>6. i \in Nat /\ k = i + p
  <2>1. p \in {0, 1}
    OBVIOUS
  <2> HIDE DEF k, p
  <2> QED
    BY <1>4, <1>5, <2>1
<1>7. rest \in Seq(Frag)
  <2>1. m \in Nat /\ m <= Len(F)
    BY <1>2
  <2> HIDE DEF F, k
  <2> QED
    BY <1>2, <1>4, <2>1
<1>8. Scan(s.buf \o chunk) = split
  <2>1. m \in 0..3 * Len(es)
    BY <1>2
  <2>2. s.buf \o chunk = SubSeq(Fragments(es), 1, m)
    OBVIOUS
  <2>3. es \in Seq(Line)
    BY <1>2
  <2> HIDE DEF es
  <2>4. Scan(SubSeq(Fragments(es), 1, m)) = ScanTo(es, m)
    BY <2>1, <2>3, ScanFragments
  <2> QED
    BY <2>2, <2>4
<1>9. split.rest = rest /\ split.lines = [j \in 1..k |-> LineOf(es[j])]
  BY DEF ScanTo
<1>10. Len(split.lines) = k /\ \A j \in 1..k : split.lines[j] = LineOf(es[j])
  <2> HIDE DEF k, split, es
  <2> QED
    BY <1>4, <1>9
<1>11. k <= Len(es)
  <2>1. m \in Nat /\ m <= 3 * Len(es) /\ Len(es) \in Nat
    BY <1>2
  <2> HIDE DEF k, es
  <2> QED
    BY <1>4, <2>1
<1> HIDE DEF split
<1>12. PICK g : /\ t = g[k]
                /\ g[0] = [s EXCEPT !.buf = split.rest]
                /\ \A j \in 1..k : g[j] = OnLine(req, g[j - 1], split.lines[j])
  <2>1. k = Len(split.lines) /\ split = Scan(s.buf \o chunk)
    BY <1>8, <1>10
  <2> HIDE DEF k
  <2>2. \E g : OnChunk(req, s, chunk) = g[k] /\ Looped(req, s, split, k, g)
    BY <1>4, <2>1, OnChunkSteps
  <2> QED
    BY <2>2 DEF Looped
<1> HIDE DEF t
<1>13. Reached(req, q, g[0]) /\ g[0].over = "no" /\ g[0].buf = rest
  <2>1. s \in Readers /\ Going(req, BodyLines(req, q), s)
    BY DEF Reached, Ended
  <2> DEFINE u == g[0]
  <2>2. u = [s EXCEPT !.buf = rest]
    BY <1>9, <1>12
  <2> HIDE DEF u, rest
  <2>3. /\ u \in Readers /\ u.tool = s.tool /\ u.heard = s.heard
        /\ u.promise = s.promise /\ u.buf = rest /\ u.over = s.over
    BY <1>7, <2>1, <2>2, SetBuf
  <2>4. Going(req, BodyLines(req, q), u)
    BY <2>1, <2>3, GoingSame
  <2> QED
    BY <2>3, <2>4 DEF Reached, u
<1>14. Keeps(req, q, rest, g[p])
  <2>1. CASE IsPutBack(req, q)
    <3>1. p = 1 /\ 1 \in 1..k
      <4>1. p = 1
        BY <2>1
      <4> HIDE DEF k, p
      <4> QED
        BY <1>4, <1>5, <4>1
    <3>2. g[1] = OnLine(req, g[0], LineOf(OddLine(req)))
      <4>1. g[1] = OnLine(req, g[0], split.lines[1])
        <5>1. 1 - 1 = 0
          OBVIOUS
        <5> QED
          BY <1>12, <3>1, <5>1
      <4> QED
        BY <1>3, <1>10, <3>1, <4>1
    <3> DEFINE u == g[0]
               v == g[1]
    <3> HIDE DEF rest, u, v
    <3>3. v = OnLine(req, u, LineOf(OddLine(req)))
      BY <3>2 DEF u, v
    <3>4. Reached(req, q, u) /\ u.over = "no" /\ u.buf = rest /\ q \in Nat
      BY <1>1, <1>13 DEF u
    <3>5. Keeps(req, q, rest, v)
      BY <1>7, <2>1, <3>3, <3>4, PutBackAgain
    <3> HIDE DEF p
    <3> QED
      BY <3>1, <3>5 DEF v
  <2>2. CASE ~IsPutBack(req, q)
    <3>1. PutBack(req, q) = <<>>
      BY <2>2 DEF PutBack, IsPutBack
    <3> HIDE DEF rest
    <3> QED
      BY <1>7, <1>13, <2>2, <3>1, NothingBefore DEF Keeps
  <2> QED
    BY <2>1, <2>2
<1>15. q \in Nat /\ q + i <= N /\ p \in Nat
  <2>1. p \in Nat /\ N \in Nat /\ q \in 0..N /\ k <= N - q + p
    <3> HIDE DEF k, es, E
    <3> QED
      BY <1>1, <1>3, <1>11
  <2> HIDE DEF k, p, N
  <2> QED
    BY <1>4, <2>1
<1>16. ASSUME NEW j \in 1..i
       PROVE  g[p + j] = OnLine(req, g[p + j - 1], LineOf(E[q + j]))
  <2>1. p + j \in 1..k /\ j \in 1..N - q
    <3> HIDE DEF k, p, i, N
    <3> QED
      BY <1>1, <1>4, <1>6, <1>15
  <2>2. es[p + j] = E[q + j]
    BY <1>3, <2>1
  <2>3. split.lines[p + j] = LineOf(E[q + j])
    BY <1>10, <2>1, <2>2
  <2> DEFINE x == p + j
  <2> HIDE DEF k, x
  <2>4. x \in 1..k
    BY <2>1 DEF x
  <2>5. g[x] = OnLine(req, g[x - 1], split.lines[x])
    BY <1>12, <2>4
  <2> QED
    BY <2>3, <2>5 DEF x
<1>17. Keeps(req, q + i, rest, g[p + i])
  <2>1. GoesThrough(req, q, i, p, g)
    BY <1>16 DEF GoesThrough
  <2> HIDE DEF i, p, rest, k
  <2>2. q \in Nat /\ i \in Nat /\ p \in Nat /\ q + i <= Len(EventLines(req))
    BY <1>6, <1>15
  <2> QED
    BY <1>7, <1>14, <2>1, <2>2, LinesStep
<1>18. p + i = k
  <2> HIDE DEF i, p, k
  <2> QED
    BY <1>6, <1>15
<1>19. t = g[p + i]
  BY <1>12, <1>18
<1>20. Keeps(req, q + i, rest, t)
  BY <1>17, <1>19
<1>21. Advanced(req, q, m, i, t)
  BY <1>6, <1>20 DEF Advanced
<1> HIDE DEF i
<1> QED
  BY <1>6, <1>21 DEF t

-----------------------------------------------------------------------------
(* --------------------------- the invariant ----------------------------- *)

\* The reader has taken the first q lines of the events: its buffer and the
\* wire together hold the rest, after the broken line it put back.
At(q) ==
    /\ Reached(request, q, Reader)
    /\ buf \in Seq(Frag) /\ wire \in Seq(Frag)
    /\ buf \o wire = Fragments(Unread(request, q))
    /\ Len(PutBack(request, q)) <= Len(buf)

StreamInv ==
    /\ request \in Exchanges
    /\ Reader \in Readers
    /\ over = "no" => \E q \in 0..Len(EventLines(request)) : At(q)
    /\ over # "no" => Ended(request, Reader)

LEMMA ReaderFields ==
    /\ Reader.buf = buf /\ Reader.tool = tool /\ Reader.heard = heard
    /\ Reader.promise = promise /\ Reader.over = over
BY DEF Reader

LEMMA NothingTold ==
    ASSUME NEW req \in Exchanges, NEW s \in Readers, s.over = "no",
           s.tool = NoTool, s.heard = <<>>, s.promise = Unsettled
    PROVE  Going(req, BodyLines(req, 0), s)
<1>1. Upto(req, "text", 0) = {} /\ Upto(req, "tool", 0) = {}
  BY UptoType
<1>2. TextsTo(req, 0, 0) = 0
  BY ExchangeType DEF TextsTo
<1>3. Told(req, s, 0, 0)
  <2>1. Len(s.heard) = 0 /\ s.promise.text = <<>> /\ Len(s.promise.text) = 0
        /\ s.promise.tool = NoId /\ s.promise.result = "none"
    BY DEF Unsettled
  <2> QED
    BY <1>1, <2>1 DEF Told, Mentions, Intact, Lists, LastOf
<1>4. InCompletion(req, 0, 0, s)
  BY <1>2, <1>3 DEF InCompletion
<1>5. InAnthropicChat(req, 0, 0, s)
  <2>1. ~(0 = Sent(req, 0 + 1) + 2) \/ 0 + 1 \notin Blocks(req, "tool")
    BY SentType
  <2> QED
    BY <1>2, <1>3, <2>1 DEF InAnthropicChat
<1>6. InOpenAIChat(req, 0, 0, s)
  <2>1. Started(req, 0, 0) = {}
    BY <1>1 DEF Started
  <2> QED
    BY <1>2, <1>3, <2>1 DEF InOpenAIChat
<1>7. Within(req, 0, 0, s)
  BY <1>4, <1>5, <1>6 DEF Within
<1>8. Starts(req)[0] = 0
  BY StartsIs DEF Layout
<1>9. BodyLines(req, 0) = 0
  BY ExchangeType DEF BodyLines
<1>10. 0 \in 0..Len(req.answer)
  BY UptoType
<1> QED
  BY <1>7, <1>8, <1>9, <1>10, Entered

LEMMA StreamInvInit ==
    StreamInit => StreamInv
<1> SUFFICES ASSUME StreamInit
             PROVE  StreamInv
  OBVIOUS
<1> USE DEF StreamInit
<1> DEFINE E == EventLines(request)
<1>1. E \in Seq(Line) /\ Len(E) \in Nat
  <2>1. E \in Seq(Line)
    BY EventLinesIs
  <2> HIDE DEF E
  <2> QED
    BY <2>1
<1>2. PutBack(request, 0) = <<>> /\ Unread(request, 0) = SubSeq(E, 1, Len(E))
  <2>1. ~(request.odd = "broken" /\ request.oddAt <= 0)
    BY ExchangeType
  <2> QED
    BY <2>1 DEF PutBack, Unread
<1>3. SubSeq(E, 1, Len(E)) = E
  <2> HIDE DEF E
  <2> QED
    BY <1>1
<1>4. wire = Fragments(E) /\ wire \in Seq(Frag)
  <2>1. wire = Fragments(E)
    BY DEF Wire
  <2> HIDE DEF E
  <2> QED
    BY <1>1, <2>1, FragmentsType DEF Frag
<1>5. <<>> \o wire = wire
  BY <1>4, NothingBefore
<1>6. Reader \in Readers
  <2>1. Unsettled \in Promises
    BY DEF Unsettled, Promises, NoId
  <2> QED
    BY <2>1, NoToolType DEF Reader, Readers
<1>7. Going(request, BodyLines(request, 0), Reader)
  BY <1>6, NothingTold, ReaderFields
<1>8. Reached(request, 0, Reader)
  BY <1>6, <1>7, ReaderFields DEF Reached
<1>9. At(0)
  <2>1. buf \in Seq(Frag) /\ Len(buf) = 0
    OBVIOUS
  <2>2. Len(PutBack(request, 0)) = 0
    BY <1>2
  <2> QED
    BY <1>2, <1>3, <1>4, <1>5, <1>8, <2>1, <2>2 DEF At
<1>10. 0 \in 0..Len(E)
  BY <1>1
<1> QED
  BY <1>6, <1>9, <1>10 DEF StreamInv

\* Whatever was told, the one callback that ends the stream may follow it.
LEMMA SettledReader ==
    ASSUME NEW req \in Exchanges, NEW s \in Readers, NEW i \in Nat, NEW j \in Nat,
           Told(req, s, i, j), NEW c \in Callbacks, Settles(c), NEW t,
           NEW end \in {"eof", "error"},
           t = [buf |-> s.buf, tool |-> s.tool, heard |-> Append(s.heard, c),
                promise |-> Listen(s.promise, c), over |-> end]
    PROVE  t \in Readers /\ Ended(req, t)
<1>1. Append(s.heard, c) \in Seq(Callbacks) /\ Listen(s.promise, c) \in Promises
  <2>1. s.heard \in Seq(Callbacks) /\ s.promise \in Promises
    BY DEF Readers
  <2> QED
    BY <2>1, ListenIs, HeardAppend
<1>2. t \in Readers
  BY <1>1 DEF Readers
<1>3. InOrder(req, Append(s.heard, c)) /\ Once(Append(s.heard, c))
  BY ToldThenSettled
<1>4. t.over = end /\ t.heard = Append(s.heard, c)
  OBVIOUS
<1> QED
  BY <1>2, <1>3, <1>4 DEF Ended

LEMMA StreamInvChunk ==
    ASSUME StreamInv, NEW n \in ChunkSizes, Chunk(n)
    PROVE  StreamInv'
<1> DEFINE chunk == SubSeq(wire, 1, n)
           t == OnChunk(request, Reader, chunk)
<1>1. over = "no" /\ n \in Nat /\ n <= Len(wire) /\ request' = request
      /\ wire' = SubSeq(wire, n + 1, Len(wire))
  BY BoundAssumption DEF Chunk, Answerable
<1>2. buf' = t.buf /\ tool' = t.tool /\ over' = t.over /\ heard' = t.heard
      /\ promise' = t.promise
  BY DEF Chunk
<1>3. PICK q \in 0..Len(EventLines(request)) : At(q)
  BY <1>1 DEF StreamInv
<1> DEFINE F == Fragments(Unread(request, q))
           m == Len(buf) + n
           rest == SubSeq(F, 3 * (m \div 3) + 1, m)
<1>4. F \in Seq(Frag)
  <2>1. Unread(request, q) \in Seq(Line)
    BY UnreadType DEF StreamInv
  <2> QED
    BY <2>1, FragmentsType DEF Frag
<1>5. /\ m \in 0..Len(F) /\ buf \o chunk = SubSeq(F, 1, m)
      /\ wire' = SubSeq(F, m + 1, Len(F))
  <2>1. buf \in Seq(Frag) /\ wire \in Seq(Frag) /\ buf \o wire = F
    BY <1>3 DEF At
  <2> HIDE DEF F
  <2>2. n \in Nat /\ n <= Len(wire) /\ F \in Seq(Frag)
    BY <1>1, <1>4
  <2>3. Len(buf) + n \in 0..Len(F)
    BY <2>1, <2>2, Received
  <2>4. buf \o SubSeq(wire, 1, n) = SubSeq(F, 1, Len(buf) + n)
    BY <2>1, <2>2, BothReceived, SMTT(30)
  <2>5. SubSeq(wire, n + 1, Len(wire)) = SubSeq(F, Len(buf) + n + 1, Len(F))
    BY <2>1, <2>2, NotReceived, SMTT(30)
  <2> QED
    BY <1>1, <2>3, <2>4, <2>5
<1>6. Len(PutBack(request, q)) <= m
  <2>1. Len(PutBack(request, q)) <= Len(buf) /\ buf \in Seq(Frag)
    BY <1>3 DEF At
  <2>2. PutBack(request, q) \in Seq(Frag)
    BY PutBackType DEF StreamInv
  <2> QED
    BY <1>1, <2>1, <2>2
<1> HIDE DEF m, chunk
<1>7. PICK i \in Nat :
          /\ m \div 3 = i + (IF IsPutBack(request, q) THEN 1 ELSE 0)
          /\ Reached(request, q + i, t)
          /\ t.over = "no" => t.buf = PutBack(request, q + i) \o rest
  <2>1. Reached(request, q, Reader) /\ Reader.over = "no" /\ Reader.buf = buf
    BY <1>1, <1>3, ReaderFields DEF At
  <2>2. request \in Exchanges
    BY DEF StreamInv
  <2>3. Reader.buf \o chunk = SubSeq(F, 1, m)
    BY <1>5, <2>1
  <2>4. \E i \in Nat : Advanced(request, q, m, i, OnChunk(request, Reader, chunk))
    BY <1>5, <1>6, <2>1, <2>2, <2>3, ChunkStep
  <2> QED
    BY <2>4 DEF Advanced, Keeps
<1> HIDE DEF t
<1>8. t \in Readers
  BY <1>7 DEF Reached
<1>9. Reader' = t
  BY <1>2, <1>8 DEF Reader, Readers
<1>10. CASE t.over # "no"
  <2>1. Ended(request, t)
    BY <1>7, <1>10 DEF Reached
  <2> QED
    BY <1>1, <1>2, <1>8, <1>9, <1>10, <2>1 DEF StreamInv
<1>11. CASE t.over = "no"
  <2>1. /\ q + i \in 0..Len(EventLines(request))
        /\ PutBack(request, q + i) \o rest \in Seq(Frag)
        /\ Len(PutBack(request, q + i) \o rest) >= Len(PutBack(request, q + i))
        /\ (PutBack(request, q + i) \o rest) \o SubSeq(F, m + 1, Len(F))
               = Fragments(Unread(request, q + i))
    BY <1>5, <1>7, Kept DEF StreamInv
  <2>2. buf' = PutBack(request, q + i) \o rest
    BY <1>2, <1>7, <1>11
  <2> DEFINE back == PutBack(request, q + i)
             kept == back \o rest
  <2>3. Len(back) <= Len(kept)
    <3>1. back \in Seq(Frag) /\ kept \in Seq(Frag)
      BY <2>1, PutBackType DEF StreamInv
    <3>2. Len(back) \in Nat /\ Len(kept) \in Nat
      <4> HIDE DEF back, kept
      <4> QED
        BY <3>1
    <3>3. Len(kept) >= Len(back)
      BY <2>1
    <3> HIDE DEF back, kept
    <3> QED
      BY <3>2, <3>3
  <2>4. SubSeq(F, m + 1, Len(F)) \in Seq(Frag)
    <3> HIDE DEF F
    <3> QED
      BY <1>4, <1>5
  <2>5. At(q + i)'
    BY <1>1, <1>5, <1>7, <1>9, <2>1, <2>2, <2>3, <2>4 DEF At
  <2>6. over' = "no"
    BY <1>2, <1>11
  <2> QED
    BY <1>1, <1>8, <1>9, <2>1, <2>5, <2>6 DEF StreamInv
<1> QED
  BY <1>10, <1>11

\* A reader that waits has told some of the blocks.
LEMMA WaitingTold ==
    ASSUME StreamInv, over = "no"
    PROVE  \E i, j \in Nat : Told(request, Reader, i, j)
<1>1. PICK q \in 0..Len(EventLines(request)) : At(q)
  BY DEF StreamInv
<1>2. Going(request, BodyLines(request, q), Reader)
  BY <1>1, ReaderFields DEF At, Reached, Ended
<1> QED
  BY <1>2, GoingTold DEF StreamInv

LEMMA SettleNext ==
    ASSUME StreamInv, over = "no", NEW c \in Callbacks, Settles(c), Settle(c),
           over' \in {"eof", "error"}, UNCHANGED <<request, buf, tool>>
    PROVE  StreamInv'
<1>1. PICK i \in Nat, j \in Nat : Told(request, Reader, i, j)
  BY WaitingTold
<1>2. request \in Exchanges /\ Reader \in Readers
  BY DEF StreamInv
<1>3. Reader' = [buf |-> Reader.buf, tool |-> Reader.tool,
                 heard |-> Append(Reader.heard, c),
                 promise |-> Listen(Reader.promise, c), over |-> over']
  BY DEF Reader, Settle
<1>4. Reader' \in Readers /\ Ended(request, Reader')
  BY <1>1, <1>2, <1>3, SettledReader
<1> QED
  BY <1>2, <1>4 DEF StreamInv

LEMMA StreamInvNext ==
    StreamInv /\ [StreamNext]_streamVars => StreamInv'
<1> SUFFICES ASSUME StreamInv, [StreamNext]_streamVars
             PROVE  StreamInv'
  OBVIOUS
<1>1. ASSUME NEW n \in ChunkSizes, Chunk(n)
      PROVE  StreamInv'
  BY <1>1, StreamInvChunk
<1>2. CASE StreamEnds
  <2> DEFINE c == Done(IF request.purpose = "chat" THEN "end_turn" ELSE "full")
  <2>1. c \in Callbacks /\ Settles(c)
    BY SettleTypes DEF Reasons
  <2>2. over = "no" /\ Settle(c) /\ over' = "eof" /\ UNCHANGED <<request, buf, tool>>
    BY <1>2 DEF StreamEnds, Answerable
  <2> HIDE DEF c
  <2> QED
    BY <2>1, <2>2, SettleNext
<1>3. CASE StreamFails
  <2>1. CASE signal = "yes"
    <3>1. over = "no" /\ over' = "silent" /\ request' = request /\ buf' = buf
          /\ tool' = tool /\ heard' = heard /\ promise' = promise
      BY <1>3, <2>1 DEF StreamFails
    <3>2. PICK i \in Nat, j \in Nat : Told(request, Reader, i, j)
      BY <3>1, WaitingTold
    <3>3. InOrder(request, heard) /\ Once(heard)
      BY <3>2, ToldInOrder, ReaderFields DEF StreamInv
    <3>4. Reader' \in Readers
      BY <3>1 DEF StreamInv, Reader, Readers
    <3>5. Ended(request, Reader')
      BY <3>1, <3>3 DEF Ended, Reader
    <3> QED
      BY <3>1, <3>4, <3>5 DEF StreamInv
  <2>2. CASE signal # "yes"
    <3>1. "full" \in Reasons
      BY DEF Reasons
    <3>2. Error \in Callbacks /\ Settles(Error)
      BY <3>1, SettleTypes
    <3>3. over = "no" /\ Settle(Error) /\ over' = "error"
          /\ UNCHANGED <<request, buf, tool>>
      BY <1>3, <2>2 DEF StreamFails
    <3> QED
      BY <3>2, <3>3, SettleNext
  <2> QED
    BY <2>1, <2>2
<1>4. CASE Abort \/ UNCHANGED streamVars
  <2>1. /\ request' = request /\ wire' = wire /\ buf' = buf /\ over' = over
        /\ tool' = tool /\ heard' = heard /\ promise' = promise
    BY <1>4 DEF Abort, streamVars
  <2>2. Reader' = Reader
    BY <2>1 DEF Reader
  <2>3. ASSUME NEW q, At(q)
        PROVE  At(q)'
    BY <2>1, <2>2, <2>3 DEF At
  <2> QED
    BY <2>1, <2>2, <2>3 DEF StreamInv
<1> QED
  BY <1>1, <1>2, <1>3, <1>4 DEF StreamNext

\* The reader of a stream is always at some line q of the answer's events, with
\* the rest of them in its buffer and on the wire, and has told its caller what
\* those q lines say; once it ended, what it told is in order and complete.
THEOREM StreamCorrect ==
    StreamSpec => []StreamInv
<1> QED
  BY StreamInvInit, StreamInvNext, PTL DEF StreamSpec

\* The reader's three fields that the properties look at, in every state.
LEMMA StreamInvHeard ==
    ASSUME StreamInv
    PROVE  /\ request \in Exchanges
           /\ heard \in Seq(Callbacks) /\ DOMAIN heard = 1..Len(heard)
           /\ promise \in Promises /\ DOMAIN promise.text = 1..Len(promise.text)
           /\ InOrder(request, heard) /\ Once(heard)
           /\ over = "done" /\ ~request.cut => HasWhole(request, promise)
<1>1. request \in Exchanges /\ Reader \in Readers
  BY DEF StreamInv
<1>2. heard \in Seq(Callbacks) /\ promise \in Promises
  BY <1>1, ReaderFields DEF Readers
<1>3. promise.text \in Seq(Nat)
  BY <1>2 DEF Promises
<1>4. DOMAIN heard = 1..Len(heard)
  BY <1>2
<1>5. DOMAIN promise.text = 1..Len(promise.text)
  BY <1>3
<1>6. InOrder(request, heard) /\ Once(heard)
  <2>1. CASE over = "no"
    <3>1. PICK i \in Nat, j \in Nat : Told(request, Reader, i, j)
      BY <2>1, WaitingTold
    <3> QED
      BY <1>1, <3>1, ToldInOrder, ReaderFields
  <2>2. CASE over # "no"
    BY <2>2, ReaderFields DEF StreamInv, Ended
  <2> QED
    BY <2>1, <2>2
<1>7. over = "done" /\ ~request.cut => HasWhole(request, promise)
  BY ReaderFields DEF StreamInv, Ended
<1> QED
  BY <1>1, <1>2, <1>4, <1>5, <1>6, <1>7

LEMMA HeardDomain ==
    ASSUME StreamInv
    PROVE  DOMAIN heard = 1..Len(heard)
<1>1. heard \in Seq(Callbacks)
  BY ReaderFields DEF StreamInv, Readers
<1> QED
  BY <1>1

LEMMA BlocksAre ==
    ASSUME NEW kind
    PROVE  BlocksOf(kind) = Blocks(request, kind)
BY DEF BlocksOf, Blocks

LEMMA MentionsFollows ==
    ASSUME StreamInv, NEW callback, NEW kind \in {"text", "tool"}, NEW i \in Nat,
           Mentions(heard, callback, Upto(request, kind, i))
    PROVE  Follows(callback, kind)
<1> DEFINE B == Blocks(request, kind)
           X == Upto(request, kind, i)
           said == {x \in DOMAIN heard : heard[x].kind = callback}
<1>1. X = {b \in B : b <= i}
  BY DEF Upto
<1>2. B \subseteq Nat
  <2>1. B \subseteq 1..Len(request.answer) /\ Len(request.answer) \in Nat
    BY UptoType DEF StreamInv
  <2> HIDE DEF B
  <2> QED
    BY <2>1
<1>3. said = {x \in 1..Len(heard) : heard[x].kind = callback}
  BY StreamInvHeard
<1> HIDE DEF B, X, said
<1>4. \A x \in said : heard[x].of \in X
  BY <1>3 DEF Mentions, X
<1>5. \A b \in X : \E x \in said : heard[x].of = b
  BY <1>3 DEF Mentions, X
<1>6. \A x, y \in said : x < y => heard[x].of < heard[y].of
  BY <1>3 DEF Mentions, X
<1>7. \A x \in said : heard[x].of \in B
  BY <1>1, <1>4
<1>8. ASSUME NEW x \in said, NEW b \in B, b < heard[x].of
      PROVE  \E y \in said : heard[y].of = b
  <2>1. heard[x].of \in Nat /\ heard[x].of <= i /\ b \in Nat
    BY <1>1, <1>2, <1>4
  <2> DEFINE of == heard[x].of
  <2>2. b < of /\ of \in Nat /\ of <= i
    BY <1>8, <2>1
  <2> HIDE DEF of
  <2>3. b <= i
    BY <2>1, <2>2
  <2> QED
    BY <1>1, <1>5, <2>3
<1> QED
  BY <1>6, <1>7, <1>8, BlocksAre DEF Follows, said, B

LEMMA StreamInvHeardInOrder ==
    StreamInv => HeardInOrder
<1> SUFFICES ASSUME StreamInv
             PROVE  HeardInOrder
  OBVIOUS
<1>1. InOrder(request, heard)
  BY StreamInvHeard
<1>2. Follows("onToken", "text")
  <2>1. PICK i \in Nat : Mentions(heard, "onToken", Upto(request, "text", i))
    BY <1>1 DEF InOrder
  <2> QED
    BY <2>1, MentionsFollows
<1>3. Follows("onToolUse", "tool")
  <2>1. PICK i \in Nat : Mentions(heard, "onToolUse", Upto(request, "tool", i))
    BY <1>1 DEF InOrder
  <2> QED
    BY <2>1, MentionsFollows
<1>4. InputsIntact
  <2>1. Intact(request, heard)
    BY <1>1 DEF InOrder
  <2>2. DOMAIN heard = 1..Len(heard)
    BY HeardDomain, Zenon
  <2> QED
    BY <2>1, <2>2 DEF InputsIntact, Intact, WholeInput
<1> QED
  BY <1>2, <1>3, <1>4 DEF HeardInOrder

LEMMA StreamInvSettlesOnce ==
    StreamInv => SettlesOnce
BY StreamInvHeard DEF SettlesOnce, Once

LEMMA StreamInvWholeAnswer ==
    StreamInv => WholeAnswer
<1> SUFFICES ASSUME StreamInv, over = "done", ~request.cut
             PROVE  /\ {promise.text[i] : i \in DOMAIN promise.text} = BlocksOf("text")
                    /\ \A i, j \in DOMAIN promise.text :
                          i < j => promise.text[i] < promise.text[j]
                    /\ promise.result = IF BlocksOf("tool") = {} THEN "end_turn"
                                        ELSE "tool_use"
                    /\ BlocksOf("tool") # {} =>
                          /\ promise.tool \in BlocksOf("tool")
                          /\ \A b \in BlocksOf("tool") : b <= promise.tool
  BY DEF WholeAnswer
<1>1. HasWhole(request, promise)
  BY StreamInvHeard
<1>2. DOMAIN promise.text = 1..Len(promise.text)
  BY StreamInvHeard
<1> DEFINE t == promise.text
           T == Blocks(request, "text")
           U == Blocks(request, "tool")
<1>3. BlocksOf("text") = T /\ BlocksOf("tool") = U
  BY BlocksAre
<1>4. Lists(t, T)
  BY <1>1 DEF HasWhole
<1>5. promise.result = IF U = {} THEN "end_turn" ELSE "tool_use"
  BY <1>1 DEF HasWhole
<1>6. U # {} => promise.tool \in U /\ \A b \in U : b <= promise.tool
  BY <1>1 DEF HasWhole, LastOf
<1> HIDE DEF T, U
<1>7. {t[i] : i \in DOMAIN t} = T
  BY <1>2, <1>4 DEF Lists
<1>8. \A i, j \in DOMAIN t : i < j => t[i] < t[j]
  BY <1>2, <1>4 DEF Lists
<1> QED
  BY <1>3, <1>5, <1>6, <1>7, <1>8

\* Wherever the network cuts an answer into chunks, and whichever odd line is in
\* it, _streamChat and _streamCompletion call onToken and onToolUse for the
\* server's texts and tool calls, in its order, none twice and none skipped, and
\* hand over each tool call with the input the model wrote.
THEOREM AnswerHeardInOrder ==
    StreamSpec => []HeardInOrder
<1> QED
  BY StreamCorrect, StreamInvHeardInOrder, PTL

\* A stream calls onDone or onError at most once, and nothing after it: the
\* promise its caller made of the callbacks is settled once.
THEOREM PromiseSettledOnce ==
    StreamSpec => []SettlesOnce
<1> QED
  BY StreamCorrect, StreamInvSettlesOnce, PTL

\* When the reader met the server's own ending, the caller of _streamToCompletion
\* has the model's whole text, run() has its last tool call, and an answer with
\* no tool call is not taken for one.
THEOREM AnswerIsWhole ==
    StreamSpec => []WholeAnswer
<1> QED
  BY StreamCorrect, StreamInvWholeAnswer, PTL
=============================================================================
