---------------------------- MODULE ModelService ----------------------------
(***************************************************************************)
(* AIModelService and AIKeychainService: which provider serves the         *)
(* requests, while settings and the stored API key change beside the       *)
(* asynchronous _initProvider.                                             *)
(*                                                                         *)
(* _initProvider reads ai.apiType, awaits the key and reads the other      *)
(* settings after the await.  Every operation on the one secret goes       *)
(* through the queue of the secret storage, in order; what follows an      *)
(* answer runs in microtasks, with no other event in between.              *)
(*                                                                         *)
(* Abstractions: a key, a model or an endpoint is a value that is None     *)
(* when empty.  dispose() of a provider does nothing.  A stored key that   *)
(* cannot be decrypted reads as none; that the storage then deletes it is  *)
(* left out, as is deleteApiKey, which nothing calls.                      *)
(***************************************************************************)
EXTENDS Naturals, Sequences

CONSTANTS
    ApiTypes,   \* values of ai.apiType
    Keys,       \* API keys
    ModelIds,   \* values of ai.modelId
    Endpoints,  \* values of ai.apiBase
    None,       \* the empty value, null and undefined
    Presets,    \* the models a user can select in the picker
    Defaults,   \* the settings a window may start with
    MaxChanges  \* bound: how often the user changes something

Settings == [apiType : ApiTypes, apiKey : Keys \cup {None},
             modelId : ModelIds \cup {None}, apiBase : Endpoints \cup {None}]
Preset == [apiType : ApiTypes, apiKey : Keys \cup {None},
           modelId : ModelIds, apiBase : Endpoints \cup {None}]
Provider == [apiType : ApiTypes, apiKey : Keys, modelId : ModelIds,
             apiBase : Endpoints \cup {None}]

ASSUME NoneIsNoValue ==
    None \notin Keys \cup ModelIds \cup Endpoints \cup Provider
ASSUME DefaultsAssumption == Defaults \subseteq Settings
ASSUME MaxChangesAssumption == MaxChanges \in Nat
ASSUME PresetsAssumption == Presets \subseteq Preset

VARIABLES
    settings,  \* the ai.* settings
    secret,    \* what the secret storage holds under SECRET_KEY
    provider,  \* _provider
    queue,     \* operations on the secret that have not run yet
    edits,     \* updateValue calls that have not been written yet
    lastKey,   \* the key of the last _initProvider: "read" from the storage,
               \* "changed" there since, or its read "failed"
    changes    \* changes of the user so far

modelVars == <<settings, secret, provider, queue, edits, lastKey, changes>>

Get(type) == [op |-> "get", apiType |-> type]
Set(key) == [op |-> "set", apiKey |-> key]
Queued == [op : {"get"}, apiType : ApiTypes] \cup [op : {"set"}, apiKey : Keys]
Edit == [name : {"apiType"}, value : ApiTypes]
            \cup [name : {"apiKey"}, value : Keys]
            \cup [name : {"modelId"}, value : ModelIds]
            \cup [name : {"apiBase"}, value : Endpoints]
Gets == {i \in DOMAIN queue : queue[i].op = "get"}

ModelTypeOK ==
    /\ settings \in Settings
    /\ secret \in Keys \cup {None}
    /\ provider \in Provider \cup {None}
    /\ queue \in Seq(Queued)
    /\ edits \in Seq(Edit)
    /\ lastKey \in {"read", "changed", "failed"}
    /\ changes \in 0 .. MaxChanges

\* The constructor starts the first _initProvider.
ModelInit ==
    /\ settings \in Defaults
    /\ secret \in Keys \cup {None}
    /\ provider = None
    /\ queue = <<Get(settings.apiType)>>
    /\ edits = <<>>
    /\ lastKey = "changed"
    /\ changes = 0

-----------------------------------------------------------------------------
\* What _initProvider makes of the type it read first, the key it awaited and
\* the settings it reads then.
Made(type, key, s) ==
    IF key = None \/ s.modelId = None THEN None
    ELSE [apiType |-> type, apiKey |-> key, modelId |-> s.modelId,
          apiBase |-> s.apiBase]

\* getApiKey, given what the secret storage answered.
Key(stored, s) == IF stored # None THEN stored ELSE s.apiKey

\* onDidChangeConfiguration with a setting that matters: _initProvider up to
\* its await.
ChangedNoReset(s) ==
    /\ settings' = s
    /\ provider' = provider
    /\ queue' = IF s = settings THEN queue ELSE Append(queue, Get(s.apiType))
Changed(s) ==
    /\ settings' = s
    /\ IF s = settings THEN UNCHANGED <<provider, queue>>
       ELSE provider' = None /\ queue' = Append(queue, Get(s.apiType))

\* The rest of _initProvider.  Without a key or a model it returns and leaves
\* the provider that an overlapping call may have set.
InitProvider ==
    /\ queue # <<>>
    /\ Head(queue).op = "get"
    /\ queue' = Tail(queue)
    /\ \E stored \in {secret, None} :
        LET made == Made(Head(queue).apiType, Key(stored, settings), settings)
        IN  /\ provider' = IF made = None THEN provider ELSE made
            /\ lastKey' = IF stored = secret THEN "read" ELSE "failed"
    /\ UNCHANGED <<settings, secret, edits, changes>>

\* setApiKey: stored, or written to the settings when that fails.
StoreKey ==
    /\ queue # <<>>
    /\ Head(queue).op = "set"
    /\ queue' = Tail(queue)
    /\ \/ /\ secret' = Head(queue).apiKey
          /\ lastKey' = IF lastKey = "read" THEN "changed" ELSE lastKey
          /\ UNCHANGED edits
       \/ /\ edits' = Append(edits, [name |-> "apiKey",
                                     value |-> Head(queue).apiKey])
          /\ UNCHANGED <<secret, lastKey>>
    /\ UNCHANGED <<settings, provider, changes>>

\* An updateValue is written, or fails unnoticed.
WriteSetting ==
    /\ edits # <<>>
    /\ edits' = Tail(edits)
    /\ \/ Changed([settings EXCEPT ![Head(edits).name] = Head(edits).value])
       \/ UNCHANGED <<settings, provider, queue>>
    /\ UNCHANGED <<secret, lastKey, changes>>

-----------------------------------------------------------------------------
\* setCurrentLanguageModel and onSaveGroup: four calls, none awaited; an
\* empty key or endpoint leaves what was there before.
Select(p) ==
    LET write(name) == IF p[name] = None THEN <<>>
                       ELSE <<[name |-> name, value |-> p[name]]>>
    IN  /\ changes < MaxChanges
        /\ changes' = changes + 1
        /\ edits' = edits \o write("modelId") \o write("apiType")
                          \o write("apiBase")
        /\ queue' = IF p.apiKey = None THEN queue ELSE Append(queue, Set(p.apiKey))
        /\ UNCHANGED <<settings, secret, provider, lastKey>>

\* The user edits settings.json.
EditSettings(s) ==
    /\ changes < MaxChanges
    /\ changes' = changes + 1
    /\ s # settings
    /\ Changed(s)
    /\ UNCHANGED <<secret, edits, lastKey>>

ModelStep == InitProvider \/ StoreKey \/ WriteSetting

ModelUser ==
    \/ \E p \in Presets : Select(p)
    \/ \E s \in Defaults : EditSettings(s)

-----------------------------------------------------------------------------
\* Whenever no _initProvider is under way, the provider is the one that the
\* settings and the key describe, however many of them overlapped before.  A
\* key stored since the last one is not in use yet, and after a read that
\* failed an overlapped _initProvider may have left an older type behind.
ProviderIsCurrent ==
    Gets = {} =>
        /\ lastKey = "read" =>
               provider = Made(settings.apiType, Key(secret, settings), settings)
        /\ lastKey = "changed" /\ provider # None =>
               /\ provider.apiType = settings.apiType
               /\ provider.modelId = settings.modelId
               /\ provider.apiBase = settings.apiBase

=============================================================================
