----------------------------- MODULE AnalyzerRegistry -----------------------------
(***************************************************************************)
(* The registry of analyzers (libs/engine/core/analyzer-registry.ts):      *)
(* analyzers are found by name and by language, come and go while          *)
(* analyses run, and are disposed of when they go.                         *)
(*                                                                         *)
(* An analyzer's dispose and analyze are awaited: whatever else is called  *)
(* may run meanwhile.  What an analyzer finds is left out: an analysis is  *)
(* which analyzers it ran.                                                 *)
(***************************************************************************)
EXTENDS Integers, FiniteSets, SequencesExt

CONSTANTS
  Analyzers,         \* the analyzers
  AnalyzerName,      \* name of each
  AnalyzerLanguages, \* languages of each
  Removers,          \* calls of unregister or disposeAll that may be under way at a time
  MaxRegistrations   \* bound on the registrations

Names == {AnalyzerName[a] : a \in Analyzers}
Languages == UNION {AnalyzerLanguages[a] : a \in Analyzers}

ASSUME AnalyzerRegistryAssumption ==
  /\ IsFiniteSet(Analyzers) /\ MaxRegistrations \in Nat
  /\ \A a \in Analyzers : IsFiniteSet(AnalyzerLanguages[a])

VARIABLES
  analyzers,      \* those registered: at most one of a name
  languageMap,    \* per language: its analyzers in order, <<>> without an entry
  removals,       \* the calls under way
  analysis,       \* an analysis under way or done
  registrations,  \* registrations so far
  racing      \* whether removals that may be of one analyzer have overlapped

registryVars == <<analyzers, languageMap, removals, analysis, registrations, racing>>

IdleRemoval == [step |-> "idle", of |-> {}]
IdleAnalysis ==
  [step |-> "idle", todo |-> {}, language |-> "none", list |-> <<>>, lives |-> FALSE, next |-> 1,
   due |-> {}, ran |-> {}, removed |-> FALSE]

RegistryInit ==
  /\ analyzers = {}
  /\ languageMap = [l \in Languages |-> <<>>]
  /\ removals = [r \in Removers |-> IdleRemoval]
  /\ analysis = IdleAnalysis
  /\ registrations = 0 /\ racing = FALSE

Registered(name) == {a \in analyzers : AnalyzerName[a] = name}

-----------------------------------------------------------------------------
(* Registration.  A loop over a language's array goes on over that array as it changes. *)

Pushed(a) ==
  [l \in Languages |->
     IF l \in AnalyzerLanguages[a] THEN Append(languageMap[l], a) ELSE languageMap[l]]

Spliced(a) ==
  [l \in Languages |->
     IF l \in AnalyzerLanguages[a] THEN RemoveFirst(languageMap[l], a) ELSE languageMap[l]]

\* An array that becomes empty is deleted: a later one is another.
Follow(map) ==
  IF analysis.lives
  THEN [analysis EXCEPT !.list = map[analysis.language], !.lives = map[analysis.language] # <<>>]
  ELSE analysis

\* Mutant: an analyzer takes the place of another of its name.
MutRegister(a) ==
  /\ registrations < MaxRegistrations
  /\ analyzers' = (analyzers \ Registered(AnalyzerName[a])) \cup {a}
  /\ languageMap' = Pushed(a)
  /\ analysis' = Follow(languageMap')
  /\ registrations' = registrations + 1
  /\ UNCHANGED <<removals, racing>>

\* A name that is taken is an error.
Register(a) ==
  /\ registrations < MaxRegistrations
  /\ Registered(AnalyzerName[a]) = {}
  /\ analyzers' = analyzers \cup {a}
  /\ languageMap' = Pushed(a)
  /\ analysis' = Follow(languageMap')
  /\ registrations' = registrations + 1
  /\ UNCHANGED <<removals, racing>>

Dispose(r, step, gone) ==
  /\ removals[r].step = "idle"
  /\ removals' = [removals EXCEPT ![r] = [step |-> step, of |-> gone]]
  /\ racing' = (racing \/ \E other \in Removers :
                      \/ removals[other].of \cap gone # {}
                      \/ /\ removals[other].step # "idle"
                         /\ "disposeAll" \in {step, removals[other].step})
  /\ UNCHANGED <<analyzers, languageMap, analysis, registrations>>

\* unregister: of an unknown name it does nothing.
Unregister(r) ==
  \E name \in Names : Registered(name) # {} /\ Dispose(r, "unregister", Registered(name))

\* disposeAll: also while there are none.
DisposeAll(r) == Dispose(r, "disposeAll", analyzers)

\* Then the name is deleted, whoever has it by now, and the analyzer disposed of spliced out.
Unregistered(r) ==
  /\ removals[r].step = "unregister"
  /\ \E a \in removals[r].of :
       /\ analyzers' = analyzers \ Registered(AnalyzerName[a])
       /\ languageMap' = Spliced(a)
       /\ analysis' = [Follow(languageMap') EXCEPT !.removed = TRUE]
  /\ removals' = [removals EXCEPT ![r] = IdleRemoval]
  /\ UNCHANGED <<registrations, racing>>

\* Both maps are cleared, of what was registered meanwhile too; arrays stay as they are.
AllDisposed(r) ==
  /\ removals[r].step = "disposeAll"
  /\ analyzers' = {}
  /\ languageMap' = [l \in Languages |-> <<>>]
  /\ analysis' = [analysis EXCEPT !.lives = FALSE, !.removed = TRUE]
  /\ removals' = [removals EXCEPT ![r] = IdleRemoval]
  /\ UNCHANGED <<registrations, racing>>

\* A dispose that fails leaves everything registered.
DisposeFails(r) ==
  /\ removals[r].step # "idle"
  /\ removals' = [removals EXCEPT ![r] = IdleRemoval]
  /\ UNCHANGED <<analyzers, languageMap, analysis, registrations, racing>>

-----------------------------------------------------------------------------
(* Analyses *)

Others == UNCHANGED <<analyzers, languageMap, removals, registrations, racing>>

\* analyze: those of the language, all begun at once, or the one named.
AnalyzeFile ==
  /\ analysis.step = "idle"
  /\ \E l \in Languages :
       \E chosen \in {ToSet(languageMap[l])} \cup {{a} : a \in analyzers} :
         /\ chosen # {} /\ \A a \in chosen : l \in AnalyzerLanguages[a]
         /\ analysis' = [IdleAnalysis EXCEPT !.step = "done", !.due = chosen, !.ran = chosen]
  /\ Others

\* analyzeMultiple: files of several languages.
AnalyzeMultiple ==
  /\ analysis.step = "idle"
  /\ \E some \in SUBSET Languages \ {{}} :
       analysis' = [IdleAnalysis EXCEPT !.step = "language", !.todo = some]
  /\ Others

\* The array of the next language; without an entry it is a new one.
AnalyzeLanguage ==
  /\ analysis.step = "language"
  /\ \/ /\ analysis.todo = {}
        /\ analysis' = [analysis EXCEPT !.step = "done"]
     \/ \E l \in analysis.todo :
          analysis' =
            [analysis EXCEPT !.step = "analyzer", !.todo = @ \ {l}, !.language = l,
               !.list = languageMap[l], !.lives = languageMap[l] # <<>>, !.next = 1,
               !.due = @ \cup {a \in analyzers : l \in AnalyzerLanguages[a]}]
  /\ Others

\* One analyzer after the other, each awaited.  One that fails fails the analysis.
AnalyzeNext ==
  /\ analysis.step = "analyzer"
  /\ \/ /\ analysis.next > Len(analysis.list)
        /\ analysis' = [analysis EXCEPT !.step = "language", !.list = <<>>, !.lives = FALSE]
     \/ /\ analysis.next <= Len(analysis.list)
        /\ \/ analysis' = IdleAnalysis
           \/ analysis' = [analysis EXCEPT !.next = @ + 1,
                             !.ran = @ \cup {analysis.list[analysis.next]}]
  /\ Others

MergeResults == analysis.step = "done" /\ analysis' = IdleAnalysis /\ Others

RegistryNext ==
  \/ \E a \in Analyzers : Register(a)
  \/ \E r \in Removers :
       \/ Unregister(r) \/ DisposeAll(r) \/ Unregistered(r) \/ AllDisposed(r) \/ DisposeFails(r)
  \/ AnalyzeFile \/ AnalyzeMultiple \/ AnalyzeLanguage \/ AnalyzeNext \/ MergeResults

RegistrySpec == RegistryInit /\ [][RegistryNext]_registryVars

-----------------------------------------------------------------------------
\* An analyzer that is registered is found under each of its languages, whatever is
\* removed or registered while others are disposed of.  Unless removals have overlapped
\* that may be of one analyzer, a language has no analyzer that is not registered and none
\* twice.  An analysis that ends has run every analyzer registered when it came to their
\* language, unless one was removed meanwhile (register, unregister, disposeAll, analyzeMultiple).
RegistryIsConsistent ==
  /\ \A a \in analyzers : \A l \in AnalyzerLanguages[a] : Contains(languageMap[l], a)
  /\ ~racing => \A l \in Languages :
       ToSet(languageMap[l]) \subseteq analyzers /\ IsInjective(languageMap[l])
  /\ analysis.step = "done" /\ ~analysis.removed => analysis.due \subseteq analysis.ran
===================================================================================
