------------------------------ MODULE Providers ------------------------------
(***************************************************************************)
(* The list of providers that coreconfig's menu edits.  It is kept in two  *)
(* files: configs/providers.cfg has those with a link (a subscription or a *)
(* local file), configs/providers_uri.cfg those with a share link.  Every  *)
(* change rewrites the first file and then the second; the terminal may go *)
(* away between the two.  One menu is open at a time.                      *)
(* What is generated from a provider once it is saved is CoreConfig.       *)
(***************************************************************************)
EXTENDS Naturals, FiniteSets

CONSTANTS
    Names,      \* names of providers
    Unset

ASSUME ProvidersAssumption == Unset \notin Names \cup {"web", "local", "uri"}

VARIABLES
    subs,       \* providers.cfg: the link of each name, Unset if it is not there
    uris,       \* providers_uri.cfg: its names
    edit,       \* the provider on screen: [last, name, link], pc of the menu
    todo,       \* the names the second write puts into providers_uri.cfg
    saved,      \* history: names saved and neither removed nor renamed since
    cut         \* history: names whose own save was cut between the two files

listVars == <<subs, uris, edit, todo, saved, cut>>

Links == {"web", "local", "uri"}
Closed == [pc |-> "closed", last |-> Unset, name |-> Unset, link |-> Unset]

ListTypeOK ==
    /\ subs \in [Names -> {"web", "local", Unset}] /\ uris \subseteq Names
    /\ edit \in [pc : {"closed", "open", "a", "c", "e", "d"},
                 last : Names \cup {Unset}, name : Names \cup {Unset}, link : Links \cup {Unset}]
    /\ todo \subseteq Names /\ saved \subseteq Names /\ cut \subseteq Names

-----------------------------------------------------------------------------
Opened == edit.pc = "open"
\* The second file has been written: the menu is back where it was.
AtRest == edit.pc \in {"closed", "open"}

\* mainLoop: a listed provider, or a new one.
OpenProvider ==
    /\ edit.pc = "closed"
    /\ \/ edit' = [Closed EXCEPT !.pc = "open"]
       \/ \E n \in Names : /\ subs[n] # Unset
                           /\ edit' = [pc |-> "open", last |-> n, name |-> n, link |-> subs[n]]
       \/ \E n \in uris : edit' = [pc |-> "open", last |-> n, name |-> n, link |-> "uri"]
    /\ UNCHANGED <<subs, uris, todo, saved, cut>>
SetNameOrLink ==
    /\ Opened
    /\ \/ \E n \in Names : edit' = [edit EXCEPT !.name = n]
       \/ \E l \in Links : edit' = [edit EXCEPT !.link = l]
    /\ UNCHANGED <<subs, uris, todo, saved, cut>>
CloseProvider ==
    /\ Opened /\ edit' = Closed
    /\ UNCHANGED <<subs, uris, todo, saved, cut>>

\* writeProviders, its first file: the names to go are left out.
FirstFile(gone, name, link) ==
    subs' = [m \in Names |-> IF m = name /\ link # "uri" THEN link
                             ELSE IF m \in gone THEN Unset ELSE subs[m]]
SecondFile(gone, name, link) == (uris \ gone) \cup (IF link = "uri" THEN {name} ELSE {})

\* Mutant of SaveProvider: a provider that changed its kind stays in the other file.
SaveProviderKind(how) ==
    /\ Opened /\ edit.name # Unset /\ edit.link # Unset
    /\ LET gone == {edit.name, edit.last} IN
       /\ IF edit.link = "uri" THEN UNCHANGED subs ELSE FirstFile(gone, edit.name, edit.link)
       /\ todo' = IF edit.link = "uri" THEN SecondFile(gone, edit.name, "uri") ELSE uris
       /\ saved' = (saved \ gone) \cup {edit.name} /\ cut' = cut \ gone
    /\ edit' = [edit EXCEPT !.pc = how] /\ UNCHANGED uris
\* saveProvider: what has the old or the new name goes, the new one is added.
\* It is called to save (a), to generate from this provider (c), to use it (e).
SaveProvider(how) ==
    /\ Opened /\ edit.name # Unset /\ edit.link # Unset
    /\ LET gone == {edit.name, edit.last} IN
       /\ FirstFile(gone, edit.name, edit.link)
       /\ todo' = SecondFile(gone, edit.name, edit.link)
       /\ saved' = (saved \ gone) \cup {edit.name} /\ cut' = cut \ gone
    /\ edit' = [edit EXCEPT !.pc = how] /\ UNCHANGED uris
\* deleteProviderByName, by the name on screen.
DeleteProvider ==
    /\ Opened /\ edit.name # Unset
    /\ FirstFile({edit.name}, Unset, Unset)
    /\ todo' = SecondFile({edit.name}, Unset, Unset)
    /\ saved' = saved \ {edit.name} /\ cut' = cut \ {edit.name}
    /\ edit' = [edit EXCEPT !.pc = "d"] /\ UNCHANGED uris
ClearProviders ==
    /\ edit.pc = "closed"
    /\ subs' = [n \in Names |-> Unset] /\ todo' = {} /\ saved' = {} /\ cut' = {}
    /\ edit' = [Closed EXCEPT !.pc = "d"] /\ UNCHANGED uris

\* Only a save that is the end of the choice makes the new name the old one.
SecondWrite ==
    /\ ~AtRest /\ uris' = todo
    /\ edit' = CASE edit.pc = "d" -> Closed
                 [] edit.pc = "a" -> [edit EXCEPT !.pc = "open", !.last = edit.name]
                 [] OTHER -> [edit EXCEPT !.pc = "open"]
    /\ UNCHANGED <<subs, todo, saved, cut>>

\* The terminal goes away.
MenuKilled ==
    /\ edit.pc # "closed" /\ edit' = Closed
    /\ cut' = IF edit.pc \in {"a", "c", "e"} THEN cut \cup {edit.name} ELSE cut
    /\ UNCHANGED <<subs, uris, todo, saved>>

\* A list saved earlier.
ListInit ==
    /\ subs \in [Names -> {"web", Unset}] /\ uris \in SUBSET {n \in Names : subs[n] = Unset}
    /\ edit = Closed /\ todo = {}
    /\ saved = {n \in Names : subs[n] # Unset} \cup uris /\ cut = {}

ListNext ==
    \/ OpenProvider \/ SetNameOrLink \/ CloseProvider \/ DeleteProvider \/ ClearProviders
    \/ \E how \in {"a", "c", "e"} : SaveProvider(how)
    \/ SecondWrite \/ MenuKilled

ListSpec == ListInit /\ [][ListNext]_listVars

-----------------------------------------------------------------------------
\* Properties.

\* Whatever is renamed, removed, changed in kind or killed between the two
\* files: a provider that was saved is listed, and once, unless the save that
\* was cut was its own.
SavedIsListed ==
    \A n \in saved : \/ n \in cut
                     \/ ~AtRest
                     \/ (subs[n] # Unset) # (n \in uris)
=============================================================================
