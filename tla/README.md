# A TLA+ model of kubectl-craft

`kubectl craft` is a terminal program that composes Kubernetes Manifests from
the cluster's live Type Schemas. This directory holds TLA+ modules that model
its core logic, TLC configurations that check them on small instances, and
proofs for TLAPS. All paths below are relative to the repository.

Contents: 1 the system, 2 the modules and how they correspond to the code,
3 the runs, 4 bounds and abstractions, 5 fairness, 6 what is proved, 7 where
code and documentation disagree, 8 what is not modelled, 9 plan.

## 1. The system

| Part | State | Operations | What makes it correct |
| --- | --- | --- | --- |
| Launch (`cmd/kubectl-craft/root.go`, `internal/tui/run.go`) | none | connect, index, discover, resolve the deep link, run the shell, write stdout | stdout gets the Emitted Manifest or nothing |
| Session shell (`internal/tui/model.go`) | open view, selected Kind, parsed documents, pending switch, deep link, flight number, manifest | one `Update` per key or message | no view waits for something that is not coming; late messages are dropped; the Draft survives failures |
| Compose view, modal grammar (`compose.go`) | overlays, Draft, last outcome, pop-out | keys | one overlay at a time; content is lost only when the user says so |
| Compose view, field tree (`compose.go`, `search.go`) | materialized rows, expansion, missing positions | expand, set, append, add key, unset, land | rows, markers and counts agree with the Draft |
| Version switch (`versionswitch.go`) | target, carried Draft, drops | request, fetch, confirm, commit, cancel | a switch is atomic, and reports what it drops |
| Manual Validate (`validate.go`) | gate, flight number, outcome, findings | gate, request, land, cancel, jump | an outcome that is not marked stale is about the Draft on screen |
| `$EDITOR` pop-out (`popout.go`) | temp file, target position | write, run, read back | the file is removed on every path |
| Draft (`internal/schema/draft*.go`, `graft.go`) | the entry tree | set, unset, append, add key, graft | dense arrays, no hollow fields, items keep their contents |
| Requiredness, emission, carry-over (`requiredness.go`, `emit.go`, `carryover.go`) | none | pure functions of a Draft | they agree with each other: complete Drafts emit complete Manifests, nothing is dropped unreported |
| Disk cache (`internal/data/cache.go`, `client.go`) | files shared by all Sessions | fetch, with read, write, rename, evict | a hit is what the hash names; the cache never fails or replaces a fetch |
| Discovery, resolution (`discovery.go`, `resolve.go`) | none | list Kinds, resolve a token | one broken apiservice hides only itself; a link opens the preferred version |
| Kind picker, field search, version list (`picker.go`, `search.go`, `versionswitch.go`) | filter, highlight, offset, memoized matches | type, erase, move, select, dismiss | what is highlighted is listed, on screen, and what Enter acts on |
| Value widgets and checks (`editor.go`, `schema/value.go`) | a text, a highlight or a toggle | type, confirm | what a widget shows reads back as what is filled |
| Report (`internal/validate`) | none | respell and map the causes of a Status | a finding names the position its cause is about |
| Type Schema and metadata (`tree.go`, `metadata.go`), theme | see section 8 | | |

How they interact. Bubble Tea calls `Model.Update` with one message at a time.
`Update` returns commands; each runs on a goroutine of its own and sends one
message back, later, and in no order relative to the keyboard or to other
commands. This is the concurrency of the program: the shell and the compose
view are sequential code between two messages, and anything may happen between
the key that starts a command and the message that ends it. The compose view
talks to the shell through such messages only (`returnToPickerMsg`,
`versionSwitchRequestedMsg`, `validateRequestedMsg`, ...), even for work that
needs no waiting. The shell talks to the cluster through commands (document
fetch, dry-run) that nothing cancels: leaving a wait means ignoring its answer.
The cache directory is shared with every other Session on the machine.

## 2. Modules

| Module | Models |
| --- | --- |
| `Session` | shell, overlays, version switch, Validate flight, pop-out, exit; the runtime and its commands |
| `MCSession` | the instances of `Session` |
| `SessionInvariant` | the inductive invariant of `Session` |
| `SessionProofs`, `SessionFindingsProofs`, `SessionSafetyProofs` | theorems about `Session`: types, findings, everything else that is always so |
| `Composition` | what a Session promises its user: the abstract specification |
| `SessionPromise` | the refinement mapping from `Session` to `Composition` |
| `SessionPromiseProofs` | the theorems that `Session` implements `Composition` and loses nothing silently |
| `Draft` | operators: entry tree, value checks, requiredness, emission, carry-over |
| `Report` | operators: the server's spelling of a field, its respelling, the causes of a Status |
| `Widget` | operators: the value widgets |
| `DraftProofs` | lemmas about the operators of `Draft` |
| `ComposeTree` | the field tree over a Draft, findings, version switch |
| `ComposeTreeProofs` | theorems about `ComposeTree`, and lemmas about `Report` |
| `MCComposeTree` | two versions of a small Kind |
| `Ordering` | operators: sequences made by sorting and by filtering |
| `Surface` | operators: filtering, ranking, highlights and offsets, shared by the three lists |
| `Discovery` | operators: the Kind list, token resolution, the picker's rows |
| `ComposeView` | `ComposeTree` with a focus, the keys, the search overlay, the version list and the unset confirm |
| `Browse` | launch, picker and compose view together, from a command line on |
| `BrowseProofs` | theorems about `Browse`, and lemmas about `Ordering`, `Surface`, `Discovery` and `ComposeView` |
| `MCBrowse` | a small cluster for `Browse` |
| `Fetcher` | what the Session is promised by its Fetcher: the abstract specification |
| `Cache` | the disk cache over the live Client, step by step; implements `Fetcher` |
| `CacheInvariant`, `CacheProofs` | the inductive invariant of `Cache`, and the theorems |
| `MCCache` | the instance of `Cache` |

`Session` extends nothing of the others: it has a Draft that is a function from
fields to contents, enough to say what is lost, emitted, stale or carried.
`ComposeTree` extends `Draft` (through `Report` and `Widget`) and has the Draft
in full, one confirmed operation per action, without the overlays around it.
What joins them is proved: no key reaches the Draft while a dry-run is out
(`FindingsTheorem`), so `ComposeTree` may take a Validate and its report as one
step. `ComposeView` extends `ComposeTree` and `Surface`: its actions are keys,
and each that changes the Draft takes the action of `ComposeTree` for the
focused row. `Browse` extends `ComposeView` and `Discovery`: what discovery
found decides what the picker lists, what a link opens and what a version
switch offers. Waiting is left to `Session`: in `Browse` a fetch succeeds or
fails at once.

`Session`: `view`, `kind`, `documents`, `switching`, `pendingFieldPath`,
`validateSeq` and `manifest` are the fields of `tui.Model`; `overlay` gathers
the compose view's overlay fields and `Rank` is their order in
`updateOverlay`; `inflight` is the set of started commands, by slot, and a
slot's content is what its message will be. An action is one call of `Update`
with everything it does, including the command it returns: `OpenKind` is
`openKind`, `DocumentFetched` is `documentFetched` with `openCompose` or
`resolveVersionSwitch` inside, `ConfirmGate` is `confirmGatePrompt` with the
`requestValidate` it may end in. `WriteManifest` is the end of `runSession`.
`waived`, `decision`, `abandoned` and the `of` and `kind` of an outcome are
history, read by properties only.

`Composition` has one content over at most one Kind: opened, edited a position
at a time, judged by the cluster, moved to another version, left, written.
Views, overlays, commands in flight and files are how `Session` keeps the
promise. The mapping is direct, but for a verdict, which is the rendered
outcome with the content it is about, and for the end, which comes when
`runSession` has written. Editing, agreeing and asking are separate steps of
the promise because they are separate messages of the code; that nothing
unagreed is lost is then a guard of `Switch` and `Leave`. That every step of
`Session` that switches or leaves meets it is checked by TLC and, without
type-ahead, proved.

`Draft`: an entry tree is a function whose domain is the set of instantiated
positions, each a sequence of segments, and whose values are filled values or
`Null`. Go's tree of `draftEntry` nodes and this function hold the same
information. `Set`, `Unset`, `AppendItem` and `AddKey` are the methods of those
names; `Hollow` is the de-instantiation in `remove`; `Renumbered` is
`deleteChild`; `MissingRequired` is `collectMissing` written as a set;
`ManifestPath` is the compaction of indexes in `emitSequence`. `Admissible` is
what `checkScalar` lets through; `Fitting`, which looks at the display type
only, is what a Draft can hold, because carry-over leaves constraints to the
server. `Values`, `Segments` and `Paths` are what an entry can hold, what a step
of a position can be, and the positions.

`Report`: a spelling is a sequence of dots, names and selectors, the pieces the
normalizer cuts a cause's field into. `Spelled` and `CauseFields` are the
server's side, `field.Path` of the API machinery, which does not quote map
keys; `Pathless` are the spellings `report_test.go` has for no position.
`NormalizeFieldPath` and `MapCauses` are the functions of those names.

`Widget`: a datum has a flavor (what it is) and a spelling (how `renderScalar`
shows it), and two data of different flavors may share a spelling: the number
80 and the string "80". `Opened` is what `newFieldEditor` puts into the widget,
`Confirms` what `confirmValue` makes of a text. `WidgetFor` is the order in which
`newFieldEditor` asks: raw YAML, enum, then the type. `WidgetAssumption` says of
data that whether a number is whole shows in its spelling.

`ComposeTree`: a row is named by its Draft-level Field Path; `LoadRows`,
`ExpandRow`, `InsertRow`, `RemoveRow` and `ReloadRow` are `loadRow`,
`expandRow`, `insertInstantiatedRow`, `removeInstantiatedRow` and the end of
`performUnset`. `WalkToward` is `rowForDraftPath`, `Landing` is `landOn`,
`LandAfterSwitch` is `landAfterSwitch`; `WalkTowardEach` and `ShowFindings` are the
loop of `applyReport` over the mapped findings and what it leaves on screen.
`offenders` is history: the Draft
position each cause is really about, and the row it was pinned to.

`ComposeView`: `Shown` lists the visible rows, placeholders of collections
included, in the order `rebuildRows` lays them out; `cursor` is the index into
them, `FocusIndex` and `FocusRow` are the two functions that place it, and
`Focused` the row it names. `matched` is the search's memoized ranking;
`search` and `versionList` are its filter and highlight and those of the
version list; `unsetting` is the open unset confirm with the path and the count
it names.

`Ordering`: Go sorts and filters slices in place; here the result is a function of
the set of what is sorted (`InOrder`) or of the indexes that are kept (`Picked`), by
rank. `LexicallyBefore` is the comparison of two keys part by part, as
`slices.Compare` and the chained comparators do it.

`Surface`: a list is a filter, a highlight and an offset. `Typed`, `Erased` and
`Cleared` change the filter and take the highlight home, `PickerMove` and
`ListMove` move it, `PickerFollow` keeps it on screen. `MatchedPositions` is
the greedy forward scan with the backward pass that tightens it, from which the
search ranks.

`Discovery`: `DiscoverKinds` is what `DiscoverKinds` lists when the
group-versions in an outage answer with an error, from `IsPersistable`,
`BrowsableKind` with its overrides of group and version, and `KindOrder`;
`ResolveKindToken` and `PreferredVersionOf` resolve a link.

`Browse`: `RefuseLaunch` is every check of `runSession` that ends the program,
`Launch` is `New` with what the checks have left; then keys and resizes go to
the picker or to the compose view.

`Cache`: one action per file system call or request of a fetch; between two of
them another fetch steps, a process ends (a crash, or a user who leaves the
Session while a fetch is under way), the directory is deleted, a file is
damaged, or the cluster revises a document. A fetch keeps the hash it learned
at launch, as a Session does.

Seeded faults. An operator whose comment begins with "Seeded fault" is a
plausible mistake in the definition after it. It is part of no behaviour; for
each checked property, PROJECT.json names the fault that makes TLC report it,
so that no property is checked in vain.

## 3. Runs

| Run | Module, cfg | States | Shows |
| --- | --- | --- | --- |
| `session_switch` | `MCSession`, `SessionSwitch.cfg` | 287 thousand | loading states are awaited, the deep link lands at home, the compose view fits its Kind, the drop confirm is current, one overlay, temp files are consumed, exits are honoured, nothing is lost silently |
| `session_validate` | `MCSession`, `SessionValidate.cfg` | 447 thousand | types; outcomes speak for the Draft; a dry-run has its metadata; `SessionInv`, the inductive invariant of the proofs; that `Session` implements `Composition` |
| `session_liveness` | `MCSession`, `SessionLiveness.cfg` | 72 thousand | every wait ends, and so does a Session that was asked to |
| `compose_tree` | `MCComposeTree`, `ComposeTree.cfg` | 58 thousand | rows, requiredness, findings, emission, carry-over and widgets agree with the Draft, item contents survive |
| `browse` | `MCBrowse`, `Browse.cfg` | 40 thousand | one broken apiservice hides only itself, links open the preferred version, highlights are on screen, the version list offers every served version, the search lists what matches, the focus stays with its row, `d` asks before it discards, jumps land |
| `cache` | `MCCache`, `Cache.cfg` | 504 thousand | `CacheInv`, the inductive invariant of the proofs, with the types; honest hits, accounted leftovers, and that `Cache` implements `Fetcher` |
| six violation runs | | | section 7 |

## 4. Bounds and abstractions

Bounds of `Session`: `Slots` (2 commands in flight: one fetch that was left
behind and one that is awaited, or a cancelled dry-run and the next one; a
third adds another late message of the same kind), `MaxSeq` (4: two dry-runs,
each cancelled), `Files` (1 pop-out, 2 where two are needed to disagree), `Values` (1 or 2 contents: a field is the same or different), five Kinds (two
good versions that differ in a field, one version whose document has no Type
Schema, one whose root cannot be expanded, and a second Kind in the first
one's document).

`session_validate` has the two metadata fields and a blind field that only the
first version defines, so that a switch carries some and drops the other, and a
pop-out writes it, while dry-runs are late.

Bounds of `ComposeTree`: `MaxItems` 2 (a first item to remove and one to
renumber), `MapKeys` 2 keys, one of them of digits (`DigitKeys`), `MaxEntries` 5
(two items with a value each and their array), `MaxCauses` 1 cause per Status
and `Ruled`, the schema positions a cause can name (more causes repeat the walk
of `applyReport` from rows that the model reaches anyway). The two versions
differ in each way carry-over distinguishes: blind or described, a wider or
narrower scalar, a field that is missing on one side. `Data` has a word, the
digits 80 as a number and as a string, a truth value and a graft; one string
has an enum of the digits alone, so that a carried word is not in it. No array
here is inside another's items: `ItemsKeepTheirContents` is proved for those too.
`TreeInv`, the inductive invariant of the proofs, speaks of all positions there
could be, which TLC cannot enumerate: its parts are checked as the run's
invariants, which speak of the rows and entries there are.

Bounds of `Browse`: two versions that can be composed, in which paths match a
filter in several places, a third that is served and not described, a second
group with the same Kind name, another Kind, and resources that fail each
condition of `isPersistable`; `Arguments`, the deep links (into an item, to an
ambiguous name, by a short name of a version that is not preferred); `Outages`,
no group-version or one; `Heights` 2 and 3, so that a resize can push the
highlight off the screen; `Letters` p and o, `MaxFilter` 2; `MaxItems` 2,
`MaxEntries` 3, 2 keys, 1 cause. `Explored` cuts products of things that do not
meet: a Draft is filled, and a search or version list opened, behind a picker
as the launch left it, with every apiservice up; an outcome marks a row
and has no search or version list over it; and the version list is filtered
over an empty Draft.

Bounds of `Cache`: two fetches at once, a group with a hash for each of three
revisions and a group without hashes, `MaxMishaps` 2 writes that end halfway, or
listings or removals that fail, that of a temp file after a failed write
included. Fetches start over for ever, so more than two Sessions take part, two
at a time.

`TypeAhead`. A command that needs no waiting (a *prompt* command: everything
but the fetch and the dry-run) sends its message immediately, but through the
same channel as the keys, so a key that is already there can be handled first.
`TypeAhead = TRUE` is the program as it is. `TypeAhead = FALSE` makes a key
wait until no prompt command's message is outstanding: the case of a user who
types no faster than the program answers. `TypeOK` and `DeepLinkLandsAtHome` are
proved for both; everything else that is always so in a Session needs
`TypeAhead = FALSE`. Three of its properties have runs with type-ahead
(section 7). The others fail with it like this: `LoadingIsAwaited` and
`ComposeFitsItsKind` on two Enters in the picker (`openKind` looks at neither the
view nor a switch); `OneOverlay` on a version list selection overtaken by Enter
on a leaf (the comment in `compose.update` says only one body overlay is ever
open), and `DropConfirmIsCurrent` on the same, when the editor behind the drop
confirm changes the Draft; `ExitIsHonoured` on ctrl+d overtaken by ctrl+c; and
`DryRunHasItsMetadata` on a Kind that is namespaced in one version only, when a
switch overtakes `validateRequestedMsg`.

Other abstractions of note. `Session` has no focus, no filters and no notices:
its picker selects any Kind and its keys act on any field. An editor there
confirms any content its position admits and rejects nothing.
Interrupt stands for every way Bubble Tea's `Run` returns an error. A clean,
cause-less or unavailable outcome differs from one with findings only where the
code does. In `Draft`, patterns, bounds and lengths are a set of refused
values (`Refused`). A graft is one value: what it contains is opaque to the
Draft, and the requiredness inside it is not looked at. A placeholder row over
an empty collection is a row in `ComposeView`; what grows beneath one addresses
nothing in the Draft and is left out. Schema defaults, which only decide where
an unfilled widget starts, are left out. Each datum has one spelling, so that
"080" and "80" are not told apart. In `ComposeTree` a search selects any path;
how it found it is `ComposeView`'s. Names are sequences of letters only where a
filter looks at them; in a cause's spelling a name is one token, so a field whose
name holds dots or brackets is not looked at. In `Cache`, `json.Valid`
is what tells `Corrupt` from a document, and `Segment` is the sanitizing of a
path: it may map two groups to one name, and `CacheAssumption` says that
content hashes then keep them apart.

The branch of `validateResolved` for a Session whose context has ended is not
taken in the model: the context is the command's background context, and where
it ends the program ends with it.

## 5. Fairness

Only `session_liveness` assumes fairness: `WF_vars(Delivery(s))` for each
command slot and `WF_vars(WriteManifest)`. For prompt commands and the end of
`runSession` the Go scheduler justifies it. For the fetch and the dry-run it is
an assumption about the cluster: the client sets no timeout, so a request that
is never answered keeps its loading state open until the user leaves it.
Nobody is assumed to press a key.

## 6. What is proved

Every invariant and action property that the passing runs check holds for any
values of the constants, and so do both refinements. The assumptions on
constants are the `ASSUME`s of the modules: `ConstantsAssumption`, `NilAssumption` and
`VerdictAssumption` (values of different kinds differ, and functions have the
domains they are declared with), `CacheAssumption` (a content hash tells
documents of a group apart), `DraftAssumption` (the parent of a path is a path,
a required field is one of an object, enums are lists of texts),
`ReportAssumption`, `WidgetAssumption`, `ComposeTreeAssumption`, and those of
`KindAssumption`, `DiscoveryAssumption`, `ComposeViewAssumption` and
`BrowseAssumption`. TLC evaluates them on every run. Where a theorem needs more, it says so in its hypothesis:
`~TypeAhead` (section 4) or `HonoursHash` (section 7).

| Theorem | Establishes | Hypothesis |
| --- | --- | --- |
| `SessionProofs!TypeCorrect` | `TypeOK` | |
| `SessionSafetyProofs!DeepLinkTheorem` | `DeepLinkLandsAtHome` | |
| `SessionFindingsProofs!FindingsTheorem` | `FindingsSpeakForDraft` | `~TypeAhead` |
| `SessionSafetyProofs!SessionTheorem` and what follows from it | `SessionInv`, `LoadingIsAwaited`, `ComposeFitsItsKind`, `DropConfirmIsCurrent`, `OneOverlay`, `TempFilesAreConsumed`, `DryRunHasItsMetadata`, `ExitIsHonoured` | `~TypeAhead` |
| `SessionPromiseProofs!PromiseTheorem` | `Session` implements `Composition` | `~TypeAhead` |
| `SessionPromiseProofs!LossTheorem` | `NoSilentLoss` | `~TypeAhead` |
| `CacheProofs!CacheTheorem`, `TypeTheorem`, `LeftoversTheorem` | `CacheInv`, `TypeOK`, `LeftoversAreAccounted` | |
| `CacheProofs!HonestyTheorem` | `HitsAreHonest` | `HonoursHash` |
| `CacheProofs!PromiseTheorem` | `Cache` implements `Fetcher` | `HonoursHash` |
| `ComposeTreeProofs!TreeTheorem` and what follows from it | `TreeInv`, `TypeOK`, `RowsMirrorDraft`, `VisibleRowsAreLoaded`, `MissingIsCurrent`, `FreshFindingsResolve`, `EmitKeepsApart`, `CompleteDraftsEmitComplete`, `CarriedOrReported` | |
| `ComposeTreeProofs!ReopenedTheorem` | `ReopenedValuesStay` | |
| `ComposeTreeProofs!ItemsTheorem` | `ItemsKeepTheirContents` | |
| `ComposeTreeProofs!OffendersTheorem` | `FindingsMarkOffendersWithoutGaps` | |
| `BrowseProofs!BrokenApiserviceTheorem`, `LinkTheorem` | `OneBrokenApiserviceHidesOnlyItself`, `LinkLandsOnPreferred` | |
| `BrowseProofs!HighlightTheorem`, `SwitchTheorem` | `HighlightIsOnScreen`, `SwitchOffersEveryServedVersion` | |
| `BrowseProofs!SearchTheorem` | `SearchListsWhatMatches` | |
| `BrowseProofs!ViewTheorem`, `BrowseTypeTheorem` | `ViewInv`, `BrowseTypeOK` | |
| `BrowseProofs!SilentUnsetTheorem`, `FocusTheorem` | `NoSilentUnset`, `FocusStaysWithItsRow` | |
| `BrowseProofs!JumpTheorem` | `JumpsLand` | |

**Session.** `TypeOK` is inductive by itself: each action has a lemma, actions share
lemmas about what they are composed of (`Launch`, `Becomes`, `Mutate`,
`ComposeOver`, `CommitVersionSwitch`), and the proof of `Next` splits on keys,
overlay keys, commands and deliveries.

`FindingsSpeakForDraft` is not: an outcome speaks for the Draft because the
flight it came from did. `ConversationInv` adds that at most one prompt command
is out (`OnePrompt`), that it belongs to the view that started it
(`PromptsBelong`), that the shell's and the compose view's Kinds agree wherever
both matter (`KindsAgree`) and that requests and the current flight carry the
Manifest of the Draft on screen (`FlightsSpeak`). The view is the reason nothing
changes under a flight: in `validating` only cancellation is possible, and it
moves the flight number on.

`SessionInv` puts the rest beside it. Most of it says that what a message was sent
for still is so when it arrives (`PromptInv`, with `StillSo` for each message):
an overlay that was closed stays closed, a Kind that was offered is served, a
Draft that was found empty, or whose contents were given up, has not grown.
That is the ground of every property that a message could break by coming late.
`ComposedInv` ties the compose view's fields to the view, `SwitchInv` and
`OverlayInv` what is pending to the Kind and Draft on screen, and `ExitInv` has a
decision to leave followed by its message until `runSession` wrote what was
decided (`Due`). The lemmas show each part for each group of actions.

The refinement of `Composition` is a step simulation under `SessionInv`: keys of
overlays edit, agree or stutter, `validateRequestedMsg` asks, a landing outcome
judges, a fetch opens or switches, and the end is the writing of what is `Due`.
`LossTheorem` is the action property by the same division: only confirmed
editing, a switch whose drops were confirmed and an agreed departure take
anything away.

**Cache.** A directory entry is right because of what its writer knew:
`FetchInv` says that a fetch caches what it was replied under the hash it asked by,
`FilesInv` that files are bodies, and honest where the cluster honours hashes.
The count of leftovers needs more, since two files of a group are no mistake while
the writer of one still is to remove the other (`Supersedes`). `AccountInv` says
that outside a set of *owed* files any two of a group are in that relation, and that
orphans and owed files together are no more than the mishaps; a mishap adds one
orphan or one owed file (a listing that fails or an eviction that is abandoned
owes only the new file, since the others are related without it), and removals
by anyone only shrink the set. `LeftoversAreAccounted` then
follows by counting: what is not owed and not one's group's only file is removed
by a fetch that is still evicting. The refinement of `Fetcher` shows that every
system call but the last of a fetch stutters, and that the last answers by a
document the hash names or by an error the cluster gave.

**Draft.** `DraftProofs` has the lemmas about the operators. A well-formed Draft
(`WellFormed`) has every position its positions go through, holds values only
where they fit, has items without gaps, and no field that holds nothing.
`Set`, an appended item, an added key, `Unset` and `CarryOver` keep it so
(`SetIsWellFormed`, `EntryIsWellFormed`, `UnsetIsWellFormed`,
`CarryOverIsWellFormed`). The hard one is `Unset`, which takes hollow fields away
up to the next item and then closes the gap: renumbering is injective on what
is left, and keeps what is beneath what (`RenumberedApart`,
`RenumberedBeneath`). Emission compacts indexes by rank, and ranks of emitted
items are dense and distinct (`RankFacts`), so two positions never share one
spelling in the Manifest (`EmissionKeepsApart`).

**The field tree.** Rows are a set of positions, and `TreeInv` says which: the root,
and each position whose parent's row is loaded and that the schema has and,
for an item or key, the Draft holds (`Shown`, `RowsMirror`). An expanded row and its
children are loaded (`LooksAhead`), missing positions are those of the Draft, and the
findings of a fresh outcome have rows (`OutcomeInv`). Every operation on rows is shown to
keep this for the Draft after the operation: loading, expanding, inserting,
removing (with the renumbering of the rows beside it), reloading, and the walks
of a search, a jump, a report and a version switch. Appending and unsetting
change Draft and rows together, and the proof is where they are shown to make
the same change.

`ItemsKeepTheirContents` follows from the same division. A value that is set and a
key that is added change only what they are beneath (`GrewElsewhere`), which is one
item of an array at most; an appended item is new and empty; and a removal moves
an item with everything in it (`UnsetMovesContent`), so that the array becomes what
it was without one item (`UnsetRemovesItem`). The proof showed that the property has
to say which arrays it compares: one inside an item that a removal moves has
another position afterwards, and is then part of what that item keeps (`Stays`).

**The findings.** A position is spelled by the server and respelled by the client,
and `Respelled` says what comes back: the position, with each key of digits turned
into an item. The spelling is followed token by token. `SpellsTo` says where the
token of each segment sits, that only dots are between them, and that the whole is
grammatical, and one more segment keeps that (`MoreSpelled`), so that trimming, the
grammar check and the dropping of dots leave the tokens in order
(`PickedInOrder`). The rest is about what there is to spell. Where every item is
emitted, a position is the same in Manifest and Draft (`UncompactedPath`); a missing
position has only fields beneath what the Draft holds (`MissingAddressed`); the walk
toward such a position arrives (`WalkReaches`); and a key of digits, read as an
item, names an item of a map, which no tree has (`MisreadIsNoRow`). The proof showed
two earlier forms of the property to be wrong. It excluded Drafts with empty items
or keys, but an item whose only contents are an empty key is left out of the
Manifest as well, so it now asks that every item is emitted. And a root field
of the name `<nil>` would read as no field at all, so it is excepted
(`ReadsAsAnother`).

**Lists.** What a list shows is sorted or filtered, and the properties of the lists
are about ranks. `StrictOrder` says of an order that it has no ties, and `Places` that a
member's rank then names it; from that follow what `InOrder` and `Picked` return
(`Listed`). The orders of Kinds, of rows on screen, of field paths and of matches
are each shown strict. `LaunchInv` has the rows of the picker be all Kinds of the
groups that answered, each once, and never changed after the launch; `PickerInv`
has the highlight within the rows, and its offset such that it is on screen;
`KindInv` has the open Kind be one of the rows, and the version list hold its
siblings in the picker's order. They hold together (`OnScreenInv`), because a
selection takes its Kind from the rows.

The search shows a memo, so `SearchInv` says of what filter it is: of the one
that is typed, or of none while the search is closed. That the memo is what
`SearchListsWhatMatches` describes is about the fuzzy match. The forward scan ends
at the least index any occurrence ends at, and the backward pass from there is
pointwise the rightmost of those that end there; so its span is the tightest
of theirs. An occurrence that ends later may be tighter still: the code does not
look for it, and the property does not ask for it.

**The focus.** The cursor is an index, and which row it names depends on how many
are above. `ViewInv` has the index within the rows on screen (`FocusInv`), and an open
unset confirm name the focused row and what it holds now (`UnsettingInv`): the keys
that could change either go to the confirm. `NoSilentUnset` follows, once the
renumbering of `Unset` is shown to lose no filled value but those it counts.

`FocusStaysWithItsRow` compares two lists of rows. What grows, folds or is reloaded
beneath a row leaves the rows above it as they were (`AboveOrdered`), and so its
place. A removed row is no longer there to look for, and the code keeps the index.
Rows between a removed item and the placeholder that ends its collection are
siblings or beneath one, so the row that takes the index is a sibling, the same
collection's placeholder, or what renumbering left there, and no other row of the
collection is between (`TakesPlace`). The proof showed an
earlier form of the property to be wrong: it took an item that the Draft did not
have before for one that was added, but in an array of arrays a removal renumbers
an item to a position that was not there, and adds nothing. The property now asks
for the key.

**Jumps.** A landing walks the dotted path one name at a time, and after each it
stands either on the row of what it has read so far, with every collection
entered at its first entry, or where a collection held nothing and it stopped for
good (`LandPast`, `Walked`). The rows above it are expanded on the way (`OnWay`), so that
the row it ends on is on screen and can be found by its index (`FocusLands`); a
finding is reached by `WalkToward` for the same reason (`WalkOpens`). A match
names its Schema path; a version switch and a deep link name a dotted text,
which `LandAfterSwitch` looks up among the paths the Type Schema lists. The
proof showed an earlier form of `JumpsLand` to be wrong: it had the walk end on
the empty collection, but where that is itself the item or the value of another,
the walk ends on the field both are in (`NearestField`).

Induction. The library's induction theorems take an operator and cannot be
instantiated, but induction over a set can be stated without one: `Induction`
says that a set which holds 0, and n + 1 with n, holds every number. With the
set of lengths for which a claim holds, that reaches the recursive functions of
the model, the walks over a path and the folds of the community modules.

Only model-checked. Liveness and fairness (`session_liveness`) are out of the
prover's reach. The properties of the violation runs do not hold.

## 7. Where code and documentation disagree

Each has a run that ends in a violation of one property.

- `typeahead_findings`: `v`, then an edit that is handled before
  `validateRequestedMsg`. The dry-run sees the older Manifest and its outcome
  is shown as fresh.
- `typeahead_loss`: Esc on an empty Draft, then `a` on an array before
  `returnToPickerMsg`. The item is dropped without a question.
- `typeahead_files`: `e` twice. The second pop-out replaces the record of the
  first, whose temp file stays.
- `late_failure`: a Kind's fetch is left and the same Kind is opened again. The
  first fetch fails, and the Session goes to the error state although the
  second fetch is under way: the guard compares Kinds, where Validate compares
  flight numbers. No type-ahead is needed.
- `compose_tree_findings`: a Draft with an empty item before a filled one.
  Emission leaves the empty item out, the server reports an index of what it
  was sent, and the finding marks the wrong item. Where every item is emitted
  findings mark what they are about (`FindingsMarkOffendersWithoutGaps`).
- `cache_stale_hash`: a Session that was launched before the cluster revised a
  document asks for it by the older hash. If the cluster answers that with the
  document it serves now (`HonoursHash = FALSE`), the client takes it as it is
  and the cache stores it under the older hash, where another Session finds it
  once the cluster is back at that revision. Whether clusters do is outside
  this repository; that nothing in the client or the cache would notice is not.
  With `HonoursHash = TRUE` hits are honest (`cache`).

More observations have no run of their own. A required array that holds only
empty items counts as present, the status line says that no required field is
missing, and the Manifest lacks the array. The run reaches such Drafts (`ports`
in `v2`), and `CompleteDraftsEmitComplete` says that this is the only way: what
a complete Draft's Manifest lacks is a field with an empty item or key at or
beneath it. It also exempts `apiVersion` and `kind` at the root (`Identity`),
which emission takes from the Kind and not from the Draft. Leftovers in the
cache are bounded by one per crash as documented, but leaving a Session while
its fetch writes counts as a crash, so does every removal that fails, and a temp
file is never removed by a later Session. Where the cache root's own path is no
valid pattern, as with an unmatched bracket, the listing fails on every write
and nothing is evicted: `evictSuperseded` has the sanitized segment glob-safe by
construction, which says nothing of the directory before it. And two Sessions
that were launched before and after a revision may evict each other's files,
which leaves nothing cached and harms nothing.

`ReopenedValuesStay` names two values that opening a widget and pressing Enter
changes, though `newFieldEditor` says that a value the Draft holds prefills the
widget. A version switch carries by type family and leaves enums to the server
(`carryValue`), so a select list may open on a value it does not offer; it then
highlights its first, and Enter replaces the value. And a string of digits that
was carried to an int-or-string position reads back as an integer. Neither can
be typed in the version it is then in.

The server does not quote map keys, so a finding about a key of digits is
respelled as an item index, as `report_test.go` has it, reaches no row and goes
to the results pane, as would one about a root field of the name `<nil>`
(`ReadsAsAnother`). A version switch keeps the focus on its field but moves it
from any item to the first, because it lands on the dotted path. A short name
that only a version which is not preferred declares opens that version, where
`CONTEXT.md` has a token resolve to the Preferred Version;
`LinkLandsOnPreferred` speaks of the preferred among the versions that answer
to the token. `FieldPaths` lists a recursive Type Schema for one lap, so that a
link or a switch that lands deeper falls to the root. A terminal too low for
any picker row shows none, and Enter opens the highlighted one all the same.

## 8. What is not modelled

Parsing of documents, `$ref` resolution and its cycles, the composition of
metadata from a schema chain, constraint texts; what patterns, bounds and
formats compute; the classification of the dry-run's HTTP answers and the
resolution of a resource's endpoint (`internal/data/validate.go`): the outcomes
they end in are there, in `Session`; URLs, TLS and kubeconfig; the choice of
the cache directory and the flags; the offsets of the tree pane, the search and
the version list, paste, notices, help, themes and rendering; rows beneath a
placeholder; fixture generators and test support.

## 9. Plan

1. Done: `Session` with its runs and two theorems, and the abstract
   `Composition` it implements; `Draft`, `Report`, `Widget` and `ComposeTree`;
   `Surface`, `Discovery`, `ComposeView` and `Browse`; `Fetcher` and `Cache`.
2. Done: proofs about `Session`, `Cache`, `Draft` and `ComposeTree`, and both
   refinements (section 6).
3. Done: proofs about `Report`, that respelling a server's spelling gives back
   the position, and about `Surface`, `Discovery`, `ComposeView` and `Browse`.
4. Left: composition of a Type Schema from its documents, and the resolution of
   an endpoint, as models.
