----------------------------- MODULE MCWebPages -----------------------------
(* An instance for TLC of the web client's pages: each screen and panel with its own   *)
(* calls, answers and drafts. They are checked side by side, one of them a behaviour: *)
(* part says which, and the slots s1, s2, ... are its variables. In a hasty part the  *)
(* user does not wait for answers; it has the properties that hold all the same. The  *)
(* parts of WebAnswers are among them, each step one of AnswersNext.                  *)
EXTENDS WebAnswers

CONSTANTS
    Parts, \* the parts a behaviour may be of
    Races, \* whether two moves of portal pages overlap in the server
    Blank, x, y

\* The lists: three cards of a list, every other one in a group.
Parity == [i \in 1 .. 3 |-> i % 2]

\* The forms: two ways to be new and one to be at work.
NewAndActive ==
    {[id |-> 1, phase |-> "triage", sort |-> 2], [id |-> 2, phase |-> "triage", sort |-> 1],
     [id |-> 3, phase |-> "active", sort |-> 1]}

\* A file with one chunk twice, and three screens in order.
TwiceTheSame == <<1, 2, 1, 3>>
InTens == <<10, 20, 30>>

\* A task's panels: threads, tags in two groups, steps between its statuses.
ThreadPhase == [t \in {1, 2, 3} |-> IF t = 2 THEN "active" ELSE "triage"]
TagPath == [t \in {1, 2, 3} |-> IF t = 3 THEN 0 ELSE 1]
St(i, f, t) == [id |-> i, from |-> f, to |-> t, order |-> 1, allowed |-> TRUE]

\* The activity: what two people did in two projects, tags set and set again.
Did(p, w, kind, card, at, old, new) ==
    [project |-> p, who |-> w, kind |-> kind, card |-> card, nav |-> card,
     day |-> IF at = 1 THEN 1 ELSE 2, at |-> at, old |-> old, new |-> new]
FeedRow ==
    <<Did(1, 1, "created", 1, 1, {}, {}), Did(1, 1, "tags", 1, 2, {}, {1}), Did(1, 2, "tags", 1, 3, {1}, {2}),
      Did(2, 1, "comment", 3, 4, {}, {}), Did(1, 1, "tags", 1, 5, {2}, {}), Did(1, 2, "comment", 2, 6, {}, {})>>


Projects == INSTANCE ProjectList WITH
    Titles <- {x, y}, Descriptions <- {x}, MaxMade <- 1, MaxPosts <- 2,
    AddAnother <- FALSE, BothFields <- FALSE, projects <- s1, templates <- s2,
    dialog <- s3, draft <- s4, prompting <- s5, pendingOptimisticId <- s6, made <- s7,
    posts <- s8, sent <- s9, reading <- s10, cards <- s11
Nested == INSTANCE NestedEditor WITH
    Items <- {x, y}, MaxCalls <- 5, Patient <- TRUE, kind <- s1, items <- s2,
    selected <- s3, shown <- s4, calls <- s5, made <- s6, failed <- s7, preview <- s8,
    version <- s9
Master == INSTANCE MasterDetail WITH
    Names <- {x, y}, Filters <- {{x}, {x, y}}, MaxCalls <- 4, HasFilter <- TRUE,
    Patient <- TRUE, items <- s1, selected <- s2, predicate <- s3, dialog <- s4,
    pending <- s5, temps <- s6, calls <- s7, made <- s8, stale <- s9, server <- s10
Task == INSTANCE TaskDetail WITH
    Imperative <- {"title"}, PanelAttrs <- {"assignee"}, Values <- {x, y},
    MaxSaves <- 1, MaxNews <- 2, MaxPolls <- 2, Patient <- TRUE, profile <- s1,
    card <- s2, view <- s3, asked <- s4, task <- s5, editing <- s6, saves <- s7,
    made <- s8, overlay <- s9, poll <- s10, polls <- s11, server <- s12, news <- s13
HastyTask == INSTANCE TaskDetail WITH
    Imperative <- {"title"}, PanelAttrs <- {"assignee"}, Values <- {x, y},
    MaxSaves <- 1, MaxNews <- 2, MaxPolls <- 2, Patient <- FALSE, profile <- s1,
    card <- s2, view <- s3, asked <- s4, task <- s5, editing <- s6, saves <- s7,
    made <- s8, overlay <- s9, poll <- s10, polls <- s11, server <- s12, news <- s13
List == INSTANCE CardList WITH
    N <- 3, Flagged <- {1, 3}, Group <- Parity, Agents <- {x}, MaxCalls <- 3,
    Patient <- TRUE, rows <- s1, selectedIndex <- s2, remembered <- s3, restored <- s4,
    flaggedOnly <- s5, grouped <- s6, routing <- s7, drag <- s8, calls <- s9,
    made <- s10, missed <- s11, lost <- s12, sort <- s13, route <- s14
Texts == INSTANCE Comments WITH
    Own <- 3, Limit <- 2, Old <- 5, MaxRows <- 7, MaxReads <- 4, Patient <- TRUE,
    rows <- s1, bodies <- s2, loading <- s3, loadingMore <- s4, hasMore <- s5,
    draft <- s6, posting <- s7, edit <- s8, reads <- s9, asked <- s10, writes <- s11,
    texts <- s12, missed <- s13, stream <- s14, said <- s15
HastyTexts == INSTANCE Comments WITH
    Own <- 3, Limit <- 2, Old <- 5, MaxRows <- 7, MaxReads <- 4, Patient <- FALSE,
    rows <- s1, bodies <- s2, loading <- s3, loadingMore <- s4, hasMore <- s5,
    draft <- s6, posting <- s7, edit <- s8, reads <- s9, asked <- s10, writes <- s11,
    texts <- s12, missed <- s13, stream <- s14, said <- s15
Threaded == INSTANCE CommThreads WITH
    Threads <- {1, 2, 3}, Phase <- ThreadPhase, People <- {x}, MaxTexts <- 2,
    MaxCalls <- 3, Patient <- TRUE, comms <- s1, filter <- s2, boxes <- s3,
    recipients <- s4, starting <- s5, texts <- s6, made <- s7, calls <- s8, server <- s9
Attached == INSTANCE Files WITH
    MaxFiles <- 3, Old <- 2, Images <- {1, 3}, Viewable <- {1, 2, 3}, MaxCalls <- 4,
    MaxViews <- 3, Patient <- TRUE, alive <- s1, rows <- s2, loading <- s3,
    uploads <- s4, thumbs <- s5, pending <- s6, gal <- s7, views <- s8, urls <- s9,
    opened <- s10, asked <- s11, viewed <- s12, calls <- s13, missed <- s14,
    attached <- s15, made <- s16
Panels == INSTANCE TaskPanels WITH
    Cards <- {2, 3, 4}, Later <- 4, Rels <- {0, 1}, Urls <- {1, 2}, Tags <- {1, 2, 3},
    Path <- TagPath, MaxCalls <- 3, Patient <- TRUE, panel <- s1, calls <- s2,
    asked <- s3, missed <- s4, parent <- s5, rel <- s6, children <- s7, listed <- s8,
    busy <- s9, picker <- s10, links <- s11, form <- s12, applied <- s13, known <- s14,
    par <- s15, relOf <- s16, linked <- s17, tagged <- s18
Votes == INSTANCE Approvals WITH
    Statuses <- {1, 2, 3}, Phase <- <<1, 2, 2>>,
    Steps <- {St(1, 1, 2), St(2, 2, 1), St(3, 2, 3), St(4, 3, 2)}, First <- 2,
    Asked <- {<<2, 3>>}, People <- {1}, Me <- 1, MaxLog <- 4, MaxCalls <- 2,
    Patient <- FALSE, panel <- s1, log <- s2, shown <- s3, form <- s4, text <- s5,
    writing <- s6, steps <- s7, banner <- s8, reading <- s9, firing <- s10,
    calls <- s11, asked <- s12, missed <- s13, own <- s14
People == INSTANCE Directory WITH
    Groups <- {1, 2}, Leaves <- {1, 2}, Roles <- {1}, MaxValues <- 4, MaxPeople <- 3,
    MaxCalls <- 4, Patient <- TRUE, panel <- s1, calls <- s2, asked <- s3, missed <- s4,
    scope <- s5, ready <- s6, shown <- s7, pending <- s8, drafts <- s9, drag <- s10,
    vals <- s11, persons <- s12, accounts <- s13, modal <- s14, addresses <- s15,
    greeting <- s16, ppl <- s17, acc <- s18, spare <- s19, disp <- s20, born <- s21
Feed == INSTANCE Feeds WITH
    Row <- FeedRow, Old <- 5, Gap <- 2, Limit <- 2, MaxCalls <- 4, Patient <- TRUE,
    panel <- s1, scope <- s2, calls <- s3, asked <- s4, seq <- s5, missed <- s6,
    filter <- s7, typed <- s8, rows <- s9, facets <- s10, hasMore <- s11,
    loading <- s12, top <- s13, newest <- s14, logFilter <- s15, url <- s16,
    logShown <- s17, loaded <- s18, failed <- s19, channels <- s20, routes <- s21,
    lists <- s22, selected <- s23, items <- s24, itemsLoaded <- s25, confirm <- s26,
    wlists <- s27, made <- s28
Place == INSTANCE Pages WITH
    Start <- <<0, 1, 1, 0>>, MaxPages <- 5, MaxCalls <- 4,
    MaxOthers <- IF Races THEN 2 ELSE 1, Races <- Races, parent <- s1, sort <- s2,
    hidden <- s3, current <- s4, moves <- s5, nodes <- s6, loaded <- s7, busy <- s8,
    error <- s9, adding <- s10, pubs <- s11, calls <- s12, asked <- s13, missed <- s14,
    others <- s15, stale <- s16

-----------------------------------------------------------------------------
(* After(k), Off(k): the slots past the k-th, which a part with k variables leaves alone.  *)
After27 == <<s28>>
Off27 == s28 = 0
After26 == <<s27, After27>>
Off26 == s27 = 0 /\ Off27
After25 == <<s26, After26>>
Off25 == s26 = 0 /\ Off26
After24 == <<s25, After25>>
Off24 == s25 = 0 /\ Off25
After23 == <<s24, After24>>
Off23 == s24 = 0 /\ Off24
After22 == <<s23, After23>>
Off22 == s23 = 0 /\ Off23
After21 == <<s22, After22>>
Off21 == s22 = 0 /\ Off22
After20 == <<s21, After21>>
Off20 == s21 = 0 /\ Off21
After19 == <<s20, After20>>
Off19 == s20 = 0 /\ Off20
After18 == <<s19, After19>>
Off18 == s19 = 0 /\ Off19
After17 == <<s18, After18>>
Off17 == s18 = 0 /\ Off18
After16 == <<s17, After17>>
Off16 == s17 = 0 /\ Off17
After15 == <<s16, After16>>
Off15 == s16 = 0 /\ Off16
After14 == <<s15, After15>>
Off14 == s15 = 0 /\ Off15
After13 == <<s14, After14>>
Off13 == s14 = 0 /\ Off14
After12 == <<s13, After13>>
Off12 == s13 = 0 /\ Off13
After11 == <<s12, After12>>
Off11 == s12 = 0 /\ Off12
After10 == <<s11, After11>>
Off10 == s11 = 0 /\ Off11
After9 == <<s10, After10>>
Off9 == s10 = 0 /\ Off10

Init ==
    /\ part \in Parts
    /\ AnswersInit
    /\ part = "projects" => Projects!Init /\ Off11
    /\ part = "nested" => Nested!Init /\ Off9
    /\ part = "master" => Master!Init /\ Off10
    /\ part = "task" => Task!Init /\ Off13
    /\ part = "hasty task" => HastyTask!Init /\ Off13
    /\ part = "grid" => Off11
    /\ part = "cards" => List!Init /\ Off14
    /\ part = "board" => Off14
    /\ part = "hasty board" => Off14
    /\ part = "entry" => Off11
    /\ part = "hasty entry" => Off11
    /\ part = "comments" => Texts!Init /\ Off15
    /\ part = "hasty comments" => HastyTexts!Init /\ Off15
    /\ part = "threads" => Threaded!Init /\ Off9
    /\ part = "files" => Attached!Init /\ Off16
    /\ part = "panels" => Panels!Init /\ Off18
    /\ part = "approvals" => Votes!Init /\ Off14
    /\ part = "directory" => People!Init /\ Off21
    /\ part = "feeds" => Feed!Init
    /\ part = "project" => Off27
    /\ part = "records" => Off18
    /\ part = "transfers" => Off18
    /\ part = "mail" => Off17
    /\ part = "mine" => Off17
    /\ part = "pages" => Place!Init /\ Off16
ProjectsNext == part = "projects" /\ Projects!Next /\ UNCHANGED <<part, After11>>
NestedNext == part = "nested" /\ Nested!Next /\ UNCHANGED <<part, After9>>
MasterNext == part = "master" /\ Master!Next /\ UNCHANGED <<part, After10>>
TaskNext == part = "task" /\ Task!Next /\ UNCHANGED <<part, After13>>
HastyTaskNext == part = "hasty task" /\ HastyTask!Next /\ UNCHANGED <<part, After13>>
TableNext == part = "grid" /\ Table!Next /\ UNCHANGED <<part, After11>>
ListNext == part = "cards" /\ List!Next /\ UNCHANGED <<part, After14>>
BoardNext == part = "board" /\ Board!Next /\ UNCHANGED <<part, After14>>
HastyBoardNext == part = "hasty board" /\ HastyBoard!Next /\ UNCHANGED <<part, After14>>
EntryNext == part = "entry" /\ Entry!Next /\ UNCHANGED <<part, After11>>
HastyEntryNext == part = "hasty entry" /\ HastyEntry!Next /\ UNCHANGED <<part, After11>>
TextsNext == part = "comments" /\ Texts!Next /\ UNCHANGED <<part, After15>>
HastyTextsNext == part = "hasty comments" /\ HastyTexts!Next /\ UNCHANGED <<part, After15>>
ThreadedNext == part = "threads" /\ Threaded!Next /\ UNCHANGED <<part, After9>>
AttachedNext == part = "files" /\ Attached!Next /\ UNCHANGED <<part, After16>>
PanelsNext == part = "panels" /\ Panels!Next /\ UNCHANGED <<part, After18>>
VotesNext == part = "approvals" /\ Votes!Next /\ UNCHANGED <<part, After14>>
PeopleNext == part = "directory" /\ People!Next /\ UNCHANGED <<part, After21>>
FeedNext == part = "feeds" /\ Feed!Next /\ UNCHANGED part
OneProjectNext == part = "project" /\ OneProject!Next /\ UNCHANGED <<part, After27>>
RecordsNext == part = "records" /\ Records!Next /\ UNCHANGED <<part, After18>>
TransferNext == part = "transfers" /\ Transfer!Next /\ UNCHANGED <<part, After18>>
MailNext == part = "mail" /\ Mail!Next /\ UNCHANGED <<part, After17>>
OwnNext == part = "mine" /\ Personal!Next /\ UNCHANGED <<part, After17>>
PlaceNext == part = "pages" /\ Place!Next /\ UNCHANGED <<part, After16>>

Next ==
    \/ ProjectsNext \/ NestedNext \/ MasterNext \/ TaskNext
    \/ HastyTaskNext \/ TableNext \/ ListNext \/ BoardNext \/ HastyBoardNext
    \/ EntryNext \/ HastyEntryNext \/ TextsNext \/ HastyTextsNext \/ ThreadedNext
    \/ AttachedNext \/ PanelsNext \/ VotesNext \/ PeopleNext \/ FeedNext
    \/ OneProjectNext \/ RecordsNext \/ TransferNext \/ MailNext \/ OwnNext
    \/ PlaceNext
Spec == Init /\ [][Next]_vars

-----------------------------------------------------------------------------
(* The types of each part.                                                            *)
TypeOK ==
    /\ part = "projects" => Projects!TypeOK
    /\ part = "nested" => Nested!TypeOK
    /\ part = "master" => Master!TypeOK
    /\ part = "task" => Task!TypeOK
    /\ part = "hasty task" => HastyTask!TypeOK
    /\ part = "grid" => Table!TypeOK
    /\ part = "cards" => List!TypeOK
    /\ part = "board" => Board!TypeOK
    /\ part = "hasty board" => HastyBoard!TypeOK
    /\ part = "entry" => Entry!TypeOK
    /\ part = "hasty entry" => HastyEntry!TypeOK
    /\ part = "comments" => Texts!TypeOK
    /\ part = "hasty comments" => HastyTexts!TypeOK
    /\ part = "threads" => Threaded!TypeOK
    /\ part = "files" => Attached!TypeOK
    /\ part = "panels" => Panels!TypeOK
    /\ part = "approvals" => Votes!TypeOK
    /\ part = "directory" => People!TypeOK
    /\ part = "feeds" => Feed!TypeOK
    /\ part = "project" => OneProject!TypeOK
    /\ part = "records" => Records!TypeOK
    /\ part = "transfers" => Transfer!TypeOK
    /\ part = "mail" => Mail!TypeOK
    /\ part = "mine" => Personal!TypeOK
    /\ part = "pages" => Place!TypeOK

(* With no call out, a list shows what the server has and the writes made make true    *)
(* (projects/project-list.ts, admin/master-detail.ts, admin/nested-editor.ts,         *)
(* grid/grid.ts, cardlist/core.ts, kanban/kanban.ts).                                 *)
ListsTrue ==
    /\ part = "projects" => Projects!ShownIsTrue
    /\ part = "nested" => Nested!ShowsSelected
    /\ part = "master" => Master!ListTrue
    /\ part = "grid" => Table!RowsTrue
    /\ part = "cards" => List!ListShown
    /\ part = "board" => Board!BoardTrue

(* A task's attributes, threads, files, links, tags and votes are shown as they are     *)
(* stored (task-detail/).                                                            *)
TaskTrue ==
    /\ part = "task" => Task!AttributesTrue
    /\ part = "hasty task" => HastyTask!AttributesTrue
    /\ part = "threads" => Threaded!ThreadsTrue
    /\ part = "files" => Attached!FilesTrue /\ Attached!UrlsRevoked
    /\ part = "panels" => Panels!PanelsTrue
    /\ part = "approvals" => Votes!MirrorsServer /\ Votes!OwnShown /\ Votes!VotesPlaced

(* The screens about people, values, records, mail, a project, the user and the pages   *)
(* of a portal show what is stored, and no page is under itself, as page-structure.ts:8   *)
(* has the server ensure (admin/, mailin/, myscreens/, project-detail/, pages/).      *)
ScreensTrue ==
    /\ part = "directory" => People!DirectoryTrue
    /\ part = "records" => Records!RecordsTrue
    /\ part = "mail" => Mail!PagesTrue
    /\ part = "mine" => Personal!MineTrue
    /\ part = "project" => OneProject!ProjectTrue
    /\ part = "pages" => Place!PlaceTrue /\ Place!NoCycle

(* A feed read page by page has no hole and ends only at its end, and shows what the   *)
(* log says (task-detail/task-comments.ts, activity/, mailin/comm-log.ts, watch/).    *)
FeedsWhole ==
    /\ part = "comments" => Texts!FeedWhole /\ Texts!CommentsShown
    /\ part = "hasty comments" => HastyTexts!CommentsShown
    /\ part = "feeds" => Feed!FeedWhole /\ Feed!LogTrue /\ Feed!WatchTrue

(* What was typed is dropped only by its own Cancel or Discard, or by the save that     *)
(* stored it, whatever answers come meanwhile (task-detail/, admin/, mailin/).        *)
DraftsKept ==
    [][/\ part = "projects" => Projects!DraftGuardedStep
       /\ part = "task" => Task!DraftKeptStep
       /\ part = "comments" => Texts!TextsKeptStep
       /\ part = "hasty comments" => HastyTexts!TextsKeptStep
       /\ part = "threads" => Threaded!RepliesKeptStep
       /\ part = "panels" => Panels!AddressKeptStep
       /\ part = "directory" => People!DialogKeptStep
       /\ part = "records" => Records!NewKeptStep
       /\ part = "transfers" => Transfer!ExportOwnStep
       /\ part = "mail" => Mail!SecretsKeptStep /\ Mail!FormsKeptStep]_vars
=============================================================================
