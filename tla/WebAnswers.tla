----------------------------- MODULE WebAnswers -----------------------------
(* The pages of the web client that show a late answer in the place it was asked for, *)
(* the grid's open cell, the board's cursor, a record screen's file, a project's      *)
(* refused switches, a mail page's secret; and those that make what a form, a file or *)
(* an import holds, once and whole. They stand side by side, one of them a behaviour: *)
(* part says which, and the slots s1, s2, ... are its variables. On a hasty board and *)
(* in a hasty entry the user does not wait for answers.                               *)
EXTENDS Integers, Sequences, FiniteSets

CONSTANTS
    GridValues, GridPosts,                                  \* the grid's
    BoardCards, BoardCols, BoardLanes, BoardPosts, Tagged,  \* the boards'
    Named, Flat, Later, ProjectCalls,                       \* a project page's
    MaxRecords, RecordCalls,                                \* the record screens'
    MaxItems, MaxSecrets, MaxForms, MailCalls,              \* the mail pages'
    EntryStatuses, EntryPhase, EntryForms, EntryFiles,      \* the new-task overlay's
    HastyFiles, EntryCards,
    Chunked, Workers, WizardCalls,                          \* an upload's, the import's and the export's
    Places, MaxScreens, OwnCalls, OwnEmails,                \* the user's own screens' and addresses'
    None

\* A file of a form is a number, and None stands for its tag.
ASSUME NoneAssumption == None \notin Nat

VARIABLES
    part,
    s1, s2, s3, s4, s5, s6, s7, s8, s9, s10, s11, s12, s13, s14, s15, s16, s17, s18,
    s19, s20, s21, s22, s23, s24, s25, s26, s27, s28

vars == <<part, s1, s2, s3, s4, s5, s6, s7, s8, s9, s10,
          s11, s12, s13, s14, s15, s16, s17, s18, s19, s20, s21, s22, s23, s24, s25,
          s26, s27, s28>>

Table == INSTANCE Grid WITH
    Values <- GridValues, MaxPosts <- GridPosts, Patient <- TRUE, filter <- s1, asc <- s2,
    rows <- s3, selection <- s4, anchor <- s5, confirm <- s6, edit <- s7, posts <- s8,
    made <- s9, stale <- s10, db <- s11
Board == INSTANCE Kanban WITH
    Cards <- BoardCards, Cols <- BoardCols, Lanes <- BoardLanes, MaxPosts <- BoardPosts,
    Patient <- TRUE, filter <- s1, rows <- s2, cursor <- s3, remembered <- s4,
    restored <- s5, dragging <- s6, steps <- s7, scope <- s8, workflow <- s9,
    posts <- s10, made <- s11, missed <- s12, lost <- s13, db <- s14
HastyBoard == INSTANCE Kanban WITH
    Cards <- BoardCards, Cols <- BoardCols, Lanes <- BoardLanes, MaxPosts <- BoardPosts,
    Patient <- FALSE, filter <- s1, rows <- s2, cursor <- s3, remembered <- s4,
    restored <- s5, dragging <- s6, steps <- s7, scope <- s8, workflow <- s9,
    posts <- s10, made <- s11, missed <- s12, lost <- s13, db <- s14
OneProject == INSTANCE ProjectPage WITH
    MaxCalls <- ProjectCalls, Patient <- TRUE, panel <- s1, calls <- s2, asked <- s3, missed <- s4, header <- s5, tabs <- s6,
    tasks <- s7, sel <- s8, search <- s9, pred <- s10, went <- s11, open <- s12,
    pproj <- s13, schema <- s14, labels <- s15, text <- s16, row <- s17, scope <- s18,
    areas <- s19, loaded <- s20, confirming <- s21, busy <- s22, errs <- s23,
    seq <- s24, srv <- s25, imported <- s26, sareas <- s27
Records == INSTANCE RecordScreen WITH
    MaxCalls <- RecordCalls, Patient <- TRUE, panel <- s1, calls <- s2,
    asked <- s3, missed <- s4, scope <- s5, items <- s6, sel <- s7, lastSel <- s8,
    draft <- s9, leaf <- s10, opts <- s11, optsFor <- s12, confirming <- s13,
    notice <- s14, file <- s15, waiting <- s16, recs <- s17, tfiles <- s18
Mail == INSTANCE MailPages WITH
    MaxCalls <- MailCalls, Patient <- TRUE,
    panel <- s1, calls <- s2, asked <- s3, missed <- s4, home <- s5, rows <- s6,
    loaded <- s7, form <- s8, forms <- s9, minted <- s10, mintedAt <- s11,
    confirm <- s12, notice <- s13, items <- s14, running <- s15, shown <- s16,
    runs <- s17
Entry == INSTANCE QuickEntry WITH
    Statuses <- EntryStatuses, BasePhase <- EntryPhase, MaxForms <- EntryForms, MaxFiles <- EntryFiles,
    MaxCards <- EntryCards, Patient <- TRUE, LateFaults <- FALSE, opened <- s1, asking <- s2,
    submitting <- s3, form <- s4, files <- s5, uploads <- s6, inserts <- s7,
    binds <- s8, cards <- s9, made <- s10, toast <- s11
HastyEntry == INSTANCE QuickEntry WITH
    Statuses <- EntryStatuses, BasePhase <- EntryPhase, MaxForms <- EntryForms, MaxFiles <- HastyFiles,
    MaxCards <- EntryCards, Patient <- FALSE, LateFaults <- FALSE, opened <- s1, asking <- s2,
    submitting <- s3, form <- s4, files <- s5, uploads <- s6, inserts <- s7,
    binds <- s8, cards <- s9, made <- s10, toast <- s11
Transfer == INSTANCE Transfers WITH
    Content <- Chunked, Concurrency <- Workers, MaxCalls <- WizardCalls, Patient <- TRUE,
    Redo <- FALSE, panel <- s1, phase <- s2, claimed <- s3, posting <- s4,
    completed <- s5, shown <- s6, missing <- s7, leaving <- s8, held <- s9, made <- s10,
    fault <- s11, wiz <- s12, calls <- s13, asked <- s14, jobs <- s15, imports <- s16,
    menu <- s17, running <- s18
Personal == INSTANCE Mine WITH
    Orders <- Places, MaxCalls <- OwnCalls, Emails <- OwnEmails,
    Patient <- TRUE, panel <- s1, calls <- s2, asked <- s3, missed <- s4, list <- s5,
    views <- s6, loaded <- s7, editing <- s8, creating <- s9, forms <- s10,
    inputs <- s11, screens <- s12, stored <- s13, shown <- s14, busy <- s15,
    adding <- s16, addresses <- s17

-----------------------------------------------------------------------------
AnswersInit ==
    /\ part = "grid" => Table!Init
    /\ part = "board" => Board!Init
    /\ part = "hasty board" => HastyBoard!Init
    /\ part = "project" => OneProject!Init
    /\ part = "records" => Records!Init
    /\ part = "mail" => Mail!Init
    /\ part = "entry" => Entry!Init
    /\ part = "hasty entry" => HastyEntry!Init
    /\ part = "transfers" => Transfer!Init
    /\ part = "mine" => Personal!Init

\* A step is one of the part's own. Other parts are free: MCWebPages has them.
AnswersNext ==
    /\ part' = part
    /\ part = "grid" => Table!Next
    /\ part = "board" => Board!Next
    /\ part = "hasty board" => HastyBoard!Next
    /\ part = "project" => OneProject!Next
    /\ part = "records" => Records!Next
    /\ part = "mail" => Mail!Next
    /\ part = "entry" => Entry!Next
    /\ part = "hasty entry" => HastyEntry!Next
    /\ part = "transfers" => Transfer!Next
    /\ part = "mine" => Personal!Next

AnswersSpec == AnswersInit /\ [][AnswersNext]_vars

(* A late answer lands in the row, card, record or dialog it was asked for             *)
(* (grid/grid.ts, kanban/kanban.ts, admin/theme-files.ts, areas/area-switches.ts,   *)
(* mailin/comm-routes.ts).                                                          *)
OwnAnswers ==
    /\ part = "grid" => Table!CellInOwnRow
    /\ part = "board" => Board!CursorWithCard
    /\ part = "hasty board" => HastyBoard!CursorWithCard
    /\ part = "records" => Records!FilesOwn
    /\ part = "project" => OneProject!RefusalsOwn
    /\ part = "mail" => Mail!SecretOwn

(* A form's submission is made once and whole, and an upload or an import commits what  *)
(* was read and shown (quick-entry/, task-detail/upload.ts, import/import-wizard.ts,  *)
(* myscreens/my-screen-settings.ts).                                                  *)
MadeWhole ==
    /\ part = "entry" => Entry!CreatedWhole /\ Entry!CreatedOnce /\ Entry!SubmitsShown
    /\ part = "hasty entry" => HastyEntry!CreatedOnce
    /\ part = "transfers" => Transfer!UploadWhole /\ Transfer!CommitAsShown /\ Transfer!ImportedOnce
    /\ part = "mine" => Personal!WrittenOnce

\* The inductive invariant of each part: its calls and answers as well.
AnswersInv ==
    /\ part = "grid" => Table!Inv
    /\ part = "board" => Board!CursorWithCard
    /\ part = "hasty board" => HastyBoard!CursorWithCard
    /\ part = "project" => OneProject!Inv
    /\ part = "records" => Records!Inv
    /\ part = "mail" => Mail!Inv
    /\ part = "entry" => Entry!Inv
    /\ part = "hasty entry" => HastyEntry!OnceInv
    /\ part = "transfers" => Transfer!Inv
    /\ part = "mine" => Personal!Inv
=============================================================================
