\* Every screen and panel, with two or three items and a few calls each; four of them
\* also with a user who does not wait.
CONSTANTS
  None = None Blank = Blank x = x y = y Races = FALSE
  GridValues = {x, y} GridPosts = 2
  BoardCards = {1, 2} BoardCols = {1, 2} BoardLanes = {1, 2} BoardPosts = 2 Tagged = FALSE
  Named = {1, 2, 4} Flat = {2, 3} Later = 4 ProjectCalls = 7
  MaxRecords = 3 RecordCalls = 5
  MaxItems = 2 MaxSecrets = 2 MaxForms = 2 MailCalls = 6
  EntryStatuses <- NewAndActive EntryPhase = "terminal"
  EntryForms = 2 EntryFiles = 2 HastyFiles = 1 EntryCards = 2
  Chunked <- TwiceTheSame Workers = 2 WizardCalls = 6
  Places <- InTens MaxScreens = 4 OwnCalls = 4 OwnEmails = {1, 2}
  Parts = {"projects", "nested", "master", "task", "hasty task",
           "grid", "cards", "board", "hasty board", "entry", "hasty entry",
           "comments", "hasty comments", "threads", "files", "panels", "approvals",
           "directory", "feeds", "project", "records", "transfers", "mail", "mine",
           "pages"}
SPECIFICATION Spec
INVARIANTS TypeOK ListsTrue TaskTrue   OwnAnswers 
PROPERTIES DraftsKept
CHECK_DEADLOCK FALSE
