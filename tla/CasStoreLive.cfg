\* Uploads and builds come and go; the reaper fails and is stopped at any step.
CONSTANTS
  None = None
  Addresses = {a1}
  Files = {f1}
  Attachments = {t1}
  Uploaders = {u1}
  Builders = {b1}
  Editors = {}
  OwnTheme = FALSE
  Grace = 1
SPECIFICATION FairSpec
PROPERTIES OrphansGo
