\* A theme file is deleted while a build that copied its address runs.
CONSTANTS
  None = None
  Addresses = {a1, a2}
  Files = {}
  Attachments = {}
  Uploaders = {}
  Builders = {b1}
  Editors = {e1}
  OwnTheme = TRUE
  Grace = 1
SPECIFICATION Spec
INVARIANTS PublishedStored
