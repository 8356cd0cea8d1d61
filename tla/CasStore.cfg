\* An upload, a build of a portal with a built-in theme and a theme edit, of the same bytes.
CONSTANTS
  None = None
  Addresses = {a1}
  Files = {f1}
  Attachments = {t1, t2}
  Uploaders = {u1}
  Builders = {b1}
  Editors = {e1}
  OwnTheme = FALSE
  Grace = 1
SPECIFICATION Spec
INVARIANTS TypeOK LiveReadable PutTrue ThemeStored PublishedStored
 
