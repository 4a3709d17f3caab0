\* A member who is to come into the position later is selected; the wizard alone writes the table.
SPECIFICATION WizardSpec
CONSTANTS
  Users = {u1}
  Quals = {plain}
  LastDate = 2
  MaxSlots = 2
  WizardRequests = {r1}
  MaxRows = 2
CONSTRAINT FewRows
PROPERTY SelectedServe
CHECK_DEADLOCK FALSE
