SPECIFICATION Spec
CONSTANTS
  Channel = {c1}
  Label = {l1, l2}
  LabelLists = {{l1}, {l2}}
  ChannelLists = {{c1}}
  OtherLabel = other
  None = None
INVARIANTS
  AskedUnlessExempt
  OnlyOfferedLabels
  NothingBlankStarts
  EnvironmentWinsPathwise
