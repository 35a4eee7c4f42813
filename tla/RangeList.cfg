SPECIFICATION Spec
CONSTANTS
  LowEnd <- MCLowEnd
  HighEnd <- MCHighEnd
  Addresses <- MCAddresses
  Lengths <- MCLengths
INVARIANTS
  TypeOK
  MeetOnlyByEnclosing
  StartsUnique
