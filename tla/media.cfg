SPECIFICATION MCSpec
CONSTANTS
  None = None
  Streams = {1}
  Instances <- MCInstances
  EventRoom = 1
  MaxEmits = 4
INVARIANTS
  GapsAddUp
  RecordIsCommitted
  ArchivedForGood
  ReceivedIsRecorded
  InputFirst
  CompletedIsDrained
PROPERTIES
  NoStaleOutput
  HostIsServed
