SPECIFICATION BlockSpec
CONSTANTS
  BlockBuilds = {"mac"}
  SlotLists = {"adapters"}
  Capacity = 2
  MaxRows = 3
  Items = {1, 2, 3}
  LongNamed = {1}
  Connected = {1, 2}
  WithAttrs = {1, 3}
  BigAttrs = {3}
INVARIANT ShownIsPublished
CHECK_DEADLOCK FALSE
