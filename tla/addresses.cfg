\* Three mailboxes made one at a time, two variables of type Address, two nodes, and
\* an ID from an earlier execution that the second mailbox gets again.
SPECIFICATION AddressSpec
CONSTANTS
  Creators = {c1, c2}
  Serial = TRUE
  MaxBoxes = 3
  Slots = {s1, s2}
  Home = 1
  Nodes = {1, 2}
  OldIDs = {1025}
INVARIANTS TableInv AddressInv DeliveryIsExact DeadStaysDead
