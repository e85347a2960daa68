\* Pull notifications and hand the list back to net_free_notification_list.
CONSTANTS
  Stamps = {1, 2}
  MaxCalls = 3
  Ops = {"new", "recv_notifications", "free_notification_list"}
SPECIFICATION Spec
INVARIANT NoLostBlock
