SPECIFICATION AnnouncementFairSpec
CONSTANTS
  Nobody = Nobody
  Recipients = {1, 2}
  Notices = {ad1}
  Ads = {ad1}
  Cycles = {d1}
  MaxUnreachable = 0
  MaxBroken = 0
PROPERTIES AdsEnd
CHECK_DEADLOCK FALSE
