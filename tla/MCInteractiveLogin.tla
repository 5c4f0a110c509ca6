------------------------ MODULE MCInteractiveLogin ------------------------
(* What the service of InteractiveLogin offers.                            *)
EXTENDS InteractiveLogin

OfferedIntervals == {0, 1, 2, MAX_DEVICE_POLL_INTERVAL + 1}
OfferedLifetimes == {0, 4, login_timeout, login_timeout + 1}

===========================================================================
