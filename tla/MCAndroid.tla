-------------------------------- MODULE MCAndroid -------------------------------
EXTENDS AndroidService

\* Nothing is claimed once a request has met a coroutine it does not wait for.
StillOrderly == orderly
=============================================================================
