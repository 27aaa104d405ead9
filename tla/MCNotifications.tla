-------------------------- MODULE MCNotifications --------------------------
EXTENDS Notifications
=============================================================================
