------------------------ MODULE MCNotificationWorker ------------------------
EXTENDS NotificationWorker
=============================================================================
