-------------------------- MODULE MCReportingQueue --------------------------
EXTENDS ReportingQueue
=============================================================================
