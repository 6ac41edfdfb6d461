-------------------------- MODULE MCAnalyticsExport --------------------------
EXTENDS AnalyticsExport

CONSTANTS e1, e2, x1, x2

TwoEvents    == {e1, e2}
TwoExporters == {x1, x2}
=============================================================================
