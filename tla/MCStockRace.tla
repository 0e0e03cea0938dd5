---------------------------- MODULE MCStockRace ----------------------------
EXTENDS StockRace, TLC

AllOps == LockFirst \cup Materials
=============================================================================
