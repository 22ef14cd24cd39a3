-------------------------- MODULE MCWidgetInstance --------------------------
EXTENDS WidgetInstanceProps
=============================================================================
